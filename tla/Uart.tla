-------------------------------- MODULE Uart --------------------------------
(***************************************************************************)
(* Console output, kernel/driver/uart.c, with consolewrite() of console.c: *)
(* writers put characters into a ring, uartstart() moves them to the       *)
(* transmit register, called by a writer or by the interrupt that says     *)
(* that the register is empty.  Echoed and kernel messages go to the       *)
(* register directly, through uartputc_sync().                             *)
(*                                                                         *)
(* consolewrite() holds cons.lock throughout, so one writer is in it at a  *)
(* time; uart_tx_lock is held by whoever is in uartputc() or uartstart().  *)
(* The device and uartputc_sync() heed neither, so uartstart() takes a     *)
(* step for every look at the line status register.                        *)
(***************************************************************************)
EXTENDS Integers, Sequences, FiniteSets

CONSTANTS
  Buffer,            \* what processes write: sequences of characters
  UART_TX_BUF_SIZE,
  NULL

VARIABLES
  tx, tw, tr,   \* uart_tx_buf, uart_tx_w, uart_tx_r
  thr,          \* transmit register; NULL when LSR_TX_IDLE
  irq,          \* the transmit interrupt is pending
  tlock,        \* who holds uart_tx_lock: "writer", "intr" or NULL
  start,        \* its place in uartstart(): "check", "write", or NULL
  src, out,     \* consolewrite(): characters to write; character taken by uartstart()
  writer,       \* consolewrite(): "user" or "loop"
  echo,         \* uartputc_sync(): "idle" or "write"
  panicked

vars == <<tx, tw, tr, thr, irq, tlock, start, src, out, writer, echo, panicked>>
ring == <<tx, tw, tr>>

Cells == 0 .. UART_TX_BUF_SIZE - 1
step(i) == (i + 1) % UART_TX_BUF_SIZE

-----------------------------------------------------------------------------
\* uartinit()
Init ==
  /\ tx = [i \in Cells |-> NULL] /\ tw = 0 /\ tr = 0
  /\ thr = NULL /\ irq = FALSE
  /\ tlock = NULL /\ start = NULL
  /\ src = <<>> /\ out = <<>> /\ writer = "user"
  /\ echo = "idle"
  /\ panicked = FALSE

\* consolewrite() is called: acquire(&cons.lock).
consolewrite ==
  /\ writer = "user"
  /\ \E s \in Buffer : src' = s
  /\ writer' = "loop"
  /\ UNCHANGED <<ring, thr, irq, tlock, start, out, echo, panicked>>

\* Mutant: the last free cell is used as well.
BugPutc ==
  /\ writer = "loop" /\ tlock = NULL
  /\ IF src = <<>> THEN writer' = "user" /\ UNCHANGED <<ring, src, tlock, start>>
     ELSE /\ tx' = [tx EXCEPT ![tw] = Head(src)]
          /\ tw' = step(tw)
          /\ src' = Tail(src)
          /\ tlock' = "writer" /\ start' = "check"
          /\ UNCHANGED <<tr, writer>>
  /\ UNCHANGED <<thr, irq, out, echo, panicked>>

\* Mutant: the character is left for the next interrupt.
BugQuiet ==
  /\ writer = "loop" /\ tlock = NULL
  /\ IF src = <<>> THEN writer' = "user" /\ UNCHANGED <<ring, src>>
     ELSE /\ step(tw) # tr
          /\ tx' = [tx EXCEPT ![tw] = Head(src)]
          /\ tw' = step(tw)
          /\ src' = Tail(src)
          /\ UNCHANGED <<tr, writer>>
  /\ UNCHANGED <<thr, irq, tlock, start, out, echo, panicked>>

\* consolewrite() returns, at the end of the buffer or where either_copyin() fails, or
\* puts the next character into the ring and calls uartstart().  If the ring is full,
\* uartputc() calls sleep() with cons.lock held as well, and sched() panics.
uartputc ==
  /\ writer = "loop" /\ tlock = NULL
  /\ \/ /\ writer' = "user" /\ src' = <<>>
        /\ UNCHANGED <<ring, tlock, start, panicked>>
     \/ /\ src # <<>> /\ step(tw) # tr
        /\ tx' = [tx EXCEPT ![tw] = Head(src)]
        /\ tw' = step(tw)
        /\ src' = Tail(src)
        /\ tlock' = "writer" /\ start' = "check"
        /\ UNCHANGED <<tr, writer, panicked>>
     \/ /\ src # <<>> /\ step(tw) = tr
        /\ panicked' = TRUE
        /\ UNCHANGED <<ring, src, writer, tlock, start>>
  /\ UNCHANGED <<thr, irq, out, echo>>

\* uartstart(): return if there is nothing to send or the register is full, and
\* take a character from the ring otherwise.
uartstart ==
  /\ start = "check"
  /\ IF tw = tr \/ thr # NULL
     THEN start' = NULL /\ tlock' = NULL /\ UNCHANGED <<ring, out>>
     ELSE /\ out' = <<tx[tr]>>
          /\ tx' = [tx EXCEPT ![tr] = NULL]
          /\ tr' = step(tr)
          /\ start' = "write"
          /\ UNCHANGED <<tw, tlock>>
  /\ UNCHANGED <<thr, irq, src, writer, echo, panicked>>

\* uartstart(): WriteReg(THR, c).
uartstart_write ==
  /\ start = "write"
  /\ thr' = out[1]
  /\ start' = "check"
  /\ UNCHANGED <<ring, irq, tlock, src, out, writer, echo, panicked>>

\* uartputc_sync(): wait until the register is empty, and write.
uartputc_sync ==
  /\ IF echo = "idle"
     THEN thr = NULL /\ echo' = "write" /\ UNCHANGED thr
     ELSE thr' = "echo" /\ echo' = "idle"
  /\ UNCHANGED <<ring, irq, tlock, start, src, out, writer, panicked>>

\* Device: the character has been sent.
transmitted ==
  /\ thr # NULL
  /\ thr' = NULL /\ irq' = TRUE
  /\ UNCHANGED <<ring, tlock, start, src, out, writer, echo, panicked>>

\* uartintr(): send buffered characters.
uartintr ==
  /\ irq /\ tlock = NULL
  /\ irq' = FALSE
  /\ tlock' = "intr" /\ start' = "check"
  /\ UNCHANGED <<ring, thr, src, out, writer, echo, panicked>>

Next ==
  /\ ~ panicked
  /\ \/ consolewrite \/ uartputc \/ uartstart \/ uartstart_write \/ uartputc_sync
     \/ transmitted \/ uartintr

Spec == Init /\ [][Next]_vars

-----------------------------------------------------------------------------
(* Properties.                                                             *)

Char == {"echo"} \cup UNION {{s[i] : i \in DOMAIN s} : s \in Buffer}

\* The ring is a queue that loses nothing: what uartstart() takes are the
\* characters of consolewrite(), in order, whatever interrupts and echoes happen.
queue == [k \in 1 .. (tw - tr) % UART_TX_BUF_SIZE |-> tx[(tr + k - 1) % UART_TX_BUF_SIZE]]
Queue == INSTANCE Fifo WITH Proc <- {"writer"}, SIZE <- UART_TX_BUF_SIZE - 1,
                            ubuf <- [p \in {"writer"} |-> src], got <- out
ImplementsOutputQueue == Queue!Spec

\* Output never gets stuck: while the ring holds characters, the register is full,
\* or its interrupt is pending, or somebody is in uartstart().  Nobody waits for room:
\* a character for a ring with UART_TX_BUF_SIZE - 1 characters ends in a panic, and
\* nothing else does.
OutputMoves ==
  /\ tw # tr => thr # NULL \/ irq \/ start # NULL \/ echo = "write"
  /\ panicked => src # <<>> /\ Len(queue) = UART_TX_BUF_SIZE - 1
=============================================================================
