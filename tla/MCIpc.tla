------------------------------- MODULE MCIpc -------------------------------
(***************************************************************************)
(* Sleep, wakeup and context switches (Scheduler.tla), and what processes  *)
(* sleep for: semaphores (Semaphore.tla), pipes (Pipe.tla), console input  *)
(* (Console.tla) and output (Uart.tla); traps (Interrupts.tla) and alarms  *)
(* (Alarm.tla); on small instances.  They share no variable, so that their *)
(* interleavings show nothing that each of them alone does not: a          *)
(* behaviour chooses one of them in its first state, and the others stay   *)
(* where they are.                                                         *)
(***************************************************************************)
EXTENDS Scheduler, Sequences, TLC

CONSTANTS
  SEMPROC, N, Victims, PIPESIZE, UINT, MAXN, Reader, ReaderVictims, INPUT_BUF, CONS_UINT, CONS_MAXN,
  UART_TX_BUF_SIZE, Task, LastTask, MAXLOCKS, MAXALARM, MAXLATE, Reg

ASSUME IpcConstants ==
  /\ SEMPROC \in Nat /\ N \in Nat \ {0} /\ Victims \subseteq 1 .. SEMPROC
  /\ PIPESIZE \in Nat \ {0} /\ MAXN \in Nat
  /\ UINT \in Nat /\ UINT > PIPESIZE /\ UINT % PIPESIZE = 0
  /\ INPUT_BUF \in Nat \ {0} /\ CONS_MAXN \in Nat /\ ReaderVictims \subseteq Reader
  /\ CONS_UINT \in Nat /\ CONS_UINT > INPUT_BUF /\ CONS_UINT % INPUT_BUF = 0
  /\ UART_TX_BUF_SIZE \in Nat \ {0}
  /\ MAXLOCKS \in Nat \ {0} /\ MAXALARM \in Nat /\ MAXLATE \in Nat

VARIABLES
  allocated, resource_count, semlock, qlock, qpc, idx, qkilled, stale, extra,
  data, nread, nwrite, readopen, writeopen, freed, ends, ppc, ubuf, n, got, pkilled, silent,
  input, r, w, e, clock, cpc, cn, tgt, ckilled,
  tx, tw, tr, thr, irq, tlock, start, src, out, writer, echo, panicked,
  run, mode, sie, tp, spp, spie, sepc, stvec, noff, intena, at, next, cause, locks, tplock, epc,
  khart, frame, kept, tpanicked,
  trapframe, alarm_trapframe, alarm_interval, alarm_ticks, alarm_goingoff, left,
  just,
  focus  \* the component that runs

semvars == <<allocated, resource_count, semlock, qlock, qpc, idx, qkilled, stale, extra>>
pipevars ==
  <<data, nread, nwrite, readopen, writeopen, freed, ends, ppc, ubuf, n, got, pkilled, silent>>
consvars == <<input, r, w, e, clock, cpc, cn, tgt, ckilled>>
uartvars == <<tx, tw, tr, thr, irq, tlock, start, src, out, writer, echo, panicked>>
trapvars == <<run, mode, sie, tp, spp, spie, sepc, stvec, noff, intena, at, next, cause, locks,
              tplock, epc, khart, frame, kept, tpanicked>>
alarmvars == <<trapframe, alarm_trapframe, alarm_interval, alarm_ticks, alarm_goingoff, left, just>>

\* Buffers that fit into a ring and that do not, and differ in the order of
\* their bytes.
Buffer == {<<1>>, <<0, 1, 1>>}

Sem == INSTANCE Semaphore WITH NPROC <- SEMPROC, plock <- qlock, pc <- qpc, killed <- qkilled
P == INSTANCE Pipe WITH Proc <- Task \cup {LastTask}, Victims <- {LastTask},
                        pc <- ppc, killed <- pkilled
Cons == INSTANCE Console WITH Proc <- Reader, Victims <- ReaderVictims, UINT <- CONS_UINT,
                              MAXN <- CONS_MAXN, buf <- input, lock <- clock, pc <- cpc, n <- cn,
                              killed <- ckilled
Port == INSTANCE Uart WITH Buffer <- {<<"a">>, <<"b", "a", "a">>}

Traps == INSTANCE Interrupts WITH Proc <- Task, plock <- tplock, panicked <- tpanicked
Alarms == INSTANCE Alarm

\* A component that does not run.
SemOff ==
  /\ allocated = 0 /\ resource_count = 0 /\ semlock = 0 /\ qlock = 0 /\ qpc = 0 /\ idx = 0
  /\ qkilled = 0 /\ stale = 0 /\ extra = 0
PipeOff ==
  /\ data = 0 /\ nread = 0 /\ nwrite = 0 /\ readopen = 0 /\ writeopen = 0 /\ freed = 0 /\ ends = 0
  /\ ppc = 0 /\ ubuf = 0 /\ n = 0 /\ got = 0 /\ pkilled = 0 /\ silent = 0
ConsOff ==
  /\ input = 0 /\ r = 0 /\ w = 0 /\ e = 0 /\ clock = 0 /\ cpc = 0 /\ cn = 0 /\ tgt = 0
  /\ ckilled = 0
PortOff ==
  /\ tx = 0 /\ tw = 0 /\ tr = 0 /\ thr = 0 /\ irq = 0 /\ tlock = 0 /\ start = 0 /\ src = 0
  /\ out = 0 /\ writer = 0 /\ echo = 0 /\ panicked = 0
AlarmsOff ==
  /\ trapframe = 0 /\ alarm_trapframe = 0 /\ alarm_interval = 0 /\ alarm_ticks = 0
  /\ alarm_goingoff = 0 /\ left = 0 /\ just = 0
TrapsOff ==
  /\ run = 0 /\ mode = 0 /\ sie = 0 /\ tp = 0 /\ spp = 0 /\ spie = 0 /\ sepc = 0 /\ stvec = 0
  /\ noff = 0 /\ intena = 0 /\ at = 0 /\ next = 0 /\ cause = 0 /\ locks = 0 /\ tplock = 0
  /\ epc = 0 /\ khart = 0 /\ frame = 0 /\ kept = 0 /\ tpanicked = 0

IpcInit ==
  /\ Init
  /\ focus \in {"sched", "semaphore", "pipe", "console", "uart", "traps", "alarm"}
  /\ IF focus = "semaphore" THEN Sem!Init ELSE SemOff
  /\ IF focus = "pipe" THEN P!Init /\ ends = [t \in Task \cup {LastTask} |-> {"r", "w"}]
                       ELSE PipeOff
  /\ IF focus = "console" THEN Cons!Init ELSE ConsOff
  /\ IF focus = "uart" THEN Port!Init ELSE PortOff
  /\ IF focus = "traps" THEN Traps!Init ELSE TrapsOff
  /\ IF focus = "alarm" THEN Alarms!Init ELSE AlarmsOff
IpcNext ==
  /\ \/ focus = "sched" /\ Next
        /\ UNCHANGED <<semvars, pipevars, consvars, uartvars, trapvars, alarmvars>>
     \/ focus = "semaphore" /\ Sem!Next
        /\ UNCHANGED <<vars, pipevars, consvars, uartvars, trapvars, alarmvars>>
     \/ focus = "pipe" /\ P!Next
        /\ UNCHANGED <<vars, semvars, consvars, uartvars, trapvars, alarmvars>>
     \/ focus = "console" /\ Cons!Next
        /\ UNCHANGED <<vars, semvars, pipevars, uartvars, trapvars, alarmvars>>
     \/ focus = "uart" /\ Port!Next
        /\ UNCHANGED <<vars, semvars, pipevars, consvars, trapvars, alarmvars>>
     \/ focus = "traps" /\ Traps!Next
        /\ UNCHANGED <<vars, semvars, pipevars, consvars, uartvars, alarmvars>>
     \/ focus = "alarm" /\ Alarms!Next
        /\ UNCHANGED <<vars, semvars, pipevars, consvars, uartvars, trapvars>>
     \/ (focus = "sched" => \E p \in Proc : pc[p] = "panic")
        \* processes may stop, the harts' schedulers only after a panic
        /\ UNCHANGED <<vars, semvars, pipevars, consvars, uartvars, trapvars, alarmvars>>
  /\ UNCHANGED focus
IpcSpec ==
  IpcInit
  /\ [][IpcNext]_<<vars, semvars, pipevars, consvars, uartvars, trapvars, alarmvars, focus>>

Symmetry == Permutations(Task) \cup Permutations(CPU)

-----------------------------------------------------------------------------
(* The properties of the other components, each while its component runs;  *)
(* those of Scheduler are checked as they are.                             *)

\* The count of a semaphore is what create, free, P and V made of it, whoever is killed or
\* uses it when it is freed, and the page of a pipe is freed by the last pipeclose() and
\* not used afterwards.
ResourcesExact ==
  /\ focus = "semaphore" => Sem!CountExact
  /\ focus = "pipe" => P!FreedWhenUnused

\* Nobody waits without a reason, in sem_p(), piperead(), pipewrite() or consoleread(), and
\* characters in the ring of the serial port are on their way out.  The exceptions are
\* named: a semaphore whose resources the dead have all kept, that was freed in use, or
\* whose P and V have deadlocked; bytes that a killed writer left without a wakeup();
\* and a full ring, where uartputc() panics instead of waiting.
NobodyForgotten ==
  /\ focus = "semaphore" => Sem!SleeperHasWaker
  /\ focus = "pipe" => P!NobodyForgotten
  /\ focus = "console" => Cons!NoReaderForgotten
  /\ focus = "uart" => Port!OutputMoves

\* A trap leaves no trace: interrupts, vectors, tp and the place to return to are what
\* they were, on whichever hart the thread goes on; a thread that sleeps with a second
\* lock does not come back, sched() panics.  The handler of an alarm leaves one: a0.
TrapsReturn ==
  /\ focus = "traps" => Traps!InterruptsRestored
  /\ focus = "alarm" => Alarms!AlarmTransparent

\* The rings are what they are meant to be: that of a pipe a queue of bytes, that of
\* the console a line that can be edited and a queue of complete lines, and that of
\* the serial port a queue of characters.
ImplementsQueues ==
  /\ focus = "pipe" => P!Queue!Init
  /\ focus = "console" => Cons!Terminal!Init
  /\ focus = "uart" => Port!Queue!Init
  /\ [][/\ focus = "pipe" => [P!Queue!Next]_(P!Queue!vars)
        /\ focus = "console" => [Cons!Terminal!Next]_(Cons!Terminal!vars)
        /\ focus = "uart" => [Port!Queue!Next]_(Port!Queue!vars)]_<<pipevars, consvars, uartvars>>
=============================================================================
