-------------------------------- MODULE Alarm --------------------------------
(***************************************************************************)
(* Alarms: sigalarm() and sigreturn() and the timer branch of usertrap()   *)
(* in kernel/interrupt/trap.c, with the return value that syscall() of     *)
(* kernel/syscall.c stores.                                                *)
(*                                                                         *)
(* The registers of a program are where it is, a0, and all the others, the *)
(* program counter included.  Programs call sigreturn() at the end of the  *)
(* handler and nowhere else, and set alarms whenever they like.            *)
(***************************************************************************)
EXTENDS Integers

CONSTANTS
  MAXALARM,  \* bound: ticks between alarms
  MAXLATE,   \* bound: ticks that a handler overruns the next alarm by
  Reg,       \* values of registers
  NULL

VARIABLES
  trapframe, alarm_trapframe,
  alarm_interval, alarm_ticks, alarm_goingoff,
  left, \* the registers with which the program was last left for the handler
  just  \* sigreturn() has just returned

alarm == <<alarm_interval, alarm_ticks, alarm_goingoff>>
vars == <<trapframe, alarm_trapframe, alarm, left, just>>

Registers == [in : {"main", "handler"}, a0 : Reg, others : Reg]

Init ==
  /\ trapframe \in [in : {"main"}, a0 : {0}, others : {0}]
  /\ alarm_trapframe = NULL
  /\ alarm_interval = 0 /\ alarm_ticks = 0 /\ alarm_goingoff = 0
  /\ left = NULL /\ just = FALSE

\* The program computes.
step ==
  /\ \E r \in Registers : r.in = trapframe.in /\ trapframe' = r
  /\ just' = FALSE
  /\ UNCHANGED <<alarm_trapframe, alarm, left>>

\* syscall() stores the return value in a0.
syscall(frame, ret) == [frame EXCEPT !.a0 = ret]

\* sys_sigalarm(), which returns 0; no interval turns the alarm off.
sigalarm(n) ==
  /\ alarm_interval' = n /\ alarm_ticks' = n
  /\ trapframe' = syscall(trapframe, 0)
  /\ just' = FALSE
  /\ UNCHANGED <<alarm_goingoff, alarm_trapframe, left>>

\* sys_sigreturn(): everything as it was, and then syscall() stores a 0.
sigreturn ==
  /\ trapframe.in = "handler"
  /\ trapframe' = syscall(alarm_trapframe, 0)
  /\ alarm_goingoff' = 0
  /\ just' = TRUE
  /\ UNCHANGED <<alarm_interval, alarm_ticks, alarm_trapframe, left>>

\* Mutant: alarms go off while the handler runs.
BugTick ==
  /\ alarm_interval # 0 /\ alarm_ticks - 1 <= 0
  /\ alarm_ticks' = alarm_interval /\ alarm_goingoff' = 1
  /\ alarm_trapframe' = trapframe
  /\ trapframe' = [trapframe EXCEPT !.in = "handler"]
  /\ left' = IF trapframe.in = "main" THEN trapframe ELSE left
  /\ just' = FALSE
  /\ UNCHANGED alarm_interval

\* usertrap() for a timer interrupt: count down, and go to the handler unless it runs
\* already; in that case the alarm goes off at the first tick after it.
tick ==
  /\ alarm_interval # 0 /\ alarm_ticks > - MAXLATE
  /\ IF alarm_ticks - 1 <= 0 /\ alarm_goingoff = 0
     THEN /\ alarm_ticks' = alarm_interval /\ alarm_goingoff' = 1
          /\ alarm_trapframe' = trapframe
          /\ trapframe' = [trapframe EXCEPT !.in = "handler"]
          /\ left' = trapframe /\ just' = FALSE
     ELSE /\ alarm_ticks' = alarm_ticks - 1
          /\ UNCHANGED <<alarm_goingoff, alarm_trapframe, trapframe, left, just>>
  /\ UNCHANGED alarm_interval

Next == step \/ sigreturn \/ tick \/ \E n \in 0 .. MAXALARM : sigalarm(n)

Spec == Init /\ [][Next]_vars

-----------------------------------------------------------------------------
(* Properties.                                                             *)

\* The handler never interrupts itself, whatever alarms it sets, and sigreturn() gives the
\* program the registers back that it was interrupted with, all but a0: that one is 0,
\* the result of sigreturn(), whatever it was before.
AlarmTransparent ==
  /\ alarm_goingoff = 1 <=> trapframe.in = "handler"
  /\ alarm_goingoff = 1 => alarm_trapframe = left /\ left.in = "main"
  /\ just => trapframe = [left EXCEPT !.a0 = 0]
=============================================================================
