----------------------------- MODULE Interrupts -----------------------------
(***************************************************************************)
(* How processes enter and leave the kernel, and when interrupts are on:   *)
(* usertrap(), usertrapret() and kerneltrap() of kernel/interrupt/trap.c,  *)
(* the vectors in kernel/asm, push_off() and pop_off() of                  *)
(* kernel/lock/spinlock.c, and sched(), which moves a thread to another    *)
(* hart between a push_off() and its pop_off().                            *)
(*                                                                         *)
(* Per hart the model has the registers that traps read and write.  A      *)
(* place in a program is a thread and a label of it; the scheduler of a    *)
(* hart is a thread named after the hart.  Which locks are meant and who   *)
(* else wants them is left to the other modules: here a lock is a          *)
(* push_off() that still has to be undone, except p->lock.  What a handler *)
(* of page faults does is left to Cow and Mmap: here it takes locks and    *)
(* sleeps like a system call, but with interrupts off.  A register or      *)
(* variable that is written before it is read again (sepc, spp and spie    *)
(* after an sret or once usertrap() has looked at them, kernel_hartid once *)
(* uservec has loaded it) goes back to its first value.                    *)
(***************************************************************************)
EXTENDS Integers, FiniteSets

CONSTANTS
  Proc, CPU,
  MAXLOCKS,  \* bound: spinlocks a thread holds at once
  NULL

VARIABLES
  run,                    \* the thread on a hart
  mode, sie, tp,          \* privilege, interrupts enabled, register tp
  spp, spie, sepc, stvec, \* registers for traps
  noff, intena,           \* of cpus[c]
  at, next,               \* label of a thread; where it goes after sched()
  cause,                  \* cause of the trap a thread is in
  locks,                  \* locks a thread holds besides p->lock
  plock,                  \* hart that holds p->lock
  epc, khart,             \* p->trapframe->epc, p->trapframe->kernel_hartid
  frame,                  \* kernelvec and kerneltrap(): sepc, sstatus and tp
  kept,                   \* sched(): intena
  panicked

hart == <<mode, sie, tp, spp, spie, sepc, stvec>>
cpus == <<noff, intena>>
regs == <<epc, khart, frame, kept>>
vars == <<run, hart, cpus, at, next, cause, locks, plock, regs, panicked>>

Thread == Proc \cup CPU

-----------------------------------------------------------------------------
\* The harts are in scheduler(); every process is new and runnable.
Init ==
  /\ run = [c \in CPU |-> c]
  /\ mode = [c \in CPU |-> "kernel"] /\ sie = [c \in CPU |-> TRUE] /\ tp = [c \in CPU |-> c]
  /\ spp = [c \in CPU |-> "user"] /\ spie = [c \in CPU |-> TRUE]
  /\ sepc = [c \in CPU |-> NULL] /\ stvec = [c \in CPU |-> "kernelvec"]
  /\ noff = [c \in CPU |-> 0] /\ intena = [c \in CPU |-> FALSE]
  /\ at = [t \in Thread |-> IF t \in CPU THEN "loop" ELSE "forkret"]
  /\ next = [t \in Thread |-> "syscall"]
  /\ cause = [t \in Thread |-> NULL]
  /\ locks = [t \in Thread |-> 0]
  /\ plock = [p \in Proc |-> NULL]
  /\ epc = [p \in Proc |-> <<p, "user">>] /\ khart = [p \in Proc |-> NULL]
  /\ frame = [t \in Thread |-> NULL]
  /\ kept = [p \in Proc |-> FALSE]
  /\ panicked = {}

goto(t, l) == at' = [at EXCEPT ![t] = l]
panic(msgs) == panicked' = panicked \cup msgs
message(cond, msg) == IF cond THEN {msg} ELSE {}

\* Mutant: the first push_off() does not look whether interrupts were on.
BugPushOff(c) ==
  /\ sie' = [sie EXCEPT ![c] = FALSE]
  /\ intena' = IF noff[tp[c]] = 0 THEN [intena EXCEPT ![tp[c]] = TRUE] ELSE intena
  /\ noff' = [noff EXCEPT ![tp[c]] = @ + 1]

push_off(c) ==
  /\ sie' = [sie EXCEPT ![c] = FALSE]
  /\ intena' = IF noff[tp[c]] = 0 THEN [intena EXCEPT ![tp[c]] = sie[c]] ELSE intena
  /\ noff' = [noff EXCEPT ![tp[c]] = @ + 1]

pop_off(c) ==
  /\ panic(message(sie[c], "pop_off - interruptible") \cup message(noff[tp[c]] < 1, "pop_off"))
  /\ noff' = [noff EXCEPT ![tp[c]] = @ - 1]
  /\ sie' = [sie EXCEPT ![c] = @ \/ (noff[tp[c]] = 1 /\ intena[tp[c]])]
  /\ intena' = IF noff[tp[c]] = 1 THEN [intena EXCEPT ![tp[c]] = FALSE] ELSE intena

\* The thread on hart c is at label l.
here(c, l) == at[run[c]] = l

\* sret of thread t, with sepc, spp and spie as they were written before.
sret(c, t, pc, pp, pie) ==
  /\ goto(t, pc[2])
  /\ panic(message(pc[1] # t, "wrong place"))
  /\ mode' = [mode EXCEPT ![c] = pp] /\ sie' = [sie EXCEPT ![c] = pie]
  /\ spp' = [spp EXCEPT ![c] = "user"] /\ spie' = [spie EXCEPT ![c] = TRUE]
  /\ sepc' = [sepc EXCEPT ![c] = NULL]

-----------------------------------------------------------------------------
\* An interrupt, or an ecall or a page fault of a program.  The hart jumps to stvec: uservec takes tp from the
\* trapframe, kernelvec saves the registers on the stack of the thread.
trap(c, why) ==
  /\ mode[c] = "user" \/ (sie[c] /\ why \in {"timer", "device"})
  /\ LET t == run[c] IN
     /\ spp' = [spp EXCEPT ![c] = mode[c]]
     /\ spie' = [spie EXCEPT ![c] = sie[c]]
     /\ sie' = [sie EXCEPT ![c] = FALSE]
     /\ sepc' = [sepc EXCEPT ![c] = <<t, at[t]>>]
     /\ mode' = [mode EXCEPT ![c] = "kernel"]
     /\ cause' = [cause EXCEPT ![t] = why]
     /\ IF stvec[c] = "uservec"
        THEN /\ goto(t, "usertrap")
             /\ tp' = [tp EXCEPT ![c] = IF t \in Proc THEN khart[t] ELSE @]
             /\ khart' = [p \in Proc |-> IF p = t THEN NULL ELSE khart[p]]
             /\ UNCHANGED frame
        ELSE /\ goto(t, "kerneltrap")
             /\ frame' = [frame EXCEPT ![t] = [sepc |-> NULL, spie |-> FALSE, tp |-> tp[c]]]
             /\ UNCHANGED <<tp, khart>>
  /\ UNCHANGED <<run, stvec, cpus, next, locks, plock, epc, kept, panicked>>

\* usertrap(): a system call runs with interrupts on and the handler of a page fault with
\* interrupts off; the timer makes the process give up the hart.  A process that has been
\* killed exits instead.
usertrap(c) ==
  /\ here(c, "usertrap")
  /\ LET p == run[c] IN
     /\ panic(message(spp[c] # "user", "usertrap: not from user mode"))
     /\ stvec' = [stvec EXCEPT ![c] = "kernelvec"]
     /\ epc' = [epc EXCEPT ![p] = sepc[c]]
     /\ sepc' = [sepc EXCEPT ![c] = NULL] /\ spie' = [spie EXCEPT ![c] = TRUE]
     /\ \/ /\ sie' = [sie EXCEPT ![c] = @ \/ cause[p] = "ecall"]
           /\ goto(p, CASE cause[p] = "ecall" -> "syscall"
                        [] cause[p] = "fault" -> "fault"
                        [] cause[p] = "timer" -> "yield"
                        [] cause[p] = "device" -> "usertrapret")
        \/ /\ cause[p] # "fault"
           /\ goto(p, "exit") /\ UNCHANGED sie
     /\ next' = [next EXCEPT ![p] = IF at'[p] = "yield" THEN "usertrapret" ELSE @]
     /\ cause' = [cause EXCEPT ![p] = NULL]
  /\ UNCHANGED <<run, mode, tp, spp, cpus, locks, plock, khart, frame, kept>>

\* Mutant: interrupts stay on until the return.
BugUsertrapret(c) ==
  /\ here(c, "usertrapret")
  /\ stvec' = [stvec EXCEPT ![c] = "uservec"]
  /\ goto(run[c], "userret")
  /\ UNCHANGED <<run, mode, sie, tp, spp, spie, sepc, cpus, next, cause, locks, plock, regs, panicked>>

\* usertrapret(): interrupts off, traps go to uservec again ...
usertrapret(c) ==
  /\ here(c, "usertrapret")
  /\ sie' = [sie EXCEPT ![c] = FALSE]
  /\ stvec' = [stvec EXCEPT ![c] = "uservec"]
  /\ goto(run[c], "userret")
  /\ UNCHANGED <<run, mode, tp, spp, spie, sepc, cpus, next, cause, locks, plock, regs, panicked>>

\* ... the registers for the return are set, and userret returns.
userret(c) ==
  /\ here(c, "userret")
  /\ LET p == run[c] IN
     /\ khart' = [khart EXCEPT ![p] = tp[c]]
     /\ sret(c, p, epc[p], "user", TRUE)
  /\ UNCHANGED <<run, tp, stvec, cpus, next, cause, locks, plock, epc, frame, kept>>

\* kerneltrap(): sepc and sstatus into local variables; the timer makes a process give
\* up the hart, not the scheduler.
kerneltrap(c) ==
  /\ here(c, "kerneltrap")
  /\ LET t == run[c] IN
     /\ panic(message(spp[c] # "kernel", "kerneltrap: not from supervisor mode")
              \cup message(sie[c], "kerneltrap: interrupts enabled"))
     /\ frame' = [frame EXCEPT ![t].sepc = sepc[c], ![t].spie = spie[c]]
     /\ goto(t, IF cause[t] = "timer" /\ t \in Proc THEN "yield" ELSE "kernelret")
     /\ next' = [next EXCEPT ![t] = IF cause[t] = "timer" THEN "kernelret" ELSE @]
     /\ cause' = [cause EXCEPT ![t] = NULL]
  /\ UNCHANGED <<run, hart, cpus, locks, plock, epc, khart, kept>>

\* Mutant: kerneltrap() does not restore sepc after the yield().
BugKernelret(c) ==
  /\ here(c, "kernelret")
  /\ LET t == run[c]
         f == frame[t]
         to == IF sepc[c] = NULL THEN <<NULL, "user">> ELSE sepc[c] IN
     /\ sret(c, t, to, "kernel", f.spie)
     /\ frame' = [frame EXCEPT ![t] = NULL]
  /\ UNCHANGED <<run, tp, stvec, cpus, next, cause, locks, plock, epc, khart, kept>>

\* The end of kerneltrap() and kernelvec, which leaves tp as it is.
kernelret(c) ==
  /\ here(c, "kernelret")
  /\ LET t == run[c]
         f == frame[t] IN
     /\ sret(c, t, f.sepc, "kernel", f.spie)
     /\ frame' = [frame EXCEPT ![t] = NULL]
  /\ UNCHANGED <<run, tp, stvec, cpus, next, cause, locks, plock, epc, khart, kept>>

-----------------------------------------------------------------------------
\* A system call, or the handler of a page fault, takes and releases locks, and returns;
\* then usertrap() looks whether the process has been killed.
Handler == {"syscall", "fault"}

acquire(c) ==
  /\ at[run[c]] \in Handler /\ locks[run[c]] < MAXLOCKS
  /\ push_off(c)
  /\ locks' = [locks EXCEPT ![run[c]] = @ + 1]
  /\ UNCHANGED <<run, mode, tp, spp, spie, sepc, stvec, at, next, cause, plock, regs, panicked>>

release(c) ==
  /\ at[run[c]] \in Handler /\ locks[run[c]] > 0
  /\ pop_off(c)
  /\ locks' = [locks EXCEPT ![run[c]] = @ - 1]
  /\ UNCHANGED <<run, mode, tp, spp, spie, sepc, stvec, at, next, cause, plock, regs>>

handled(c) ==
  /\ at[run[c]] \in Handler /\ locks[run[c]] = 0
  /\ goto(run[c], "usertrapret") \/ goto(run[c], "exit")
  /\ UNCHANGED <<run, hart, cpus, next, cause, locks, plock, regs, panicked>>

\* acquire(&p->lock) in yield() and at the end of exit() ...
yield(c) ==
  /\ at[run[c]] \in {"yield", "exit"}
  /\ plock[run[c]] = NULL /\ plock' = [plock EXCEPT ![run[c]] = c]
  /\ push_off(c)
  /\ goto(run[c], "sched")
  /\ next' = [next EXCEPT ![run[c]] = IF here(c, "exit") THEN "dead" ELSE @]
  /\ UNCHANGED <<run, mode, tp, spp, spie, sepc, stvec, cause, locks, regs, panicked>>

\* ... and in sleep(), whose release() of the caller's lock undoes the push_off() again.
sleep(c) ==
  /\ at[run[c]] \in Handler /\ locks[run[c]] > 0
  /\ plock[run[c]] = NULL /\ plock' = [plock EXCEPT ![run[c]] = c]
  /\ goto(run[c], "sched")
  /\ next' = [next EXCEPT ![run[c]] = IF here(c, "fault") THEN "refault" ELSE "relock"]
  /\ locks' = [locks EXCEPT ![run[c]] = @ - 1]
  /\ UNCHANGED <<run, hart, cpus, cause, regs, panicked>>

relock(c) ==
  /\ \/ here(c, "relock") /\ goto(run[c], "syscall")
     \/ here(c, "refault") /\ goto(run[c], "fault")
  /\ push_off(c)
  /\ locks' = [locks EXCEPT ![run[c]] = @ + 1]
  /\ UNCHANGED <<run, mode, tp, spp, spie, sepc, stvec, next, cause, plock, regs, panicked>>

\* sched(): a panic stops the hart; else to its scheduler.
sched(c) ==
  /\ here(c, "sched")
  /\ LET p == run[c]
         msgs == message(plock[p] # tp[c], "sched p->lock")
                 \cup message(noff[tp[c]] # 1, "sched locks")
                 \cup message(sie[c], "sched interruptible") IN
     /\ panic(msgs)
     /\ IF msgs # {}
        THEN goto(p, "panic") /\ UNCHANGED <<run, kept>>
        ELSE /\ kept' = [kept EXCEPT ![p] = intena[tp[c]]]
             /\ goto(p, IF next[p] = "dead" THEN "dead" ELSE "switched")
             /\ run' = [run EXCEPT ![c] = c]
  /\ UNCHANGED <<hart, cpus, next, cause, locks, plock, epc, khart, frame>>

\* scheduler(): the process that came back gives p->lock up.
scheduler_back(c) ==
  /\ here(c, "back")
  /\ \E p \in Proc : plock[p] = c /\ plock' = [plock EXCEPT ![p] = NULL]
  /\ pop_off(c)
  /\ goto(c, "loop")
  /\ UNCHANGED <<run, mode, tp, spp, spie, sepc, stvec, next, cause, locks, regs>>

\* scheduler(): interrupts on, p->lock of a process that can run, and swtch().
scheduler(c) ==
  /\ here(c, "loop") /\ run[c] = c
  /\ IF ~ sie[c]
     THEN /\ sie' = [sie EXCEPT ![c] = TRUE]
          /\ UNCHANGED <<run, cpus, at, plock>>
     ELSE \E p \in Proc :
          /\ at[p] \in {"switched", "forkret"} /\ plock[p] = NULL /\ \A d \in CPU : run[d] # p
          /\ plock' = [plock EXCEPT ![p] = c]
          /\ push_off(c)
          /\ run' = [run EXCEPT ![c] = p]
          /\ at' = [at EXCEPT ![c] = "back"]
  /\ UNCHANGED <<mode, tp, spp, spie, sepc, stvec, next, cause, locks, regs, panicked>>

\* Mutant: sched() leaves intena as the scheduler of the hart has it.
BugResume(c) ==
  /\ here(c, "switched")
  /\ goto(run[c], "resumed")
  /\ UNCHANGED <<run, hart, cpus, next, cause, locks, plock, regs, panicked>>

\* sched() returns, perhaps on another hart ...
resume(c) ==
  /\ here(c, "switched")
  /\ intena' = [intena EXCEPT ![tp[c]] = kept[run[c]]]
  /\ kept' = [kept EXCEPT ![run[c]] = FALSE]
  /\ goto(run[c], "resumed")
  /\ UNCHANGED <<run, hart, noff, next, cause, locks, plock, epc, khart, frame, panicked>>

\* ... and its caller gives up p->lock; so does forkret(), which goes on like a system
\* call.
unlock(c) ==
  /\ at[run[c]] \in {"resumed", "forkret"} /\ run[c] \in Proc
  /\ plock' = [plock EXCEPT ![run[c]] = NULL]
  /\ goto(run[c], next[run[c]])
  /\ next' = [next EXCEPT ![run[c]] = "syscall"]
  /\ pop_off(c)
  /\ UNCHANGED <<run, mode, tp, spp, spie, sepc, stvec, cause, locks, regs>>

Next ==
  \E c \in CPU :
    \/ \E why \in {"timer", "device", "ecall", "fault"} : trap(c, why)
    \/ usertrap(c) \/ usertrapret(c) \/ userret(c) \/ kerneltrap(c) \/ kernelret(c)
    \/ acquire(c) \/ release(c) \/ handled(c) \/ yield(c) \/ sleep(c) \/ relock(c)
    \/ sched(c) \/ scheduler(c) \/ scheduler_back(c) \/ resume(c) \/ unlock(c)

Spec == Init /\ [][Next]_vars

-----------------------------------------------------------------------------
(* Properties.                                                             *)

\* However threads are interrupted, give up their hart and go on on another one: none of
\* the checks in usertrap(), kerneltrap() and pop_off() panics and a trap returns to the
\* place it came from; sched() panics for a thread that sleeps with a second lock, and for
\* no other; tp is the hart; interrupts are on in a system call exactly while it holds no
\* lock, and off in the handlers of interrupts and of page faults, also when these have
\* slept; and wherever a trap can happen, stvec is the vector for the mode of the hart.
InterruptsRestored ==
  /\ panicked \subseteq {"sched locks"}
  /\ \A c \in CPU :
       LET t == run[c] IN
       /\ tp[c] = c
       /\ at[t] = "panic" => locks[t] > 0
       /\ mode[c] = "user" <=> at[t] = "user"
       /\ mode[c] = "user" => stvec[c] = "uservec" /\ noff[c] = 0
       /\ mode[c] = "kernel" /\ sie[c] => stvec[c] = "kernelvec"
       /\ at[t] \in {"syscall", "relock"} => noff[c] = locks[t] /\ (sie[c] <=> locks[t] = 0)
       /\ at[t] \in {"fault", "refault"} => noff[c] = locks[t] /\ ~ sie[c]
       /\ at[t] \in {"usertrap", "kerneltrap", "kernelret", "yield"} => ~ sie[c]
  /\ \A p \in Proc : at[p] \in {"switched", "dead"} => locks[p] = 0
=============================================================================
