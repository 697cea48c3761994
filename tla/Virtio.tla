------------------------------- MODULE Virtio -------------------------------
(***************************************************************************)
(* The disk driver, kernel/driver/virtio_disk.c.  Processes ask for one    *)
(* transfer at a time, each with a buffer of its own (bread() and bwrite() *)
(* hold the buffer's sleep lock); the device takes chains of descriptors   *)
(* from the ring avail, completes them in any order, and puts them on the  *)
(* ring used.                                                              *)
(*                                                                         *)
(* A step of a process is the code with vdisk_lock held between two        *)
(* sleeps.  The device knows no lock, so the interrupt handler takes one   *)
(* step for every look at the ring and one for the acknowledgement.  What  *)
(* has been taken from a ring, and next of a free descriptor, is cleared   *)
(* here and stale in the program.                                          *)
(***************************************************************************)
EXTENDS Integers, FiniteSets

CONSTANTS
  Proc,
  NUM,     \* descriptors
  UINT16,  \* avail[1] and used->id wrap around here; a multiple of NUM
  NULL

Desc == 0 .. NUM - 1

VARIABLES
  free,              \* descriptors with disk.free[i] = 1
  next,              \* desc[i].next, NULL without VRING_DESC_F_NEXT
  info,              \* info[i].b, as the process whose buffer it is
  busy,              \* processes whose b->disk is 1
  avail, avail_idx,  \* avail[2..] and avail[1]
  used, used_id,     \* used->elems and used->id
  used_idx,
  seen, inflight,    \* device: how far it has read avail, and the chains it works on
  irq,               \* device: VIRTIO_MMIO_INTERRUPT_STATUS
  intr,              \* interrupt handler: "idle", or with vdisk_lock held "loop" or "ack"
  pc, idx            \* where a process is, and idx[0] of its chain

vars == <<free, next, info, busy, avail, avail_idx, used, used_id, used_idx, seen, inflight,
          irq, intr, pc, idx>>
device == <<used_id, seen, inflight>>

-----------------------------------------------------------------------------
\* virtio_disk_init()
Init ==
  /\ free = Desc
  /\ next = [d \in Desc |-> NULL]
  /\ info = [d \in Desc |-> NULL]
  /\ busy = {}
  /\ avail = [i \in Desc |-> NULL] /\ avail_idx = 0
  /\ used = [i \in Desc |-> NULL] /\ used_id = 0 /\ used_idx = 0
  /\ seen = 0 /\ inflight = {}
  /\ irq = FALSE /\ intr = "idle"
  /\ pc = [p \in Proc |-> "user"]
  /\ idx = [p \in Proc |-> 0]

\* virtio_disk_rw() is called.
call(p) ==
  /\ pc[p] = "user"
  /\ pc' = [pc EXCEPT ![p] = "alloc"]
  /\ UNCHANGED <<free, next, info, busy, avail, avail_idx, used, device, used_idx, irq, intr, idx>>

\* alloc_desc(): the first free descriptor of S.
first(S) == CHOOSE d \in S : \A e \in S : d <= e

\* wakeup(&disk.free[0])
wake(q) == IF pc[q] = "full" THEN "alloc" ELSE pc[q]

\* Mutant: the descriptor of the status byte is not marked as taken.
BugAlloc(p) ==
  /\ pc[p] = "alloc" /\ intr = "idle" /\ Cardinality(free) >= 3
  /\ LET d0 == first(free)
         d1 == first(free \ {d0})
         d2 == first(free \ {d0, d1})
     IN /\ free' = free \ {d0, d1}
        /\ next' = [next EXCEPT ![d0] = d1, ![d1] = d2, ![d2] = NULL]
        /\ info' = [info EXCEPT ![d0] = p]
        /\ avail' = [avail EXCEPT ![avail_idx % NUM] = d0]
        /\ idx' = [idx EXCEPT ![p] = d0]
  /\ busy' = busy \cup {p}
  /\ avail_idx' = (avail_idx + 1) % UINT16
  /\ pc' = [pc EXCEPT ![p] = "wait"]
  /\ UNCHANGED <<used, device, used_idx, irq, intr>>

\* virtio_disk_rw(): take three descriptors, hand the chain to the device and
\* sleep on the buffer; or give back what there was, which wakes the others that
\* wait for descriptors, and sleep on free[0].
virtio_disk_rw(p) ==
  /\ pc[p] = "alloc" /\ intr = "idle"
  /\ IF Cardinality(free) >= 3
     THEN /\ LET d0 == first(free)
                 d1 == first(free \ {d0})
                 d2 == first(free \ {d0, d1})
             IN /\ free' = free \ {d0, d1, d2}
                /\ next' = [next EXCEPT ![d0] = d1, ![d1] = d2, ![d2] = NULL]
                /\ info' = [info EXCEPT ![d0] = p]
                /\ avail' = [avail EXCEPT ![avail_idx % NUM] = d0]
                /\ idx' = [idx EXCEPT ![p] = d0]
          /\ busy' = busy \cup {p}
          /\ avail_idx' = (avail_idx + 1) % UINT16
          /\ pc' = [pc EXCEPT ![p] = "wait"]
     ELSE /\ pc' = [q \in Proc |-> IF q = p THEN "full" ELSE IF free = {} THEN pc[q] ELSE wake(q)]
          /\ UNCHANGED <<free, next, info, busy, avail, avail_idx, idx>>
  /\ UNCHANGED <<used, device, used_idx, irq, intr>>

chain(d) == {d, next[d], next[next[d]]}

\* Mutant: the process does not look at b->disk when it is woken.
BugWait(p) ==
  /\ pc[p] = "wait" /\ intr = "idle" /\ busy # Proc
  /\ info' = [info EXCEPT ![idx[p]] = NULL]
  /\ free' = free \cup chain(idx[p])
  /\ pc' = [q \in Proc |-> IF q = p THEN "user" ELSE wake(q)]
  /\ next' = [d \in Desc |-> IF d \in chain(idx[p]) THEN NULL ELSE next[d]]
  /\ idx' = [idx EXCEPT ![p] = 0]
  /\ UNCHANGED <<busy, avail, avail_idx, used, device, used_idx, irq, intr>>

\* virtio_disk_rw(): the request is done; free_chain() along next.
free_chain(p) ==
  /\ pc[p] = "wait" /\ p \notin busy /\ intr = "idle"
  /\ info' = [info EXCEPT ![idx[p]] = NULL]
  /\ free' = free \cup chain(idx[p])
  /\ pc' = [q \in Proc |-> IF q = p THEN "user" ELSE wake(q)]
  /\ next' = [d \in Desc |-> IF d \in chain(idx[p]) THEN NULL ELSE next[d]]
  /\ idx' = [idx EXCEPT ![p] = 0]
  /\ UNCHANGED <<busy, avail, avail_idx, used, device, used_idx, irq, intr>>

\* Device: take the next chain from the ring avail.
dev_fetch ==
  /\ seen # avail_idx
  /\ inflight' = inflight \cup {avail[seen % NUM]}
  /\ avail' = [avail EXCEPT ![seen % NUM] = NULL]
  /\ seen' = (seen + 1) % UINT16
  /\ UNCHANGED <<free, next, info, busy, avail_idx, used, used_id, used_idx, irq, intr,
                 pc, idx>>

\* Device: complete a chain and raise the interrupt.
dev_complete(d) ==
  /\ d \in inflight
  /\ inflight' = inflight \ {d}
  /\ used' = [used EXCEPT ![used_id % NUM] = d]
  /\ used_id' = (used_id + 1) % UINT16
  /\ irq' = TRUE
  /\ UNCHANGED <<free, next, info, busy, avail, avail_idx, used_idx, seen, intr, pc, idx>>

\* virtio_disk_intr(): acquire vdisk_lock.
intr_start ==
  /\ irq /\ intr = "idle"
  /\ intr' = "loop"
  /\ UNCHANGED <<free, next, info, busy, avail, avail_idx, used, device, used_idx, irq, pc, idx>>

\* virtio_disk_intr(): one entry of the ring used, or the end of the loop.
intr_loop ==
  /\ intr = "loop"
  /\ IF used_idx # used_id % NUM
     THEN /\ LET p == info[used[used_idx]] IN busy' = busy \ {p}
          /\ used' = [used EXCEPT ![used_idx] = NULL]
          /\ used_idx' = (used_idx + 1) % NUM
          /\ UNCHANGED intr
     ELSE intr' = "ack" /\ UNCHANGED <<busy, used, used_idx>>
  /\ UNCHANGED <<free, next, info, avail, avail_idx, device, irq, pc, idx>>

\* virtio_disk_intr(): acknowledge what VIRTIO_MMIO_INTERRUPT_STATUS says now, and
\* release vdisk_lock.
intr_ack ==
  /\ intr = "ack"
  /\ irq' = FALSE
  /\ intr' = "idle"
  /\ UNCHANGED <<free, next, info, busy, avail, avail_idx, used, device, used_idx, pc, idx>>

Next ==
  \/ \E p \in Proc : call(p) \/ virtio_disk_rw(p) \/ free_chain(p)
  \/ dev_fetch \/ \E d \in Desc : dev_complete(d)
  \/ intr_start \/ intr_loop \/ intr_ack

Spec == Init /\ [][Next]_vars

\* The device works on what it is given, an interrupt that is pending is taken, and
\* a process that can go on gets vdisk_lock.  Nobody has to make a request.
FairSpec ==
  /\ Spec
  /\ WF_vars(dev_fetch) /\ \A d \in Desc : WF_vars(dev_complete(d))
  /\ WF_vars(intr_start) /\ WF_vars(intr_loop) /\ WF_vars(intr_ack)
  /\ \A p \in Proc : SF_vars(virtio_disk_rw(p)) /\ SF_vars(free_chain(p))

-----------------------------------------------------------------------------
(* Properties.                                                             *)

Waiting == {p \in Proc : pc[p] = "wait"}

\* Every descriptor is free or belongs to the chain of one waiting process: none
\* is lost when requests come and go, and no two requests share one.
DescriptorsAccounted ==
  \A d \in Desc : Cardinality({p \in Waiting : d \in chain(idx[p])}) = (IF d \in free THEN 0 ELSE 1)

\* A process that waits is in exactly one place: on the ring avail, in the device,
\* on the ring used, or released by the handler.  It is released only after the
\* device has completed its own request, though requests finish out of order.
Queued(r, lo, hi) == {r[(lo + k) % NUM] : k \in 0 .. ((hi - lo) % UINT16) - 1}
ReleasedByDevice ==
  \A p \in Waiting :
    LET Pending == Queued(avail, seen, avail_idx)
        Done == {used[(used_idx + k) % NUM] : k \in 0 .. ((used_id - used_idx) % NUM) - 1}
    IN /\ (p \in busy) = (idx[p] \in Pending \cup inflight \cup Done)
       /\ Cardinality({S \in {Pending, inflight, Done} : idx[p] \in S}) <= 1
       /\ info[idx[p]] = p

\* "Wait for virtio_disk_intr() to say request has finished": a process that sleeps
\* on its buffer goes on when the device has completed the request.
RequestFinishes == \A p \in Proc : pc[p] = "wait" ~> pc[p] = "user"
=============================================================================
