-------------------------------- MODULE Net --------------------------------
(***************************************************************************)
(* The network: the rings of the e1000 (kernel/network/e1000.c), the       *)
(* protocol layer that hands packets on (kernel/network/net.c) and UDP     *)
(* sockets (kernel/sysnet.c).  The model follows packet buffers from the   *)
(* allocator through rings, queues and readers back to the allocator.      *)
(*                                                                         *)
(* A packet is known by the address it is for, or is an ARP request, or is *)
(* one that the protocol layer drops.  A step is a section under a lock,   *)
(* one turn of the loop of the interrupt handler up to the new buffer, or  *)
(* a step of the device.                                                   *)
(***************************************************************************)
EXTENDS Integers, Sequences, FiniteSets

CONSTANTS
  Proc, Sock,     \* processes; pages for struct sock
  Addr,           \* remote address, local and remote port
  Mbuf,           \* pages that are left for packet buffers
  RX_RING_SIZE, TX_RING_SIZE,
  Victims,        \* processes that may be killed
  NULL

Rx == 0 .. RX_RING_SIZE - 1
Tx == 0 .. TX_RING_SIZE - 1
Packet == Addr \cup {"arp", "other"}

VARIABLES
  free,           \* pages kalloc() can still give
  rx, rdd, rpkt,  \* rx_mbufs, DD of rx_ring, and the packet received
  rdh, rdt,       \* E1000_RDH and E1000_RDT
  tx, tdh, tdt,   \* tx_mbufs, E1000_TDH and E1000_TDT
  irq, intr,      \* interrupt pending; handler: "idle", "loop", "refill"; "off" before e1000_init()
  sockets, addr,  \* sockets on the list; address of a socket, NULL if it is free
  owners,         \* processes with a descriptor for the socket
  rxq,            \* packet buffers of si->rxq
  pc, s, m,       \* where a process is, its socket, and its packet buffer
  killed, panicked

vars == <<free, rx, rdd, rpkt, rdh, rdt, tx, tdh, tdt, irq, intr, sockets, addr, owners,
          rxq, pc, s, m, killed, panicked>>
rings == <<rx, rdd, rpkt, rdh, rdt, tx, tdh, tdt, irq, intr>>
socks == <<sockets, addr, owners, rxq>>
procs == <<pc, s, m, killed>>

-----------------------------------------------------------------------------
Init ==
  /\ rx = [i \in Rx |-> NULL] /\ free = Mbuf
  /\ rdd = [i \in Rx |-> FALSE] /\ rpkt = [i \in Rx |-> NULL]
  /\ rdh = 0 /\ rdt = RX_RING_SIZE - 1
  /\ tx = [i \in Tx |-> NULL] /\ tdh = 0 /\ tdt = 0
  /\ irq = FALSE /\ intr = "off"
  /\ sockets = {} /\ addr = [k \in Sock |-> NULL]
  /\ owners = [k \in Sock |-> {}] /\ rxq = [k \in Sock |-> <<>>]
  /\ pc = [p \in Proc |-> "user"] /\ s = [p \in Proc |-> NULL] /\ m = [p \in Proc |-> NULL]
  /\ killed = {} /\ panicked = FALSE

-----------------------------------------------------------------------------
(* The device.                                                             *)

\* e1000_init(): the receive ring is filled and interrupts are enabled.
e1000_init ==
  /\ intr = "off"
  /\ rx' \in {f \in [Rx -> free] : \A i, j \in Rx : f[i] = f[j] => i = j}
  /\ free' = free \ {rx'[i] : i \in Rx}
  /\ intr' = "idle"
  /\ UNCHANGED <<rdd, rpkt, rdh, rdt, tx, tdh, tdt, irq, socks, procs, panicked>>

\* A packet arrives and there is a descriptor for it.
dev_receive(k) ==
  /\ rdh # rdt
  /\ rdd' = [rdd EXCEPT ![rdh] = TRUE] /\ rpkt' = [rpkt EXCEPT ![rdh] = k]
  /\ rdh' = (rdh + 1) % RX_RING_SIZE
  /\ irq' = TRUE
  /\ UNCHANGED <<free, rx, rdt, tx, tdh, tdt, intr, socks, procs, panicked>>

\* A packet is sent.
dev_send ==
  /\ tdh # tdt
  /\ tdh' = (tdh + 1) % TX_RING_SIZE
  /\ UNCHANGED <<free, rx, rdd, rpkt, rdh, rdt, tx, tdt, irq, intr, socks, procs, panicked>>

-----------------------------------------------------------------------------
\* e1000_transmit() of b.  The descriptor's DD bit is set by e1000_init() and by
\* the device and cleared by nobody, so the ring never counts as full.  The buffer
\* that used the descriptor before goes back to the allocator, which has A.
e1000_transmit(b, A) ==
  /\ tx' = [tx EXCEPT ![tdt] = b]
  /\ tdt' = (tdt + 1) % TX_RING_SIZE
  /\ free' = A \cup ({tx[tdt]} \ {NULL})

\* wakeup(&si->rxq)
woken(k) == [p \in Proc |-> IF pc[p] = "asleep" /\ s[p] = k THEN "read" ELSE pc[p]]

\* e1000_intr(): acknowledge the interrupt, then look at the ring.
e1000_intr ==
  /\ irq /\ intr = "idle"
  /\ irq' = FALSE /\ intr' = "loop"
  /\ UNCHANGED <<free, rx, rdd, rpkt, rdh, rdt, tx, tdh, tdt, socks, procs, panicked>>

ind == (rdt + 1) % RX_RING_SIZE

\* sockrecvudp(): the socket on the list that a packet is for.
found == {k \in sockets : addr[k] = rpkt[ind]}

\* Mutant: a packet for nobody is not freed.
BugDrop ==
  /\ intr = "loop" /\ rdd[ind] /\ found = {}
  /\ rx' = [rx EXCEPT ![ind] = NULL]
  /\ intr' = "refill"
  /\ UNCHANGED <<free, rdd, rpkt, rdh, rdt, tx, tdh, tdt, irq, socks, procs, panicked>>

\* Mutant: a packet is queued and nobody is woken.
BugDeliver ==
  /\ intr = "loop" /\ rdd[ind]
  /\ rx' = [rx EXCEPT ![ind] = NULL]
  /\ intr' = "refill"
  /\ \E k \in found : rxq' = [rxq EXCEPT ![k] = Append(@, rx[ind])]
  /\ UNCHANGED <<free, rdd, rpkt, rdh, rdt, tx, tdh, tdt, irq, sockets, addr, owners, procs, panicked>>

\* e1000_recv(): one packet goes through net_rx(), which then owns its buffer.  sockrecvudp() queues it at its
\* socket and wakes the readers; net_rx_arp() answers with a new buffer if there is
\* one; everything else is freed.
net_rx ==
  /\ intr = "loop"
  /\ IF ~ rdd[ind]
     THEN intr' = "idle" /\ UNCHANGED <<free, rx, tx, tdt, rxq, pc>>
     ELSE /\ rx' = [rx EXCEPT ![ind] = NULL]
          /\ intr' = "refill"
          /\ \/ /\ \E k \in found : /\ rxq' = [rxq EXCEPT ![k] = Append(@, rx[ind])]
                                   /\ pc' = woken(k)
                /\ UNCHANGED <<free, tx, tdt>>
             \/ /\ found = {} /\ (rpkt[ind] = "arp" => free = {})
                /\ free' = free \cup {rx[ind]}
                /\ UNCHANGED <<tx, tdt, rxq, pc>>
             \/ /\ rpkt[ind] = "arp"
                /\ \E b \in free : e1000_transmit(b, (free \ {b}) \cup {rx[ind]})
                /\ UNCHANGED <<rxq, pc>>
  /\ UNCHANGED <<rdd, rpkt, rdh, rdt, tdh, irq, sockets, addr, owners, s, m, killed, panicked>>

\* Mutant: the descriptor is given back with the DD bit set.
BugRefill ==
  /\ intr = "refill"
  /\ \E b \in free : free' = free \ {b} /\ rx' = [rx EXCEPT ![ind] = b]
  /\ rdt' = ind
  /\ intr' = "loop"
  /\ UNCHANGED <<rdd, rpkt, rdh, tx, tdh, tdt, irq, socks, procs, panicked>>

\* e1000_recv(): a new buffer for the descriptor, which goes back to the device.
\* The result of mbufalloc() is used without a look: the kernel faults if it is 0.
e1000_recv ==
  /\ intr = "refill"
  /\ \/ /\ \E b \in free : free' = free \ {b} /\ rx' = [rx EXCEPT ![ind] = b]
        /\ rdd' = [rdd EXCEPT ![ind] = FALSE] /\ rpkt' = [rpkt EXCEPT ![ind] = NULL]
        /\ rdt' = ind
        /\ intr' = "loop"
        /\ UNCHANGED panicked
     \/ /\ free = {}
        /\ panicked' = TRUE
        /\ UNCHANGED <<free, rx, rdd, rpkt, rdt, intr>>
  /\ UNCHANGED <<rdh, tx, tdh, tdt, irq, socks, procs>>

-----------------------------------------------------------------------------
(* System calls.                                                           *)

\* sockalloc(), and fork() that shares the descriptor with O.  If the list has a
\* socket with the same address and ports, the new one is freed, and freed again
\* by fileclose(): sockclose() follows the junk in its queue and the kernel faults.
sockalloc(p, k, a) ==
  /\ pc[p] = "user" /\ p \notin killed /\ addr[k] = NULL
  /\ IF \E j \in sockets : addr[j] = a
     THEN panicked' = TRUE /\ UNCHANGED socks
     ELSE /\ sockets' = sockets \cup {k}
          /\ addr' = [addr EXCEPT ![k] = a]
          /\ \E O \in SUBSET (Proc \ killed) : p \in O /\ owners' = [owners EXCEPT ![k] = O]
          /\ UNCHANGED <<rxq, panicked>>
  /\ UNCHANGED <<free, rings, procs>>

\* fileclose(), by close() or exit(): the last one goes on to sockclose(), which
\* takes the socket off the list ...
sockclose(p, k) ==
  /\ pc[p] = "user" /\ p \in owners[k]
  /\ owners' = [owners EXCEPT ![k] = @ \ {p}]
  /\ IF owners[k] = {p}
     THEN /\ sockets' = sockets \ {k}
          /\ pc' = [pc EXCEPT ![p] = "close"] /\ s' = [s EXCEPT ![p] = k]
     ELSE UNCHANGED <<sockets, pc, s>>
  /\ UNCHANGED <<free, rings, addr, rxq, m, killed, panicked>>

\* ... and then frees its packets and the socket.
sockclose_free(p) ==
  /\ pc[p] = "close"
  /\ free' = free \cup {rxq[s[p]][i] : i \in DOMAIN rxq[s[p]]}
  /\ rxq' = [rxq EXCEPT ![s[p]] = <<>>] /\ addr' = [addr EXCEPT ![s[p]] = NULL]
  /\ pc' = [pc EXCEPT ![p] = "user"] /\ s' = [s EXCEPT ![p] = NULL]
  /\ UNCHANGED <<rings, sockets, owners, m, killed, panicked>>

\* read() on a socket.
call(p, k) ==
  /\ pc[p] = "user" /\ p \in owners[k] \ killed
  /\ pc' = [pc EXCEPT ![p] = "read"] /\ s' = [s EXCEPT ![p] = k]
  /\ UNCHANGED <<free, rings, socks, m, killed, panicked>>

\* sockread(): with si->lock held, sleep while there is no packet, return if the
\* process was killed, or take the first packet.
sockread(p) ==
  /\ pc[p] = "read"
  /\ \/ /\ p \in killed
        /\ pc' = [pc EXCEPT ![p] = "user"] /\ s' = [s EXCEPT ![p] = NULL]
        /\ UNCHANGED <<rxq, m>>
     \/ /\ p \notin killed /\ rxq[s[p]] = <<>>
        /\ pc' = [pc EXCEPT ![p] = "asleep"]
        /\ UNCHANGED <<rxq, s, m>>
     \/ /\ p \notin killed /\ rxq[s[p]] # <<>>
        /\ m' = [m EXCEPT ![p] = Head(rxq[s[p]])]
        /\ rxq' = [rxq EXCEPT ![s[p]] = Tail(@)]
        /\ pc' = [pc EXCEPT ![p] = "copy"]
        /\ UNCHANGED s
  /\ UNCHANGED <<free, rings, sockets, addr, owners, killed, panicked>>

\* sockread(): copy the packet out, or fail to, and free it.
sockread_copy(p) ==
  /\ pc[p] = "copy"
  /\ free' = free \cup {m[p]} /\ m' = [m EXCEPT ![p] = NULL]
  /\ pc' = [pc EXCEPT ![p] = "user"] /\ s' = [s EXCEPT ![p] = NULL]
  /\ UNCHANGED <<rings, socks, killed, panicked>>

\* sockwrite(): a buffer is filled ...
sockwrite(p) ==
  /\ pc[p] = "user" /\ \E k \in Sock : p \in owners[k] \ killed
  /\ \E b \in free : free' = free \ {b} /\ m' = [m EXCEPT ![p] = b]
  /\ pc' = [pc EXCEPT ![p] = "send"]
  /\ UNCHANGED <<rings, socks, s, killed, panicked>>

\* ... and goes down to the ring, or is freed because copyin() failed.
net_tx_udp(p) ==
  /\ pc[p] = "send"
  /\ \/ e1000_transmit(m[p], free)
     \/ free' = free \cup {m[p]} /\ UNCHANGED <<tx, tdt>>
  /\ m' = [m EXCEPT ![p] = NULL]
  /\ pc' = [pc EXCEPT ![p] = "user"]
  /\ UNCHANGED <<rx, rdd, rpkt, rdh, rdt, tdh, irq, intr, socks, s, killed, panicked>>

\* kill()
kill(p) ==
  /\ p \in Victims \ killed
  /\ killed' = killed \cup {p}
  /\ pc' = [pc EXCEPT ![p] = IF @ = "asleep" THEN "read" ELSE @]
  /\ UNCHANGED <<free, rings, socks, s, m, panicked>>

Next ==
  \/ e1000_init
  \/ /\ ~ panicked /\ intr # "off"
     /\ \/ \E k \in Packet : dev_receive(k)
        \/ dev_send \/ e1000_intr \/ net_rx \/ e1000_recv
        \/ \E p \in Proc : \/ \E k \in Sock, a \in Addr : sockalloc(p, k, a)
                           \/ \E k \in Sock : sockclose(p, k) \/ call(p, k)
                           \/ sockclose_free(p) \/ sockread(p) \/ sockread_copy(p)
                           \/ sockwrite(p) \/ net_tx_udp(p) \/ kill(p)

Spec == Init /\ [][Next]_vars

-----------------------------------------------------------------------------
(* Properties.                                                             *)

\* A packet buffer is in exactly one place: free, in a slot of a ring, once in the
\* queue of one socket, or with a process.  None is leaked or freed twice on any
\* path through the protocol layer, close() or a failed system call.
MbufOnePlace ==
  \A b \in Mbuf :
    Cardinality({i \in Rx : rx[i] = b}) + Cardinality({i \in Tx : tx[i] = b})
    + Cardinality({e \in Sock \X (1 .. Cardinality(Mbuf)) :
                     e[2] <= Len(rxq[e[1]]) /\ rxq[e[1]][e[2]] = b})
    + Cardinality({p \in Proc : m[p] = b})
    + (IF b \in free THEN 1 ELSE 0) = 1

\* The descriptors with a packet are the ones between the driver's and the
\* device's position, so that packets are handed on in the order of arrival, each
\* once, and the device never writes into a buffer that the kernel is using.
RingInOrder ==
  \A i \in Rx : rdd[i] = ((i - ind) % RX_RING_SIZE < (rdh - ind) % RX_RING_SIZE)

\* Packets wait only at sockets that somebody can read or that are being closed,
\* so that the page of a freed socket is never written to, and nobody sleeps at a
\* socket that has a packet or that no packet can reach.
PacketsReachReaders ==
  /\ \A k \in Sock : rxq[k] # <<>> => owners[k] # {} \/ \E p \in Proc : pc[p] = "close" /\ s[p] = k
  /\ \A p \in Proc : pc[p] = "asleep" => s[p] \in sockets /\ rxq[s[p]] = <<>>
=============================================================================
