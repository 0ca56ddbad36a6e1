-------------------------- MODULE WorkDistUnordered --------------------------
(***************************************************************************)
(* main_unordered_nosqm.c: an RX lcore offers a packet to the FIFO that    *)
(* carries its port's number and, when that one is full, to each of the    *)
(* others in turn.  Testing a FIFO for room and enqueueing on it are two   *)
(* calls, between which another RX lcore may take the room.                *)
(***************************************************************************)
EXTENDS WorkDist

VARIABLES
  search,    (* per port: the FIFO tried now and fifoCnt, the tries left      *)
  panicked   (* rte_panic has ended the process                              *)

uvars == <<vars, search, panicked>>

UnorderedPc == SharedPc \cup {"probe", "enqueue"}

UTypeOK ==
  /\ TypeOKWith(UnorderedPc)
  /\ search \in [Port -> [fifo : Fifo \cup Port, left : 0 .. FifoWrk]]
  /\ panicked \in BOOLEAN

UInit ==
  /\ Init
  /\ search = [p \in Port |-> [fifo |-> 0, left |-> 0]]
  /\ panicked = FALSE

(* fifoIndex = rxport; fifoCnt = fifoWrk                                   *)
StartSearch(p) ==
  /\ pc[p] = "next" /\ bufs[p] # <<>>
  /\ pkt[Head(bufs[p])].flow # NonIp
  /\ rxStat' = [rxStat EXCEPT ![p].ipv4 = @ + 1]
  /\ search' = [search EXCEPT ![p] = [fifo |-> p, left |-> FifoWrk]]
  /\ pc' = [pc EXCEPT ![p] = "probe"]
  /\ UNCHANGED <<memVars, pkt, arrived, bufs, given, ring, wrkVars, putRx,
                 putWrk, rxQueue, wrkStat, last, panicked>>

(* The FIFO refused the packet: try the next one, or give up after every   *)
(* FIFO was tried; the drop is charged to the FIFO that would be next.     *)
NextFifoUp(f)   == f + 1                 (* mutant: no wrap-around *)
NextFifoSkip(f) == (f + 2) % FifoWrk     (* mutant: skips a FIFO   *)
NextFifo(f)     == (f + 1) % FifoWrk

LastTryEarly(p) == search[p].left = FifoWrk   (* mutant: gives up at once *)
LastTry(p)      == search[p].left = 1

TryForEver(p) ==   (* mutant: fifoCnt is not counted down *)
  LET f == NextFifo(search[p].fifo) IN
  /\ search' = [search EXCEPT ![p].fifo = f]
  /\ \/ /\ ~LastTry(p)
        /\ pc' = [pc EXCEPT ![p] = "probe"]
        /\ UNCHANGED <<bufs, putRx, given>>
     \/ /\ LastTry(p)
        /\ StartFree(p, "drp", f)
  /\ UNCHANGED <<memVars, pkt, arrived, ring, wrkVars, putWrk, rxStat,
                 rxQueue, wrkStat, last, panicked>>

TryNext(p) ==
  LET f == NextFifo(search[p].fifo) IN
  /\ search' = [search EXCEPT ![p] = [fifo |-> f, left |-> @.left - 1]]
  /\ \/ /\ ~LastTry(p)
        /\ pc' = [pc EXCEPT ![p] = "probe"]
        /\ UNCHANGED <<bufs, putRx, given>>
     \/ /\ LastTry(p)
        /\ StartFree(p, "drp", f)
  /\ UNCHANGED <<memVars, pkt, arrived, ring, wrkVars, putWrk, rxStat,
                 rxQueue, wrkStat, last, panicked>>

(* rte_ring_lookup finds no "SW-FIFO-<node>-<n>" for this index.           *)
NoSuchFifo(p) ==
  /\ pc[p] = "probe"
  /\ search[p].fifo \notin Fifo
  /\ panicked' = TRUE
  /\ UNCHANGED <<vars, search>>

(* rte_ring_full                                                           *)
Probe(p) ==
  /\ pc[p] = "probe"
  /\ search[p].fifo \in Fifo
  /\ \/ /\ Len(ring[search[p].fifo]) < RingCap
        /\ pc' = [pc EXCEPT ![p] = "enqueue"]
        /\ UNCHANGED <<memVars, pkt, arrived, bufs, given, ring,
                       wrkVars, putRx, putWrk, rxStat, rxQueue, wrkStat,
                       last, search, panicked>>
     \/ /\ Len(ring[search[p].fifo]) >= RingCap
        /\ TryNext(p)

(* rte_ring_mp_enqueue, which may find the FIFO filled in the meantime     *)
Offer(p) ==
  /\ pc[p] = "enqueue"
  /\ \/ /\ Enqueue(p, search[p].fifo)
        /\ UNCHANGED <<memVars, pkt, arrived, wrkVars, putRx, putWrk, rxStat,
                       rxQueue, wrkStat, last, search, panicked>>
     \/ /\ Len(ring[search[p].fifo]) >= RingCap
        /\ TryNext(p)

UNext ==
  /\ ~panicked
  /\ \/ \E p \in Port : SharedRx(p) /\ UNCHANGED <<search, panicked>>
     \/ \E p \in Port : StartSearch(p) \/ NoSuchFifo(p) \/ Probe(p) \/ Offer(p)
     \/ \E f \in Fifo : Worker(f) /\ UNCHANGED <<search, panicked>>

(* Each lcore polls in an endless loop on a core of its own, so none of    *)
(* its steps is put off for ever; the NIC owes no frame to anybody.  The   *)
(* specification asks nothing of the workers: an RX lcore must not depend  *)
(* on them.                                                                *)
RxFairness ==
  \A p \in Port :
    WF_uvars(~panicked /\ (\/ (RxFreed(p) \/ DropNonIp(p) \/ LoadCounter(p)
                               \/ StoreCounter(p)) /\ UNCHANGED <<search, panicked>>
                           \/ StartSearch(p) \/ NoSuchFifo(p) \/ Probe(p) \/ Offer(p)))

WorkerFairness ==
  \A f \in Fifo : WF_uvars(~panicked /\ Worker(f) /\ UNCHANGED <<search, panicked>>)

USpec     == UInit /\ [][UNext]_uvars
UFairSpec == USpec /\ RxFairness

-----------------------------------------------------------------------------
(* While an RX lcore searches, each FIFO before the one it tries now was   *)
(* tried once: the search visits all FIFOs, from the port's own one on,    *)
(* before it drops a packet.                                               *)
SearchIsARound ==
  \A p \in Port \cap Fifo :
    pc[p] \in {"probe", "enqueue"} =>
      /\ search[p].left \in 1 .. FifoWrk
      /\ (search[p].fifo + search[p].left) % FifoWrk = p % FifoWrk

(* A packet is dropped only when the search has come full circle, so that  *)
(* queue_rx_drp is charged to the port's own FIFO and not to the FIFO that *)
(* refused the packet last, however the FIFOs filled up in the meantime.   *)
DropIsChargedHome ==
  \A p \in Port \cap Fifo :
    pc[p] = "free" /\ given[p].ctr = "drp" => given[p].fifo = p

(* The walk over the FIFOs never leaves them: the program ends only on     *)
(* behalf of a port whose own number is not the number of a FIFO.          *)
PanicsOnlyAtAFarPort ==
  panicked => \E p \in Port \ Fifo : pc[p] = "probe" /\ search[p].fifo = p

(* Unless the program ends, an RX lcore is done with every burst in the    *)
(* end, even when every worker stalls and all FIFOs stay full, and however *)
(* often a FIFO it found room in is filled by another lcore.               *)
EveryFrameLeaves ==
  \A p \in Port :
    bufs[p] # <<>> ~> (panicked \/ (bufs[p] = <<>> /\ pc[p] = "next"))

(* A worker whose transmit queue is full refuses packets but never stops:  *)
(* when the workers poll, too, and the traffic stops (in the model after   *)
(* MaxRx frames), all that has reached a FIFO is fetched, and transmitted  *)
(* or freed, unless the program ends.                                      *)
EveryFifoDrains ==
  WorkerFairness =>
    \A f \in Fifo :
      ring[f] # <<>> ~> (panicked \/ (ring[f] = <<>> /\ ptr[f] = <<>>))

=============================================================================
