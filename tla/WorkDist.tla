------------------------------ MODULE WorkDist ------------------------------
(***************************************************************************)
(* The part of workdistributor-noeventdev that its three programs share:   *)
(* RX lcores (lcore_pktFetch, one per port) take bursts of packets from    *)
(* the NIC and hand each one to a software FIFO; worker lcores             *)
(* (lcore_fifoTransmit, one per FIFO) drain their FIFO in bursts and post  *)
(* the packets one by one on the transmit queue that carries the FIFO's    *)
(* index.  How a FIFO is chosen differs: WorkDistAtomic and                *)
(* WorkDistUnordered extend this module with that choice, WorkDistDirected *)
(* with the lookup that never gets so far.                                 *)
(*                                                                         *)
(* An mbuf is an identity; pkt holds what its buffer contains, and keeps   *)
(* it after the mbuf is freed, as memory does.  rte_pktmbuf_free takes two *)
(* steps, because the pools are created with MEMPOOL_F_SP_PUT although     *)
(* every lcore frees into them.  Two single-producer puts that overlap may *)
(* write the same ring entries, publish entries not written yet or move    *)
(* the tail back: afterwards mbufs are missing from the pool, and stale    *)
(* pointers to mbufs in use are in it.  Such a pool is spoiled for good.   *)
(* A pointer is never put into a pool other than its mbuf's own.           *)
(***************************************************************************)
EXTENDS Naturals, Sequences, FiniteSets, Functions

CONSTANTS
  Port,       (* the ports, hence the RX lcores: a set of port numbers        *)
  FifoWrk,    (* fifoWrk: the number of FIFOs, worker lcores and TX queues    *)
  RingCap,    (* packets a FIFO can hold: RTE_RING_SIZE - 1                   *)
  TxCap,      (* descriptors of one TX queue: TX_RING_SIZE                    *)
  RxBurst,    (* BURST_SIZE                                                   *)
  WrkBurst,   (* the 8 of rte_ring_dequeue_burst                              *)
  MBuf,       (* all mbufs                                                    *)
  NoMBuf,     (* the RX lcore is accounting for no mbuf                      *)
  Home,       (* the port whose private mempool an mbuf belongs to            *)
  Flow,       (* IPv4 (source, destination) pairs                             *)
  NonIp,      (* stands for every frame that is not IPv4                      *)
  MaxRx       (* bound of the model: the frames the NIC delivers, per port    *)

Fifo == 0 .. FifoWrk - 1

ASSUME WorkDistAssumption ==
  /\ Port \subseteq Nat /\ IsFiniteSet(Port)
  /\ FifoWrk \in Nat \ {0}
  /\ RingCap \in Nat \ {0}
  /\ TxCap \in Nat \ {0}
  /\ RxBurst \in Nat \ {0}
  /\ WrkBurst \in Nat \ {0}
  /\ NoMBuf \notin MBuf
  /\ Home \in [MBuf -> Port]
  /\ NonIp \notin Flow
  /\ MaxRx \in [Port -> Nat]

VARIABLES
  pool,     (* mbufs free in the mempools                                     *)
  spoiled,  (* the ports into whose pool two puts have overlapped             *)
  pkt,      (* what each mbuf holds: a flow and the frame's arrival number    *)
  arrived,  (* frames received so far on each port                            *)
  bufs,     (* per port: the rest of the burst its RX lcore is working on     *)
  pc,       (* per port: where its RX lcore is inside lcore_pktFetch          *)
  given,    (* per port: the hand-over the RX lcore is accounting for         *)
  ring,     (* the FIFOs "SW-FIFO-<node>-<n>"                                 *)
  ptr,      (* per worker: the dequeued packets not yet transmitted           *)
  txq,      (* per worker: mbufs posted on its TX queue of any port           *)
  putRx,    (* per port: mbufs its RX lcore is putting back                   *)
  putWrk,   (* per worker: mbufs it is putting back                           *)
  rxStat,   (* per port: rx_ipv4, non_ip and dropped                          *)
  rxQueue,  (* per counter "add" or "drp" and FIFO: queue_rx_add, _drp        *)
  wrkStat,  (* per worker: queue_wrk_fet, _drp and _fls                       *)
  last      (* per port and flow: number of the frame transmitted last        *)

memVars == <<pool, spoiled>>
rxVars  == <<arrived, bufs, pc, given>>
wrkVars == <<ptr, txq>>
vars    == <<pool, spoiled, pkt, arrived, bufs, pc, given, ring, ptr, txq,
             putRx, putWrk, rxStat, rxQueue, wrkStat, last>>

-----------------------------------------------------------------------------
(* Types *)

Kind   == Flow \cup {NonIp}
Packet == [flow : Kind, n : Nat]

(* Where an RX lcore can be: about to take the next packet of its burst,   *)
(* inside rte_pktmbuf_free, or about to load or to store a shared counter. *)
(* The variants add the points of their own search for a FIFO.             *)
SharedPc == {"next", "free", "load", "store"}

(* The hand-over in progress: the mbuf, what it held when it was handed    *)
(* over, the FIFO, the counter to bump and the value loaded from it.       *)
Handover == [m : MBuf \cup {NoMBuf}, was : Packet, fifo : Fifo,
             ctr : {"add", "drp", "none"}, val : Nat]

Idle == [m |-> NoMBuf, was |-> [flow |-> NonIp, n |-> 0], fifo |-> 0,
         ctr |-> "none", val |-> 0]

TypeOKWith(Pc) ==
  /\ pool \subseteq MBuf
  /\ spoiled \subseteq Port
  /\ pkt \in [MBuf -> Packet]
  /\ arrived \in [Port -> Nat]
  /\ \A p \in Port : arrived[p] <= MaxRx[p]
  /\ bufs \in [Port -> Seq(MBuf)]
  /\ pc \in [Port -> Pc]
  /\ given \in [Port -> Handover]
  /\ ring \in [Fifo -> Seq(MBuf)]
  /\ ptr \in [Fifo -> Seq(MBuf)]
  /\ txq \in [Fifo -> SUBSET MBuf]
  /\ putRx \in [Port -> SUBSET MBuf]
  /\ putWrk \in [Fifo -> SUBSET MBuf]
  /\ rxStat \in [Port -> [ipv4 : Nat, nonIp : Nat, dropped : Nat]]
  /\ rxQueue \in [{"add", "drp"} -> [Fifo -> Nat]]
  /\ wrkStat \in [Fifo -> [fet : Nat, drp : Nat, fls : Nat]]
  /\ last \in [Port \X Flow -> Nat]

Init ==
  /\ pool = MBuf
  /\ spoiled = {}
  /\ pkt = [m \in MBuf |-> [flow |-> NonIp, n |-> 0]]
  /\ arrived = [p \in Port |-> 0]
  /\ bufs = [p \in Port |-> <<>>]
  /\ pc = [p \in Port |-> "next"]
  /\ given = [p \in Port |-> Idle]
  /\ ring = [f \in Fifo |-> <<>>]
  /\ ptr = [f \in Fifo |-> <<>>]
  /\ txq = [f \in Fifo |-> {}]
  /\ putRx = [p \in Port |-> {}]
  /\ putWrk = [f \in Fifo |-> {}]
  /\ rxStat = [p \in Port |-> [ipv4 |-> 0, nonIp |-> 0, dropped |-> 0]]
  /\ rxQueue = [c \in {"add", "drp"} |-> [f \in Fifo |-> 0]]
  /\ wrkStat = [f \in Fifo |-> [fet |-> 0, drp |-> 0, fls |-> 0]]
  /\ last = [x \in Port \X Flow |-> 0]

-----------------------------------------------------------------------------
(* Giving an mbuf back to its pool *)

(* The mbufs put back while another lcore puts into the same pool.         *)
Contended(S, others) == {m \in S : \E o \in others : Home[o] = Home[m]}

FinishPut(S, others) ==
  /\ pool' = pool \cup S
  /\ spoiled' = spoiled \cup {Home[m] : m \in Contended(S, others)}

(* The RX lcore of p returns from rte_pktmbuf_free; a dropped packet's     *)
(* counter is bumped after it.                                             *)
RxFreed(p) ==
  /\ pc[p] = "free"
  /\ FinishPut(putRx[p], UNION ({putRx[q] : q \in Port \ {p}}
                                \cup {putWrk[f] : f \in Fifo}))
  /\ putRx' = [putRx EXCEPT ![p] = {}]
  /\ pc' = [pc EXCEPT ![p] = IF given[p].ctr = "none" THEN "next" ELSE "load"]
  /\ UNCHANGED <<pkt, arrived, bufs, given, ring, ptr, txq, putWrk,
                 rxStat, rxQueue, wrkStat, last>>

(* Worker f returns from the frees of its last transmit call.              *)
WrkFreed(f) ==
  /\ putWrk[f] # {}
  /\ FinishPut(putWrk[f], UNION ({putRx[p] : p \in Port}
                                 \cup {putWrk[g] : g \in Fifo \ {f}}))
  /\ putWrk' = [putWrk EXCEPT ![f] = {}]
  /\ UNCHANGED <<pkt, rxVars, ring, wrkVars, putRx, rxStat, rxQueue,
                 wrkStat, last>>

-----------------------------------------------------------------------------
(* RX lcores *)

(* port40G_init gives each port a mempool of its own.                      *)
AnyFree(p) == pool   (* mutant: the ports share one mempool *)
FreeOf(p)  == {m \in pool : Home[m] = p}

(* What a burst of k frames of port p can be received into: distinct free  *)
(* mbufs of the port's pool; when the pool is spoiled, any mbufs of it, in *)
(* use or not and the same one twice.                                      *)
BurstMBufs(p, k) ==
  IF p \in spoiled
  THEN [1 .. k -> {m \in MBuf : Home[m] = p}]
  ELSE {ms \in [1 .. k -> FreeOf(p)] : IsInjective(ms)}

(* The contents of the mbufs once ms holds the next frames of port p.  at  *)
(* is the frame an mbuf ends up with, should it be in ms twice.            *)
Filled(p, ms, kinds, at) ==
  [m \in MBuf |-> IF m \in Range(ms)
                  THEN [flow |-> kinds[at[m]], n |-> arrived[p] + at[m]]
                  ELSE pkt[m]]

(* rte_eth_rx_burst on queue 0: a burst of frames, each received into an   *)
(* mbuf of the port's own pool.  An empty burst changes nothing.           *)
RxBurstOf(p) ==
  /\ pc[p] = "next" /\ bufs[p] = <<>>
  /\ \E k \in 1 .. RxBurst :
       /\ arrived[p] + k <= MaxRx[p]
       /\ \E ms \in BurstMBufs(p, k), kinds \in [1 .. k -> Kind] :
            /\ \E at \in [Range(ms) -> 1 .. k] :
                 /\ \A m \in Range(ms) : ms[at[m]] = m
                 /\ pkt' = Filled(p, ms, kinds, at)
            /\ bufs' = [bufs EXCEPT ![p] = ms]
            /\ pool' = pool \ Range(ms)
       /\ arrived' = [arrived EXCEPT ![p] = @ + k]
  /\ UNCHANGED <<spoiled, pc, given, ring, wrkVars, putRx, putWrk, rxStat,
                 rxQueue, wrkStat, last>>

(* Mutants of StartFree: the packet stays in the burst; a drop is counted  *)
(* as a hand-over.                                                         *)
StartFreeAndKeep(p, c, f) ==
  /\ putRx' = [putRx EXCEPT ![p] = {Head(bufs[p])}]
  /\ given' = [given EXCEPT ![p] = [Idle EXCEPT !.ctr = c, !.fifo = f]]
  /\ pc' = [pc EXCEPT ![p] = "free"]
  /\ UNCHANGED bufs

StartFreeAsAdd(p, c, f) ==
  LET wrong == IF c = "drp" THEN "add" ELSE c IN
  /\ bufs' = [bufs EXCEPT ![p] = Tail(@)]
  /\ putRx' = [putRx EXCEPT ![p] = {Head(bufs[p])}]
  /\ given' = [given EXCEPT ![p] = [Idle EXCEPT !.ctr = wrong, !.fifo = f]]
  /\ pc' = [pc EXCEPT ![p] = "free"]

(* The RX lcore frees the packet it holds.  c is the counter bumped after  *)
(* the free, "none" when the path has no per-FIFO counter.                 *)
StartFree(p, c, f) ==
  /\ bufs' = [bufs EXCEPT ![p] = Tail(@)]
  /\ putRx' = [putRx EXCEPT ![p] = {Head(bufs[p])}]
  /\ given' = [given EXCEPT ![p] = [Idle EXCEPT !.ctr = c, !.fifo = f]]
  /\ pc' = [pc EXCEPT ![p] = "free"]

(* A frame that is not IPv4 is freed and counted.                          *)
DropNonIp(p) ==
  /\ pc[p] = "next" /\ bufs[p] # <<>>
  /\ pkt[Head(bufs[p])].flow = NonIp
  /\ StartFree(p, "none", 0)
  /\ rxStat' = [rxStat EXCEPT ![p].nonIp = @ + 1]
  /\ UNCHANGED <<memVars, pkt, arrived, ring, wrkVars, putWrk, rxQueue,
                 wrkStat, last>>

(* rte_ring_mp_enqueue succeeds: the worker owns the packet from here on,  *)
(* while the RX lcore still has to account for it.                         *)
Enqueue(p, f) ==
  LET m == Head(bufs[p]) IN
  /\ Len(ring[f]) < RingCap
  /\ ring' = [ring EXCEPT ![f] = Append(@, m)]
  /\ bufs' = [bufs EXCEPT ![p] = Tail(@)]
  /\ given' = [given EXCEPT ![p] =
                 [m |-> m, was |-> pkt[m], fifo |-> f, ctr |-> "add", val |-> 0]]
  /\ pc' = [pc EXCEPT ![p] = "load"]

(* "prtPktStats.queue_rx_add[node][fifo] += 1" and its siblings are a load *)
(* and a store on memory that every RX lcore of the node shares.  rxPkts   *)
(* and rxBytes are bumped with queue_rx_add, the latter by m->pkt_len.     *)
LoadCounter(p) ==
  /\ pc[p] = "load"
  /\ given' = [given EXCEPT ![p].val = rxQueue[given[p].ctr][given[p].fifo]]
  /\ pc' = [pc EXCEPT ![p] = "store"]
  /\ UNCHANGED <<memVars, pkt, arrived, bufs, ring, wrkVars, putRx, putWrk,
                 rxStat, rxQueue, wrkStat, last>>

(* mutant: the counter goes down *)
StoreDecrement(p) ==
  /\ pc[p] = "store"
  /\ rxQueue' = [rxQueue EXCEPT ![given[p].ctr][given[p].fifo] = given[p].val - 1]
  /\ given' = [given EXCEPT ![p] = Idle]
  /\ pc' = [pc EXCEPT ![p] = "next"]
  /\ UNCHANGED <<memVars, pkt, arrived, bufs, ring, wrkVars, putRx, putWrk,
                 rxStat, wrkStat, last>>

StoreCounter(p) ==
  /\ pc[p] = "store"
  /\ rxQueue' = [rxQueue EXCEPT ![given[p].ctr][given[p].fifo] = given[p].val + 1]
  /\ given' = [given EXCEPT ![p] = Idle]
  /\ pc' = [pc EXCEPT ![p] = "next"]
  /\ UNCHANGED <<memVars, pkt, arrived, bufs, ring, wrkVars, putRx, putWrk,
                 rxStat, wrkStat, last>>

-----------------------------------------------------------------------------
(* Worker lcores *)

(* rte_ring_dequeue_burst takes what is there, at most WrkBurst packets.   *)
WholeBurst(f) ==   (* mutant: rte_ring_dequeue_bulk, all or nothing *)
  IF Len(ring[f]) < WrkBurst THEN 0 ELSE WrkBurst
BurstLen(f) == IF Len(ring[f]) < WrkBurst THEN Len(ring[f]) ELSE WrkBurst

CountBurst(f) ==   (* mutant: one per burst *)
  wrkStat' = [wrkStat EXCEPT ![f].fet = @ + 1]
CountFetched(f) == wrkStat' = [wrkStat EXCEPT ![f].fet = @ + BurstLen(f)]

FetchBurst(f) ==
  /\ ptr[f] = <<>> /\ putWrk[f] = {}
  /\ BurstLen(f) > 0
  /\ ptr' = [ptr EXCEPT ![f] = SubSeq(ring[f], 1, BurstLen(f))]
  /\ ring' = [ring EXCEPT ![f] = SubSeq(@, BurstLen(f) + 1, Len(@))]
  /\ CountFetched(f)
  /\ UNCHANGED <<memVars, pkt, rxVars, txq, putRx, putWrk, rxStat, rxQueue,
                 last>>

(* The mbufs posted on TX queue f of port p: m->port is the receiving port. *)
TxQueue(f, p) == {m \in txq[f] : Home[m] = p}

(* rte_eth_tx_burst of one packet on TX queue f of the port it came from.  *)
(* The driver first reclaims descriptors the NIC has finished, then takes  *)
(* the packet if a descriptor is free; a refused packet is freed.  An mbuf *)
(* of a spoiled pool may be posted more than once, so that txq does not    *)
(* tell whether the port has a descriptor left.                            *)
Transmit(f) ==
  LET m == Head(ptr[f])
      p == Home[m]
  IN
  /\ ptr[f] # <<>> /\ putWrk[f] = {}
  /\ ptr' = [ptr EXCEPT ![f] = Tail(@)]
  /\ \E done \in SUBSET TxQueue(f, p), room \in BOOLEAN :
       /\ p \in spoiled \/ room = (Cardinality(TxQueue(f, p) \ done) < TxCap)
       /\ \/ /\ room
             /\ txq' = [txq EXCEPT ![f] = (@ \ done) \cup {m}]
             /\ putWrk' = [putWrk EXCEPT ![f] = done]
             /\ wrkStat' = [wrkStat EXCEPT ![f].fls = @ + 1]
             /\ last' = [last EXCEPT ![<<p, pkt[m].flow>>] = pkt[m].n]
          \/ /\ ~room
             /\ txq' = [txq EXCEPT ![f] = @ \ done]
             /\ putWrk' = [putWrk EXCEPT ![f] = done \cup {m}]
             /\ wrkStat' = [wrkStat EXCEPT ![f].drp = @ + 1]
             /\ UNCHANGED last
  /\ UNCHANGED <<memVars, pkt, rxVars, ring, putRx, rxStat, rxQueue>>

(* The steps every variant has.                                            *)
SharedRx(p) == RxFreed(p) \/ RxBurstOf(p) \/ DropNonIp(p)
               \/ LoadCounter(p) \/ StoreCounter(p)

Worker(f) == FetchBurst(f) \/ Transmit(f) \/ WrkFreed(f)

-----------------------------------------------------------------------------
(* Properties every variant must have *)

(* The places an mbuf can be in, and the mbufs in each.                    *)
Place == {<<"pool", 0>>} \cup ({"bufs", "putRx"} \X Port)
         \cup ({"ring", "ptr", "txq", "putWrk"} \X Fifo)

At(x) == CASE x[1] = "pool"   -> pool
           [] x[1] = "bufs"   -> Range(bufs[x[2]])
           [] x[1] = "putRx"  -> putRx[x[2]]
           [] x[1] = "ring"   -> Range(ring[x[2]])
           [] x[1] = "ptr"    -> Range(ptr[x[2]])
           [] x[1] = "txq"    -> txq[x[2]]
           [] x[1] = "putWrk" -> putWrk[x[2]]

(* The mbufs of the pools into which no two puts have overlapped.          *)
Intact == {m \in MBuf : Home[m] \notin spoiled}

Disjoint(G) == \A x, y \in Place : x # y => At(x) \cap At(y) \cap G = {}

Once(s, G) == \A i, j \in DOMAIN s : s[i] = s[j] /\ s[i] \in G => i = j

NoRepeat(G) ==
  /\ \A p \in Port : Once(bufs[p], G)
  /\ \A f \in Fifo : Once(ring[f], G) /\ Once(ptr[f], G)

NoLeak(G) == \A m \in G : \E x \in Place : m \in At(x)

(* However the lcores interleave, every mbuf is in exactly one place, once: *)
(* no path of lcore_pktFetch, lcore_fifoTransmit or a drop frees an mbuf   *)
(* that another lcore owns, queues one twice, or forgets one.  The one way *)
(* to lose or to double an mbuf is the overlap of two puts into one pool,  *)
(* and the damage it does stays with the mbufs of that pool: those of the  *)
(* other ports are still owned once.                                       *)
Ownership == Disjoint(Intact) /\ NoRepeat(Intact) /\ NoLeak(Intact)

(* lcore_pktFetch reads m->pkt_len after rte_ring_mp_enqueue gave m away.  *)
(* By then the worker may have transmitted and freed m, and m may have     *)
(* been put into its pool twice; the length is still that of the packet    *)
(* handed over, because only the lcore that reads it can receive into m.   *)
LateReadIsStable ==
  \A p \in Port : pc[p] \in {"load", "store"} /\ given[p].ctr = "add"
                  => pkt[given[p].m] = given[p].was

(* RX lcores between an enqueue on FIFO f and the store that counts it.    *)
Uncounted(f) == {p \in Port : /\ pc[p] \in {"load", "store"}
                             /\ given[p].ctr = "add"
                             /\ given[p].fifo = f}

(* The lcores of a node bump queue_rx_add without a lock, so increments    *)
(* get lost; yet the counter never claims a packet that was not handed to  *)
(* the FIFO, whatever stale value a store writes back.                     *)
AddsNeverOvercount ==
  \A f \in Fifo : rxQueue["add"][f] + Cardinality(Uncounted(f))
                  <= wrkStat[f].fet + Len(ring[f])

(* The statistics that one lcore alone writes account for every packet at  *)
(* every moment: frames of a port are counted or still in the burst, and   *)
(* packets a worker fetched are sent, dropped or still in ptr.             *)
StatsAccountForAll ==
  /\ \A p \in Port : arrived[p] = rxStat[p].ipv4 + rxStat[p].nonIp + Len(bufs[p])
  /\ \A f \in Fifo : wrkStat[f].fet = wrkStat[f].fls + wrkStat[f].drp + Len(ptr[f])

-----------------------------------------------------------------------------
(* What the variants that know flows promise *)

(* The frames of flow fl of port p that are inside, by their arrival       *)
(* numbers: those in bursts, in FIFOs and with the workers.                *)
Held == UNION ({Range(bufs[p]) : p \in Port}
               \cup {Range(ring[f]) \cup Range(ptr[f]) : f \in Fifo})

Inside(p, fl) ==
  {pkt[m].n : m \in {o \in Held : Home[o] = p /\ pkt[o].flow = fl}}

Flight == [x \in Port \X Flow |-> Inside(x[1], x[2])]

(* From the first overlap of two puts on nothing is promised any more.     *)
Ordered == INSTANCE OrderedFlows
             WITH Flows <- Port \X Flow, flight <- Flight, broken <- spoiled # {}

(* The atomic distributor implements the ordered one: while no two puts    *)
(* have overlapped, a flow is never reordered, whatever bursts, full FIFOs *)
(* and refused transmissions occur.                                        *)
KeepsFlowOrder == Ordered!Spec

=============================================================================
