-------------------- MODULE WorkDistAtomicUnorderedProofs --------------------
(***************************************************************************)
(* Theorems about WorkDistAtomic and WorkDistUnordered, for every number   *)
(* of ports, FIFOs and mbufs and every ring, queue and burst size: their   *)
(* types, the exclusive ownership of mbufs, the reads after the hand-over, *)
(* the shared and the private counters, the order of every flow in the     *)
(* first, and the search for a FIFO with room in the second.               *)
(***************************************************************************)
EXTENDS WorkDistAtomic, WorkDistUnordered, WorkDistProofs

-----------------------------------------------------------------------------
(* The atomic distributor *)

(* The modulo of lcore_pktFetch stays within the FIFOs that exist.         *)
LEMMA SteerInRange ==
  ASSUME NEW fl \in Flow
  PROVE  Steer(fl) \in Fifo
<1>1. Hash[fl] \in Nat
  BY HashAssumption
<1>2. FifoWrk \in Nat /\ FifoWrk > 0
  BY WorkDistAssumption
<1>3. Hash[fl] % FifoWrk \in 0 .. FifoWrk - 1
  BY <1>1, <1>2
<1>4. QED BY <1>3 DEF Steer, Fifo

(* What Fetch does with the packet it takes, in the terms of the lemmas.   *)
LEMMA FetchSteers ==
  ASSUME TypeOK, NEW p \in Port, Fetch(p)
  PROVE  \E m \in MBuf, f \in Fifo :
           /\ m = Head(bufs[p]) /\ pkt[m].flow \in Flow /\ f = Steer(pkt[m].flow)
           /\ pc[p] = "next" /\ bufs[p] # <<>>
           /\ \/ Enqueue(p, f) /\ UNCHANGED putRx
              \/ StartFree(p, "drp", f) /\ UNCHANGED ring
           /\ rxStat' = [rxStat EXCEPT ![p].ipv4 = @ + 1]
           /\ rxStat' \in [Port -> RxStats]
           /\ UNCHANGED <<pool, spoiled, pkt, arrived, ptr, txq, putWrk, rxQueue,
                          wrkStat, last>>
<1>1. PICK m : m = Head(bufs[p])
  OBVIOUS
<1>2. PICK f : f = Steer(pkt[m].flow)
  OBVIOUS
<1>3. /\ pc[p] = "next" /\ bufs[p] # <<>> /\ pkt[m].flow # NonIp
      /\ \/ Enqueue(p, f) /\ UNCHANGED putRx
         \/ StartFree(p, "drp", f) /\ UNCHANGED ring
      /\ rxStat' = [rxStat EXCEPT ![p].ipv4 = @ + 1]
      /\ UNCHANGED <<pool, spoiled, pkt, arrived, ptr, txq, putWrk, rxQueue, wrkStat, last>>
  BY <1>1, <1>2 DEF Fetch, memVars, wrkVars
<1>4. m \in MBuf /\ pkt[m] \in Packet
  BY <1>1, <1>3, HeadTailProperties DEF TypeOK, TypeOKWith
<1>5. pkt[m].flow \in Flow
  BY <1>3, <1>4 DEF Packet, Kind
<1>6. f \in Fifo
  BY <1>2, <1>5, SteerInRange
<1>7. rxStat' \in [Port -> RxStats]
  <2>1. rxStat \in [Port -> RxStats]
    BY DEF TypeOK, TypeOKWith, RxStats
  <2>2. rxStat' = [rxStat EXCEPT ![p] = [rxStat[p] EXCEPT !.ipv4 = @ + 1]]
    BY <1>3
  <2>3. QED BY <2>1, <2>2, StatTypes
<1>8. QED BY <1>1, <1>2, <1>3, <1>4, <1>5, <1>6, <1>7

-----------------------------------------------------------------------------
(* The invariants of all variants *)

LEMMA AtomicBaseStep ==
  ASSUME BaseInv(SharedPc), [Next]_vars
  PROVE  BaseInv(SharedPc)'
<1>1. ASSUME NEW p \in Port, SharedRx(p)
      PROVE  BaseInv(SharedPc)'
  BY <1>1, SharedRxBase
<1>2. ASSUME NEW p \in Port, Fetch(p)
      PROVE  BaseInv(SharedPc)'
  <2>1. TypeOK
    BY DEF BaseInv, TypeOK
  <2>2. PICK m \in MBuf, f \in Fifo :
          /\ pc[p] = "next" /\ bufs[p] # <<>>
          /\ \/ Enqueue(p, f) /\ UNCHANGED putRx
             \/ StartFree(p, "drp", f) /\ UNCHANGED ring
          /\ rxStat' \in [Port -> RxStats]
          /\ UNCHANGED <<pool, spoiled, pkt, arrived, ptr, txq, putWrk, rxQueue,
                         wrkStat, last>>
    BY <1>2, <2>1, FetchSteers
  <2>3. Searching(p)
    BY <2>2 DEF Searching
  <2>4. CASE Enqueue(p, f) /\ UNCHANGED putRx
    BY <2>2, <2>3, <2>4, EnqueueBase
  <2>5. CASE StartFree(p, "drp", f) /\ UNCHANGED ring
    BY <2>2, <2>3, <2>5, StartFreeBase
  <2>6. QED BY <2>2, <2>4, <2>5
<1>3. ASSUME NEW f \in Fifo, Worker(f)
      PROVE  BaseInv(SharedPc)'
  BY <1>3, WorkerBase
<1>4. CASE UNCHANGED vars
  BY <1>4, StutterBase
<1>5. QED BY <1>1, <1>2, <1>3, <1>4 DEF Next

LEMMA AtomicBase == Spec => []BaseInv(SharedPc)
<1>1. Init => BaseInv(SharedPc)
  BY InitBase
<1>2. BaseInv(SharedPc) /\ [Next]_vars => BaseInv(SharedPc)'
  BY AtomicBaseStep
<1>3. QED BY <1>1, <1>2, PTL DEF Spec

(* Every variable keeps its type: in particular no lcore ever indexes a    *)
(* FIFO or a counter that does not exist, and the packets an RX lcore      *)
(* works on are always mbufs.                                              *)
THEOREM TypeCorrect == Spec => []TypeOK
<1>1. BaseInv(SharedPc) => TypeOK
  BY DEF BaseInv, TypeOK
<1>2. QED BY <1>1, AtomicBase, PTL

(* The single-producer put is all that can go wrong with an mbuf: while no *)
(* two puts into its port's pool have overlapped, no path of the RX lcores *)
(* and workers leaks it, queues it twice or frees it while another lcore   *)
(* owns it, whatever stale and doubled mbufs the spoiled pools hand out.   *)
THEOREM MBufsAreOwned == Spec => []Ownership
<1>1. BaseInv(SharedPc) => Ownership
  BY DEF BaseInv, OwnInv
<1>2. QED BY <1>1, AtomicBase, PTL

(* The packet length that lcore_pktFetch adds up after the hand-over is    *)
(* the one of the packet handed over, though the worker may have freed the *)
(* mbuf by then: only the busy lcore itself could receive into it again.   *)
THEOREM LateReadsAreStable == Spec => []LateReadIsStable
<1>1. BaseInv(SharedPc) => LateReadIsStable
  BY LateInvStable DEF BaseInv
<1>2. QED BY <1>1, AtomicBase, PTL

(* However many increments the RX lcores lose to each other, queue_rx_add  *)
(* never claims a packet that has not reached the FIFO.                    *)
THEOREM AddsAreReal == Spec => []AddsNeverOvercount
<1>1. BaseInv(SharedPc) => AddsNeverOvercount
  BY DEF BaseInv, AddsInv
<1>2. QED BY <1>1, AtomicBase, PTL

-----------------------------------------------------------------------------
(* The statistics with one writer *)

LEMMA StatsStep ==
  ASSUME BaseInv(SharedPc), StatsAccountForAll, [Next]_vars
  PROVE  StatsAccountForAll'
<1>1. TypeOKWith(SharedPc) /\ TypeOK
  BY DEF BaseInv, TypeOK
<1>2. ASSUME NEW p \in Port, SharedRx(p)
      PROVE  StatsAccountForAll'
  BY <1>1, <1>2, SharedRxStats
<1>3. ASSUME NEW p \in Port, Fetch(p)
      PROVE  StatsAccountForAll'
  <2>1. PICK m \in MBuf, f \in Fifo :
          /\ bufs[p] # <<>>
          /\ Enqueue(p, f) \/ StartFree(p, "drp", f)
          /\ rxStat' = [rxStat EXCEPT ![p].ipv4 = @ + 1]
          /\ UNCHANGED <<arrived, wrkStat, ptr>>
    BY <1>1, <1>3, FetchSteers
  <2>2. bufs' = [bufs EXCEPT ![p] = Tail(@)]
    BY <2>1 DEF Enqueue, StartFree
  <2>3. QED BY <1>1, <2>1, <2>2, CountedStats
<1>4. ASSUME NEW f \in Fifo, Worker(f)
      PROVE  StatsAccountForAll'
  BY <1>1, <1>4, WorkerStats
<1>5. CASE UNCHANGED vars
  BY <1>5, StatsStay DEF vars
<1>6. QED BY <1>2, <1>3, <1>4, <1>5 DEF Next

(* rx_ipv4 and non_ip together with the burst account for every frame of a *)
(* port, queue_wrk_fet, _fls and _drp for every packet of a FIFO, at every *)
(* moment and not only between bursts.                                     *)
THEOREM StatisticsAddUp == Spec => []StatsAccountForAll
<1>1. Init => StatsAccountForAll
  BY InitStats
<1>2. BaseInv(SharedPc) /\ StatsAccountForAll /\ [Next]_vars => StatsAccountForAll'
  BY StatsStep
<1>3. QED BY <1>1, <1>2, AtomicBase, PTL DEF Spec

-----------------------------------------------------------------------------
(* The order of flows *)

(* Every queued packet is in the FIFO that the hash of its flow names.     *)
Steered == \A f \in Fifo : \A m \in Queued(f) : Steer(pkt[m].flow) = f

(* Until two puts overlap, the frames of a flow are in order.              *)
FlowInv == spoiled = {} => OrderInv /\ LastInv /\ Steered

LEMMA SteeredOneFifo == Steered => OneFifo
BY DEF Steered, OneFifo, SameFlow

(* A pool that was spoiled stays so.                                       *)
LEMMA SpoiledForGood ==
  ASSUME [Next]_vars
  PROVE  spoiled \subseteq spoiled'
<1>1. ASSUME NEW p \in Port, SharedRx(p)
      PROVE  spoiled \subseteq spoiled'
  BY <1>1 DEF SharedRx, RxFreed, FinishPut, RxBurstOf, DropNonIp, LoadCounter,
              StoreCounter, memVars
<1>2. ASSUME NEW p \in Port, Fetch(p)
      PROVE  spoiled \subseteq spoiled'
  BY <1>2 DEF Fetch, memVars
<1>3. ASSUME NEW f \in Fifo, Worker(f)
      PROVE  spoiled \subseteq spoiled'
  BY <1>3 DEF Worker, FetchBurst, Transmit, WrkFreed, FinishPut, memVars
<1>4. CASE UNCHANGED vars
  BY <1>4 DEF vars
<1>5. QED BY <1>1, <1>2, <1>3, <1>4 DEF Next

LEMMA CleanFlowStep ==
  ASSUME BaseInv(SharedPc), BaseInv(SharedPc)', OrderInv, LastInv, Steered, [Next]_vars,
         spoiled = {}, spoiled' = {}
  PROVE  OrderInv' /\ LastInv' /\ Steered' /\ [Ordered!Next]_(Ordered!vars)
<1>1. /\ TypeOKWith(SharedPc) /\ TypeOKWith(SharedPc)' /\ TypeOK
      /\ SoleOwner /\ LateInv /\ OneFifo
      /\ \A p \in Port : p \notin spoiled
  BY SteeredOneFifo, CleanOwns DEF BaseInv, TypeOK
<1>2. ASSUME NEW p \in Port, SharedRx(p)
      PROVE  OrderInv' /\ LastInv' /\ Steered' /\ [Ordered!Next]_(Ordered!vars)
  <2>1. /\ OrderInv' /\ LastInv'
        /\ \A f \in Fifo : Queued(f)' = Queued(f) /\ \A m \in Queued(f) : pkt'[m] = pkt[m]
    BY <1>1, <1>2, SharedRxOrder
  <2>2. Steered'
    BY <1>1, <2>1 DEF Steered, Steer
  <2>3. QED BY <1>1, <1>2, <2>1, <2>2, SharedRxRefines
<1>3. ASSUME NEW p \in Port, Fetch(p)
      PROVE  OrderInv' /\ LastInv' /\ Steered' /\ [Ordered!Next]_(Ordered!vars)
  <2>1. PICK m \in MBuf, f \in Fifo :
          /\ m = Head(bufs[p]) /\ pkt[m].flow \in Flow /\ f = Steer(pkt[m].flow)
          /\ pc[p] = "next" /\ bufs[p] # <<>>
          /\ \/ Enqueue(p, f) /\ UNCHANGED putRx
             \/ StartFree(p, "drp", f) /\ UNCHANGED ring
          /\ UNCHANGED <<spoiled, pkt, arrived, ptr, last>>
    BY <1>1, <1>3, FetchSteers
  <2>2. CASE Enqueue(p, f)
    <3>1. OrderInv' /\ LastInv' /\ UNCHANGED Ordered!vars
      BY <1>1, <2>1, <2>2, EnqueueOrder, EnqueueRefines
    <3>2. /\ Queued(f)' = Queued(f) \cup {m}
          /\ \A g \in Fifo : g # f => Queued(g)' = Queued(g)
      BY <1>1, <2>1, <2>2, EnqueueQueued
    <3>3. Steered'
      BY <1>1, <2>1, <3>2 DEF Steered, Steer
    <3>4. QED BY <3>1, <3>3
  <2>3. CASE StartFree(p, "drp", f) /\ UNCHANGED ring
    <3>1. OrderInv' /\ LastInv' /\ [Ordered!Next]_(Ordered!vars)
      BY <1>1, <2>1, <2>3, StartFreeOrder, StartFreeRefines
    <3>2. Steered'
      BY <1>1, <2>1, <2>3 DEF Steered, Steer, Queued
    <3>3. QED BY <3>1, <3>2
  <2>4. QED BY <2>1, <2>2, <2>3
<1>4. ASSUME NEW f \in Fifo, Worker(f)
      PROVE  OrderInv' /\ LastInv' /\ Steered' /\ [Ordered!Next]_(Ordered!vars)
  <2>1. /\ OrderInv' /\ LastInv' /\ pkt' = pkt
        /\ \A g \in Fifo : Queued(g)' \subseteq Queued(g)
    BY <1>1, <1>4, WorkerOrder
  <2>2. Steered'
    BY <1>1, <2>1 DEF Steered, Steer
  <2>3. QED BY <1>1, <1>4, <2>1, <2>2, WorkerRefines
<1>5. CASE UNCHANGED vars
  <2>1. OrderInv' /\ LastInv'
    BY <1>1, <1>5, OrderStays DEF vars
  <2>2. Steered'
    BY <1>1, <1>5 DEF Steered, Steer, Queued, vars
  <2>3. UNCHANGED Ordered!vars
    BY <1>5, SameFlight DEF Held, vars
  <2>4. QED BY <2>1, <2>2, <2>3
<1>6. QED BY <1>2, <1>3, <1>4, <1>5 DEF Next

LEMMA FlowStep ==
  ASSUME BaseInv(SharedPc), BaseInv(SharedPc)', FlowInv, [Next]_vars
  PROVE  FlowInv' /\ [Ordered!Next]_(Ordered!vars)
<1>1. CASE spoiled' # {}
  BY <1>1 DEF FlowInv, Ordered!Next
<1>2. CASE spoiled' = {}
  <2>1. spoiled = {}
    BY <1>2, SpoiledForGood
  <2>2. OrderInv /\ LastInv /\ Steered
    BY <2>1 DEF FlowInv
  <2>3. QED BY <1>2, <2>1, <2>2, CleanFlowStep DEF FlowInv
<1>3. QED BY <1>1, <1>2

(* The atomic distributor implements the ordered one: until two puts into  *)
(* a pool overlap, it never reorders a flow, whatever the bursts, the full *)
(* FIFOs and the refused transmissions and however its lcores interleave.  *)
THEOREM AtomicKeepsFlowOrder == Spec => KeepsFlowOrder
<1>1. Init => FlowInv
  <2> SUFFICES ASSUME Init PROVE FlowInv
    OBVIOUS
  <2>1. \A f \in Fifo : Queued(f) = {}
    BY EmptyRange DEF Init, Queued
  <2>2. QED BY <2>1, InitOrder DEF FlowInv, Steered
<1>2. Init => Ordered!Init
  BY InitRefines
<1>3. BaseInv(SharedPc) /\ BaseInv(SharedPc)' /\ FlowInv /\ [Next]_vars
        => FlowInv' /\ [Ordered!Next]_(Ordered!vars)
  BY FlowStep
<1>4. QED BY <1>1, <1>2, <1>3, AtomicBase, PTL DEF Spec, KeepsFlowOrder, Ordered!Spec

-----------------------------------------------------------------------------
(* The unordered distributor *)

-----------------------------------------------------------------------------
(* The step of the search *)

LEMMA ModOnce ==
  ASSUME NEW n \in Nat \ {0}, NEW a \in 0 .. n - 1
  PROVE  a % n = a /\ (a + n) % n = a
OBVIOUS

LEMMA NextFifoIs ==
  /\ \A f \in Nat : NextFifo(f) \in Fifo
  /\ \A f \in Fifo : NextFifo(f) = IF f = FifoWrk - 1 THEN 0 ELSE f + 1
<1>1. FifoWrk \in Nat \ {0}
  BY WorkDistAssumption
<1>2. ASSUME NEW f \in Nat
      PROVE  NextFifo(f) \in Fifo
  <2>1. (f + 1) % FifoWrk \in 0 .. FifoWrk - 1
    BY <1>1
  <2>2. QED BY <2>1 DEF NextFifo, Fifo
<1>3. ASSUME NEW f \in Fifo
      PROVE  NextFifo(f) = IF f = FifoWrk - 1 THEN 0 ELSE f + 1
  <2>1. f \in 0 .. FifoWrk - 1
    BY DEF Fifo
  <2>2. CASE f = FifoWrk - 1
    <3>1. 0 \in 0 .. FifoWrk - 1 /\ f + 1 = 0 + FifoWrk
      BY <1>1, <2>2
    <3>2. (f + 1) % FifoWrk = 0
      BY <1>1, <3>1, ModOnce
    <3>3. QED BY <2>2, <3>2 DEF NextFifo
  <2>3. CASE f # FifoWrk - 1
    <3>1. f + 1 \in 0 .. FifoWrk - 1
      BY <1>1, <2>1, <2>3
    <3>2. (f + 1) % FifoWrk = f + 1
      BY <1>1, <3>1, ModOnce
    <3>3. QED BY <2>3, <3>2 DEF NextFifo
  <2>4. QED BY <2>2, <2>3
<1>4. QED BY <1>2, <1>3

(* Where the search of p can be: the FIFO tried now and the tries left add *)
(* up to the port's number, or to that and one round.                      *)
Round(p) == search[p].fifo + search[p].left \in {p, p + FifoWrk}

SearchOf(p) ==
  pc[p] \in {"probe", "enqueue"} =>
    /\ bufs[p] # <<>>
    /\ search[p].left \in 1 .. FifoWrk
    /\ search[p].fifo \in Fifo \/ (pc[p] = "probe" /\ search[p].fifo = p)
    /\ p \in Fifo => Round(p)

SearchInv ==
  /\ search \in [Port -> [fifo : Fifo \cup Port, left : 0 .. FifoWrk]]
  /\ panicked \in BOOLEAN
  /\ \A p \in Port : SearchOf(p)

UInv == /\ BaseInv(UnorderedPc) /\ SearchInv
        /\ DropIsChargedHome /\ PanicsOnlyAtAFarPort

LEMMA SearchTypes ==
  ASSUME SearchInv, NEW p \in Port
  PROVE  /\ search[p].fifo \in Nat /\ search[p].left \in Nat
         /\ search[p].fifo \in Fifo \cup Port
<1>1. FifoWrk \in Nat /\ Port \subseteq Nat
  BY WorkDistAssumption
<1>2. Fifo \cup Port \subseteq Nat
  BY <1>1 DEF Fifo
<1>3. search[p].fifo \in Fifo \cup Port /\ search[p].left \in 0 .. FifoWrk
  BY DEF SearchInv
<1>4. QED BY <1>1, <1>2, <1>3

LEMMA OtherSearch ==
  ASSUME NEW q, SearchOf(q),
         search'[q] = search[q], pc'[q] = pc[q], bufs'[q] = bufs[q]
  PROVE  SearchOf(q)'
BY DEF SearchOf, Round

(* The invariants say what SearchIsARound says in terms of the remainder.  *)
LEMMA RoundIsSearch == SearchInv => SearchIsARound
<1> SUFFICES ASSUME SearchInv, NEW p \in Port \cap Fifo, pc[p] \in {"probe", "enqueue"}
             PROVE  /\ search[p].left \in 1 .. FifoWrk
                    /\ (search[p].fifo + search[p].left) % FifoWrk = p % FifoWrk
  BY DEF SearchIsARound
<1>1. search[p].left \in 1 .. FifoWrk /\ search[p].fifo + search[p].left \in {p, p + FifoWrk}
  BY DEF SearchInv, SearchOf, Round
<1>2. FifoWrk \in Nat \ {0} /\ p \in 0 .. FifoWrk - 1
  BY WorkDistAssumption DEF Fifo
<1>3. p % FifoWrk = p /\ (p + FifoWrk) % FifoWrk = p
  BY <1>2, ModOnce
<1>4. QED BY <1>1, <1>3

LEMMA InitU ==
  ASSUME UInit
  PROVE  UInv
<1>1. BaseInv(UnorderedPc)
  BY InitBase DEF UInit, UnorderedPc
<1>2. 0 \in Fifo /\ 0 \in 0 .. FifoWrk
  BY WorkDistAssumption DEF Fifo
<1>3. QED BY <1>1, <1>2
       DEF UInv, UInit, Init, SearchInv, SearchOf, DropIsChargedHome, PanicsOnlyAtAFarPort

-----------------------------------------------------------------------------
(* The steps *)

(* Steps that leave the searches alone: what they may do to an RX lcore.   *)
LEMMA SearchStays ==
  ASSUME UInv, UNCHANGED <<search, panicked>>, ~panicked,
         \A p \in Port :
           \/ pc'[p] = pc[p] /\ given'[p] = given[p] /\ bufs'[p] = bufs[p]
           \/ /\ pc'[p] \notin {"probe", "enqueue"}
              /\ pc'[p] = "free" => given'[p].ctr # "drp"
  PROVE  SearchInv' /\ DropIsChargedHome' /\ PanicsOnlyAtAFarPort'
<1>1. SearchInv'
  BY OtherSearch DEF UInv, SearchInv, SearchOf
<1>2. DropIsChargedHome'
  BY DEF UInv, DropIsChargedHome
<1>3. PanicsOnlyAtAFarPort'
  BY DEF PanicsOnlyAtAFarPort
<1>4. QED BY <1>1, <1>2, <1>3

LEMMA SharedRxU ==
  ASSUME UInv, ~panicked, NEW p \in Port, SharedRx(p), UNCHANGED <<search, panicked>>
  PROVE  UInv'
<1>1. SharedPc \subseteq UnorderedPc /\ BaseInv(UnorderedPc)
  BY DEF UnorderedPc, UInv
<1>2. BaseInv(UnorderedPc)'
  BY <1>1, SharedRxBase
<1>3. /\ pc \in [Port -> UnorderedPc] /\ given \in [Port -> Handover]
      /\ bufs \in [Port -> Seq(MBuf)]
  BY <1>1 DEF BaseInv, TypeOKWith
<1>4. CASE RxFreed(p)
  <2>1. /\ \A q \in Port : q # p => pc'[q] = pc[q]
        /\ UNCHANGED <<given, bufs>> /\ pc'[p] \in {"next", "load"}
    BY <1>3, <1>4 DEF RxFreed
  <2>2. QED BY <1>2, <2>1, SearchStays DEF UInv
<1>5. CASE RxBurstOf(p)
  <2>1. /\ UNCHANGED <<pc, given>> /\ pc[p] = "next"
        /\ \A q \in Port : q # p => bufs'[q] = bufs[q]
    BY <1>3, <1>5 DEF RxBurstOf
  <2>2. QED BY <1>2, <2>1, SearchStays DEF UInv
<1>6. CASE DropNonIp(p)
  <2>1. /\ \A q \in Port : q # p => pc'[q] = pc[q] /\ given'[q] = given[q] /\ bufs'[q] = bufs[q]
        /\ pc'[p] = "free" /\ given'[p].ctr = "none"
    BY <1>3, <1>6 DEF DropNonIp, StartFree, Idle
  <2>2. QED BY <1>2, <2>1, SearchStays DEF UInv
<1>7. CASE LoadCounter(p) \/ StoreCounter(p)
  <2>1. /\ \A q \in Port : q # p => pc'[q] = pc[q] /\ given'[q] = given[q]
        /\ bufs' = bufs /\ pc'[p] \in {"store", "next"}
    BY <1>3, <1>7 DEF LoadCounter, StoreCounter
  <2>2. QED BY <1>2, <2>1, SearchStays DEF UInv
<1>8. QED BY <1>4, <1>5, <1>6, <1>7 DEF SharedRx

LEMMA StartSearchU ==
  ASSUME UInv, ~panicked, NEW p \in Port, StartSearch(p)
  PROVE  UInv'
<1>1. BaseInv(UnorderedPc) /\ SearchInv /\ FifoWrk \in Nat \ {0} /\ Port \subseteq Nat
  BY WorkDistAssumption DEF UInv
<1>2. /\ pc \in [Port -> UnorderedPc] /\ pc[p] = "next" /\ bufs[p] # <<>>
      /\ search \in [Port -> [fifo : Fifo \cup Port, left : 0 .. FifoWrk]]
      /\ search' = [search EXCEPT ![p] = [fifo |-> p, left |-> FifoWrk]]
      /\ pc' = [pc EXCEPT ![p] = "probe"]
      /\ rxStat' = [rxStat EXCEPT ![p] = [rxStat[p] EXCEPT !.ipv4 = @ + 1]]
      /\ UNCHANGED <<pool, spoiled, pkt, arrived, bufs, given, ring, ptr, txq, putRx,
                     putWrk, rxQueue, wrkStat, last, panicked>>
  BY <1>1 DEF BaseInv, TypeOKWith, SearchInv, StartSearch, memVars, wrkVars
<1>3. rxStat' \in [Port -> RxStats]
  <2>1. rxStat \in [Port -> RxStats]
    BY <1>1 DEF BaseInv, TypeOKWith, RxStats
  <2>2. QED BY <1>2, <2>1, StatTypes
<1>4. BaseInv(UnorderedPc)'
  BY <1>1, <1>2, <1>3, SearchBase DEF UnorderedPc, Searching
<1>5. /\ search'[p].fifo = p /\ search'[p].left = FifoWrk /\ pc'[p] = "probe"
      /\ \A q \in Port : q # p => search'[q] = search[q] /\ pc'[q] = pc[q]
  BY <1>2
<1>6. FifoWrk \in 1 .. FifoWrk /\ FifoWrk \in 0 .. FifoWrk
  BY <1>1
<1>7. search' \in [Port -> [fifo : Fifo \cup Port, left : 0 .. FifoWrk]]
  BY <1>2, <1>6
<1>8. SearchInv'
  <2>1. SearchOf(p)'
    BY <1>1, <1>2, <1>5, <1>6 DEF SearchOf, Round
  <2>2. \A q \in Port : q # p => SearchOf(q)'
    BY <1>1, <1>2, <1>5, OtherSearch DEF SearchInv
  <2>3. QED BY <1>1, <1>2, <1>7, <2>1, <2>2 DEF SearchInv
<1>9. DropIsChargedHome' /\ PanicsOnlyAtAFarPort'
  BY <1>2, <1>5 DEF UInv, DropIsChargedHome, PanicsOnlyAtAFarPort
<1>10. QED BY <1>4, <1>8, <1>9 DEF UInv

(* The FIFO refused the packet: the search goes on, or has come full       *)
(* circle and drops the packet at the account of the port's own FIFO.      *)
LEMMA TryNextU ==
  ASSUME UInv, ~panicked, NEW p \in Port, pc[p] \in {"probe", "enqueue"},
         search[p].fifo \in Fifo, TryNext(p)
  PROVE  UInv'
<1>1. /\ BaseInv(UnorderedPc) /\ SearchInv /\ FifoWrk \in Nat \ {0} /\ Port \subseteq Nat
      /\ SharedPc \subseteq UnorderedPc
  BY WorkDistAssumption DEF UInv, UnorderedPc
<1>2. PICK f : f = NextFifo(search[p].fifo)
  OBVIOUS
<1>3. /\ search' = [search EXCEPT ![p] = [fifo |-> f, left |-> @.left - 1]]
      /\ \/ /\ search[p].left # 1
            /\ pc' = [pc EXCEPT ![p] = "probe"] /\ UNCHANGED <<bufs, putRx, given>>
         \/ /\ search[p].left = 1
            /\ StartFree(p, "drp", f)
      /\ UNCHANGED <<pool, spoiled, pkt, arrived, ring, ptr, txq, putWrk, rxStat,
                     rxQueue, wrkStat, last, panicked>>
  BY <1>2 DEF TryNext, LastTry, memVars, wrkVars
<1>4. /\ pc \in [Port -> UnorderedPc] /\ given \in [Port -> Handover]
      /\ bufs \in [Port -> Seq(MBuf)] /\ rxStat' \in [Port -> RxStats]
      /\ search \in [Port -> [fifo : Fifo \cup Port, left : 0 .. FifoWrk]]
      /\ bufs[p] # <<>> /\ search[p].left \in 1 .. FifoWrk
      /\ p \in Fifo => Round(p)
      /\ Searching(p)
  BY <1>1, <1>3 DEF BaseInv, TypeOKWith, SearchInv, SearchOf, RxStats, Searching
<1>5. f \in Fifo /\ f = IF search[p].fifo = FifoWrk - 1 THEN 0 ELSE search[p].fifo + 1
  <2>1. search[p].fifo \in Nat
    BY <1>1, SearchTypes
  <2>2. QED BY <1>2, <2>1, NextFifoIs
<1>6. search[p].left - 1 \in 0 .. FifoWrk
  BY <1>1, <1>4
<1>7. /\ search'[p].fifo = f /\ search'[p].left = search[p].left - 1
      /\ \A q \in Port : q # p => search'[q] = search[q]
      /\ search' \in [Port -> [fifo : Fifo \cup Port, left : 0 .. FifoWrk]]
  BY <1>3, <1>4, <1>5, <1>6
<1>8. CASE /\ search[p].left # 1
           /\ pc' = [pc EXCEPT ![p] = "probe"] /\ UNCHANGED <<bufs, putRx, given>>
  <2>1. BaseInv(UnorderedPc)'
    BY <1>1, <1>3, <1>4, <1>8, SearchBase DEF UnorderedPc
  <2>2. pc'[p] = "probe" /\ \A q \in Port : q # p => pc'[q] = pc[q]
    BY <1>4, <1>8
  <2>3. search'[p].left \in 1 .. FifoWrk
    BY <1>1, <1>4, <1>7, <1>8
  <2>4. p \in Fifo => search'[p].fifo + search'[p].left \in {p, p + FifoWrk}
    <3> SUFFICES ASSUME p \in Fifo
                 PROVE  f + (search[p].left - 1) \in {p, p + FifoWrk}
      BY <1>7
    <3> DEFINE a == search[p].fifo
               b == search[p].left
    <3>1. /\ a \in 0 .. FifoWrk - 1 /\ b \in 1 .. FifoWrk /\ p \in 0 .. FifoWrk - 1
          /\ a + b = p \/ a + b = p + FifoWrk
      BY <1>4 DEF Fifo, Round
    <3>2. f = IF a = FifoWrk - 1 THEN 0 ELSE a + 1
      BY <1>5
    <3> HIDE DEF a, b
    <3>3. CASE a = FifoWrk - 1
      <4>1. a + b = p + FifoWrk
        BY <1>1, <3>1, <3>3
      <4>2. f + (b - 1) = p
        BY <1>1, <3>1, <3>2, <3>3, <4>1
      <4>3. QED BY <4>2 DEF b
    <3>4. CASE a # FifoWrk - 1
      <4>1. f + (b - 1) = a + b
        BY <1>1, <3>1, <3>2, <3>4
      <4>2. QED BY <3>1, <4>1 DEF b
    <3>5. QED BY <3>3, <3>4
  <2>5. SearchInv'
    <3>1. SearchOf(p)'
      BY <1>4, <1>5, <1>7, <1>8, <2>3, <2>4 DEF SearchOf, Round
    <3>2. \A q \in Port : q # p => SearchOf(q)'
      BY <1>1, <1>7, <1>8, <2>2, OtherSearch DEF SearchInv
    <3>3. QED BY <1>1, <1>3, <1>7, <3>1, <3>2 DEF SearchInv
  <2>6. DropIsChargedHome' /\ PanicsOnlyAtAFarPort'
    BY <1>3, <1>8, <2>2 DEF UInv, DropIsChargedHome, PanicsOnlyAtAFarPort
  <2>7. QED BY <2>1, <2>5, <2>6 DEF UInv
<1>9. CASE search[p].left = 1 /\ StartFree(p, "drp", f)
  <2>1. BaseInv(UnorderedPc)'
    BY <1>1, <1>3, <1>4, <1>5, <1>9, StartFreeBase
  <2>2. /\ pc'[p] = "free" /\ given'[p].fifo = f
        /\ \A q \in Port : q # p => pc'[q] = pc[q] /\ given'[q] = given[q] /\ bufs'[q] = bufs[q]
    BY <1>4, <1>9 DEF StartFree, Idle
  <2>3. SearchInv'
    <3>1. SearchOf(p)'
      BY <2>2 DEF SearchOf
    <3>2. \A q \in Port : q # p => SearchOf(q)'
      BY <1>1, <1>7, <2>2, OtherSearch DEF SearchInv
    <3>3. QED BY <1>1, <1>3, <1>7, <3>1, <3>2 DEF SearchInv
  <2>4. p \in Fifo => f = p
    <3> SUFFICES ASSUME p \in Fifo
                 PROVE  f = p
      OBVIOUS
    <3> DEFINE a == search[p].fifo
    <3>1. /\ a \in 0 .. FifoWrk - 1 /\ p \in 0 .. FifoWrk - 1
          /\ a + 1 = p \/ a + 1 = p + FifoWrk
      BY <1>4, <1>9 DEF Fifo, Round
    <3>2. f = IF a = FifoWrk - 1 THEN 0 ELSE a + 1
      BY <1>5
    <3> HIDE DEF a
    <3>3. CASE a + 1 = p
      BY <1>1, <3>1, <3>2, <3>3
    <3>4. CASE a + 1 = p + FifoWrk
      BY <1>1, <3>1, <3>2, <3>4
    <3>5. QED BY <3>1, <3>3, <3>4
  <2>5. DropIsChargedHome'
    BY <2>2, <2>4 DEF UInv, DropIsChargedHome
  <2>6. PanicsOnlyAtAFarPort'
    BY <1>3 DEF PanicsOnlyAtAFarPort
  <2>7. QED BY <2>1, <2>3, <2>5, <2>6 DEF UInv
<1>10. QED BY <1>3, <1>8, <1>9

LEMMA ProbeU ==
  ASSUME UInv, ~panicked, NEW p \in Port, Probe(p)
  PROVE  UInv'
<1>1. BaseInv(UnorderedPc) /\ SearchInv /\ pc[p] = "probe" /\ search[p].fifo \in Fifo
  BY DEF UInv, Probe
<1>2. CASE /\ pc' = [pc EXCEPT ![p] = "enqueue"]
           /\ UNCHANGED <<memVars, pkt, arrived, bufs, given, ring,
                          wrkVars, putRx, putWrk, rxStat, rxQueue, wrkStat,
                          last, search, panicked>>
  <2>1. /\ rxStat' \in [Port -> RxStats] /\ pc \in [Port -> UnorderedPc]
        /\ Searching(p)
    BY <1>1, <1>2 DEF BaseInv, TypeOKWith, RxStats, Searching
  <2>2. BaseInv(UnorderedPc)'
    BY <1>1, <1>2, <2>1, SearchBase DEF UnorderedPc, memVars, wrkVars
  <2>3. pc'[p] = "enqueue" /\ \A q \in Port : q # p => pc'[q] = pc[q]
    BY <1>2, <2>1
  <2>4. SearchInv'
    BY <1>1, <1>2, <2>3 DEF SearchInv, SearchOf, Round
  <2>5. DropIsChargedHome' /\ PanicsOnlyAtAFarPort'
    BY <1>2, <2>3 DEF UInv, DropIsChargedHome, PanicsOnlyAtAFarPort
  <2>6. QED BY <2>2, <2>4, <2>5 DEF UInv
<1>3. CASE TryNext(p)
  BY <1>1, <1>3, TryNextU
<1>4. QED BY <1>2, <1>3 DEF Probe

LEMMA OfferU ==
  ASSUME UInv, ~panicked, NEW p \in Port, Offer(p)
  PROVE  UInv'
<1>1. /\ BaseInv(UnorderedPc) /\ SearchInv /\ pc[p] = "enqueue"
      /\ search[p].fifo \in Fifo /\ bufs[p] # <<>>
      /\ SharedPc \subseteq UnorderedPc
  BY DEF UInv, Offer, SearchInv, SearchOf, UnorderedPc
<1>2. PICK f \in Fifo : f = search[p].fifo
  BY <1>1
<1>3. CASE /\ Enqueue(p, f)
           /\ UNCHANGED <<memVars, pkt, arrived, wrkVars, putRx, putWrk, rxStat,
                          rxQueue, wrkStat, last, search, panicked>>
  <2>1. /\ rxStat' \in [Port -> RxStats] /\ pc \in [Port -> UnorderedPc]
        /\ given \in [Port -> Handover] /\ bufs \in [Port -> Seq(MBuf)]
        /\ Searching(p)
    BY <1>1, <1>3 DEF BaseInv, TypeOKWith, RxStats, Searching
  <2>2. BaseInv(UnorderedPc)'
    BY <1>1, <1>3, <2>1, EnqueueBase DEF memVars, wrkVars
  <2>3. /\ pc'[p] = "load"
        /\ \A q \in Port : q # p => pc'[q] = pc[q] /\ given'[q] = given[q] /\ bufs'[q] = bufs[q]
    BY <1>3, <2>1 DEF Enqueue
  <2>4. QED BY <1>3, <2>2, <2>3, SearchStays DEF UInv
<1>4. CASE TryNext(p)
  BY <1>1, <1>4, TryNextU
<1>5. QED BY <1>2, <1>3, <1>4 DEF Offer

LEMMA UInvStep ==
  ASSUME UInv, [UNext]_uvars
  PROVE  UInv'
<1>1. ASSUME ~panicked, NEW p \in Port, SharedRx(p), UNCHANGED <<search, panicked>>
      PROVE  UInv'
  BY <1>1, SharedRxU
<1>2. ASSUME ~panicked, NEW p \in Port,
             StartSearch(p) \/ Probe(p) \/ Offer(p)
      PROVE  UInv'
  BY <1>2, StartSearchU, ProbeU, OfferU
<1>3. ASSUME NEW p \in Port, NoSuchFifo(p)
      PROVE  UInv'
  <2>1. BaseInv(UnorderedPc)'
    BY <1>3, StutterBase DEF UInv, NoSuchFifo
  <2>2. pc[p] = "probe" /\ search[p].fifo \notin Fifo /\ search[p].fifo = p
    BY <1>3 DEF UInv, SearchInv, SearchOf, NoSuchFifo
  <2>3. QED BY <1>3, <2>1, <2>2
         DEF UInv, SearchInv, SearchOf, Round, DropIsChargedHome, PanicsOnlyAtAFarPort,
             NoSuchFifo, vars
<1>4. ASSUME ~panicked, NEW f \in Fifo, Worker(f), UNCHANGED <<search, panicked>>
      PROVE  UInv'
  <2>1. BaseInv(UnorderedPc)'
    BY <1>4, WorkerBase DEF UInv, UnorderedPc
  <2>2. UNCHANGED <<pc, given, bufs>>
    BY <1>4 DEF Worker, FetchBurst, Transmit, WrkFreed, rxVars
  <2>3. QED BY <1>4, <2>1, <2>2, SearchStays DEF UInv
<1>5. CASE UNCHANGED uvars
  <2>1. BaseInv(UnorderedPc)'
    BY <1>5, StutterBase DEF UInv, uvars
  <2>2. QED BY <1>5, <2>1
         DEF UInv, SearchInv, SearchOf, Round, DropIsChargedHome, PanicsOnlyAtAFarPort, uvars, vars
<1>6. QED BY <1>1, <1>2, <1>3, <1>4, <1>5 DEF UNext

-----------------------------------------------------------------------------
(* The theorems *)

LEMMA UInvAlways == USpec => []UInv
<1>1. UInit => UInv
  BY InitU
<1>2. UInv /\ [UNext]_uvars => UInv'
  BY UInvStep
<1>3. QED BY <1>1, <1>2, PTL DEF USpec

(* Every variable keeps its type; fifoCnt never runs below zero.           *)
THEOREM UnorderedTypes == USpec => []UTypeOK
<1>1. UInv => UTypeOK
  BY DEF UInv, BaseInv, SearchInv, UTypeOK
<1>2. QED BY <1>1, UInvAlways, PTL

(* Offering a packet to one FIFO after the other neither leaks it nor      *)
(* queues it twice, though a FIFO found with room may refuse it: in this   *)
(* variant too, an mbuf is lost or doubled only where two puts into its    *)
(* port's pool have overlapped.                                            *)
THEOREM UnorderedMBufsAreOwned == USpec => []Ownership
<1>1. UInv => Ownership
  BY DEF UInv, BaseInv, OwnInv
<1>2. QED BY <1>1, UInvAlways, PTL

(* The search of a port that has a FIFO of its own number visits every     *)
(* FIFO once, from that one on.                                            *)
THEOREM SearchVisitsAll == USpec => []SearchIsARound
<1>1. UInv => SearchIsARound
  BY RoundIsSearch DEF UInv
<1>2. QED BY <1>1, UInvAlways, PTL

(* A drop is always charged to the FIFO with the port's own number.        *)
THEOREM DropsAreChargedHome == USpec => []DropIsChargedHome
<1>1. UInv => DropIsChargedHome
  BY DEF UInv
<1>2. QED BY <1>1, UInvAlways, PTL

(* The program panics only on the first try of a port whose number is not  *)
(* the number of a FIFO: the walk itself never leaves the FIFOs.           *)
THEOREM PanicsOnlyFarOut == USpec => []PanicsOnlyAtAFarPort
<1>1. UInv => PanicsOnlyAtAFarPort
  BY DEF UInv
<1>2. QED BY <1>1, UInvAlways, PTL

(* What an RX lcore reads of a packet it gave away is still that packet's, *)
(* and queue_rx_add claims no packet too many, in this variant as well.    *)
THEOREM UnorderedReadsAreStable == USpec => [](LateReadIsStable /\ AddsNeverOvercount)
<1>1. UInv => LateReadIsStable /\ AddsNeverOvercount
  BY LateInvStable DEF UInv, BaseInv, AddsInv
<1>2. QED BY <1>1, UInvAlways, PTL

=============================================================================
