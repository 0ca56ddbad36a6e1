--------------------------- MODULE WorkShareProofs ---------------------------
(***************************************************************************)
(* Theorems about the primary and the secondary process, for any machine,  *)
(* ring and burst, however often the secondary crashes: the types, that no *)
(* mbuf leaks from a pool that is not spoiled, that a burst belongs to one *)
(* port, and when a secondary ends by itself.                              *)
(***************************************************************************)
EXTENDS WorkShare, FiniteSetTheorems, TLAPS

-----------------------------------------------------------------------------
(* Sequences                                                               *)

LEMMA RangeOf == ASSUME NEW S, NEW s \in Seq(S) PROVE Range(s) = {s[k] : k \in 1 .. Len(s)}
  BY DEF Range

LEMMA SplitFacts ==
  ASSUME NEW S, NEW s \in Seq(S), NEW n \in 0 .. Len(s)
  PROVE  /\ SubSeq(s, 1, n) \in Seq(S) /\ Len(SubSeq(s, 1, n)) = n
         /\ SubSeq(s, n + 1, Len(s)) \in Seq(S) /\ Len(SubSeq(s, n + 1, Len(s))) = Len(s) - n
         /\ \A k \in 1 .. n : SubSeq(s, 1, n)[k] = s[k]
         /\ \A k \in 1 .. Len(s) - n : SubSeq(s, n + 1, Len(s))[k] = s[n + k]
  OBVIOUS

LEMMA RestFacts ==
  ASSUME NEW S, NEW s \in Seq(S), NEW n \in Nat
  PROVE  /\ SubSeq(s, n + 1, Len(s)) \in Seq(S) /\ Len(SubSeq(s, n + 1, Len(s))) <= Len(s)
         /\ \A k \in 1 .. Len(SubSeq(s, n + 1, Len(s))) :
              n + k \in 1 .. Len(s) /\ SubSeq(s, n + 1, Len(s))[k] = s[n + k]
  OBVIOUS

LEMMA HeadFacts ==
  ASSUME NEW S, NEW s \in Seq(S), s # <<>>
  PROVE  /\ Tail(s) \in Seq(S) /\ Head(s) \in S
         /\ Range(s) = Range(Tail(s)) \cup {Head(s)}
<1>1. Tail(s) \in Seq(S) /\ Head(s) = s[1] /\ s[1] \in S /\ Len(s) \in Nat \ {0}
      /\ Len(Tail(s)) = Len(s) - 1 /\ \A k \in 1 .. Len(s) - 1 : Tail(s)[k] = s[k + 1]
  OBVIOUS
<1>2. \A k \in 1 .. Len(s) : k = 1 \/ (k - 1 \in 1 .. Len(s) - 1 /\ s[k] = Tail(s)[k - 1])
  BY <1>1
<1>3. Range(s) = {s[k] : k \in 1 .. Len(s)}
      /\ Range(Tail(s)) = {Tail(s)[k] : k \in 1 .. Len(s) - 1}
  BY <1>1, RangeOf
<1>4. Range(Tail(s)) \cup {Head(s)} \subseteq Range(s)
  <2>1. \A k \in 1 .. Len(s) - 1 : k + 1 \in 1 .. Len(s)
    BY <1>1
  <2>2. 1 \in 1 .. Len(s)
    BY <1>1
  <2>3. QED
    BY <1>1, <1>3, <2>1, <2>2
<1>5. Range(s) \subseteq Range(Tail(s)) \cup {Head(s)}
  BY <1>1, <1>2, <1>3
<1>6. QED
  BY <1>1, <1>4, <1>5

-----------------------------------------------------------------------------
(* The invariant                                                           *)

(* The rings there are have the numbers from 0 on.                         *)
Rings == /\ IsFiniteSet(DOMAIN fifo)
         /\ DOMAIN fifo = CreatedFifos(Count(DOMAIN fifo))
         /\ fifo \in [DOMAIN fifo -> Seq(AllMbufs)]
         /\ \A f \in DOMAIN fifo : Len(fifo[f]) < RingSize

(* A port that is polled has its ring; the lcore that is about to free a   *)
(* frame has one.                                                          *)
Polled == \A p \in Ports :
            /\ rx[p] \in {"poll", "free", "put"} => RxFifo(p) \in DOMAIN fifo
            /\ rx[p] \in {"free", "put"} => bufs[p] # <<>>

(* A ring holds frames of the port it is named for only.                   *)
RingsOfPorts == \A f \in DOMAIN fifo : \A k \in 1 .. Len(fifo[f]) :
                  RxFifo(PortOf(fifo[f][k])) = f

Hands == \A w \in Worker : \A k \in 1 .. Len(hand[w]) : work[w] = RxFifo(PortOf(hand[w][k]))

(* TypeOK by what its parts are about.                                     *)
PrimTypes == /\ layout \in Layout
             /\ pc \in {"reserve", "count", "fifo", "rx", "run", "dead"}
             /\ known \subseteq Fast
             /\ rx \in [Ports -> {"off", "poll", "free", "put", "down"}]
             /\ \A f \in DOMAIN fifo : f \in Fifo /\ f[1] = 0
MemTypes  == /\ bufs \in [Ports -> Seq(AllMbufs)] /\ pool \in [Ports -> SUBSET AllMbufs]
             /\ spoiled \subseteq Ports /\ nic \in [Ports -> SUBSET AllMbufs]
             /\ \A f \in DOMAIN fifo : fifo[f] \in Seq(AllMbufs) /\ Len(fifo[f]) < RingSize
CountTypes == dropped \in [Ports -> Nat] /\ non_ip \in [Ports -> Nat]
SecTypes  == /\ sec \in {"off", "launch", "run", "exit"}
             /\ loop \in [index : 0 .. NumNodes, j : Nat, argPort : Nat, ret : {-1, 0, 1},
                          used : SUBSET Worker]
             /\ DOMAIN work = Worker
             /\ \A w \in Worker : work[w] \in {<<"off">>, <<"launched">>} \cup DOMAIN fifo
             /\ starts \in 0 .. MaxStarts /\ early \in BOOLEAN

(* A worker caught in a dequeue serves a ring; it puts one mbuf at a time. *)
WorkTypes == /\ hand \in [Worker -> Seq(AllMbufs)]
             /\ frees \in [Worker -> SUBSET AllMbufs]
             /\ putting \in [Worker -> SUBSET AllMbufs]
             /\ \A w \in Worker : \A m, o \in putting[w] : m = o
             /\ taking \subseteq Worker /\ \A w \in taking : work[w] \in DOMAIN fifo
             /\ wedged \subseteq DOMAIN fifo

(* NothingLeaks, from both sides: a port's lcore receives mbufs of its own *)
(* pool only, and none of them is lost unless the pool is spoiled.         *)
Homes == \A p \in Ports : pool[p] \subseteq Mbuf(p) /\ Range(bufs[p]) \subseteq Mbuf(p)
Whole == \A p \in Ports \ spoiled : \A m \in Mbuf(p) :
           m \in pool[p] \/ m \in Range(bufs[p]) \/ \E w \in Worker : m \in putting[w]

(* An lcore not launched holds no burst; a secondary that is gone left none. *)
Launched == /\ \A w \in Worker : w \notin loop.used => work[w] = <<"off">>
            /\ sec \in {"off", "exit"} => \A w \in Worker : work[w] = <<"off">>

ShareInv == /\ PrimTypes /\ MemTypes /\ CountTypes /\ SecTypes /\ WorkTypes
            /\ Homes /\ Whole /\ Rings /\ Polled /\ RingsOfPorts /\ Hands /\ Launched

LEMMA ShareTypes == ShareInv => TypeOK
  BY DEF ShareInv, TypeOK, PrimTypes, MemTypes, CountTypes, SecTypes, WorkTypes

LEMMA MbufFacts ==
  /\ \A p \in Ports : \A m \in Mbuf(p) : PortOf(m) = p /\ m \in AllMbufs
  /\ \A m \in AllMbufs : PortOf(m) \in Ports /\ m \in Mbuf(PortOf(m))
  BY DEF Mbuf, AllMbufs, PortOf

LEMMA BufsFacts ==
  ASSUME ShareInv, NEW p \in Ports
  PROVE  /\ bufs[p] \in Seq(AllMbufs) /\ Range(bufs[p]) \subseteq Mbuf(p)
         /\ pool[p] \subseteq Mbuf(p)
  BY DEF ShareInv, MemTypes, Homes

LEMMA WholeFacts == ShareInv => NothingLeaks
<1> SUFFICES ASSUME ShareInv, NEW p \in Ports \ spoiled
             PROVE  pool[p] \cup Range(bufs[p]) \cup BeingPut(p) = Mbuf(p)
  BY DEF NothingLeaks
<1>1. \A m \in BeingPut(p) : m \in Mbuf(p)
  <2>1. rx[p] = "put" => Head(bufs[p]) \in Range(bufs[p])
    BY BufsFacts, HeadFacts DEF ShareInv, Polled
  <2>2. \A w \in Worker : \A m \in putting[w] : PortOf(m) = p => m \in Mbuf(p)
    BY MbufFacts DEF ShareInv, WorkTypes
  <2>3. QED
    BY <2>1, <2>2, BufsFacts DEF BeingPut
<1>2. \A w \in Worker : \A m \in putting[w] : m \in Mbuf(p) => m \in BeingPut(p)
  BY MbufFacts DEF BeingPut
<1>3. QED
  BY <1>1, <1>2, BufsFacts DEF ShareInv, Whole

LEMMA CreatedFacts ==
  ASSUME NEW n \in Nat
  PROVE  /\ CreatedFifos(n + 1) = CreatedFifos(n) \cup {<<0, n>>}
         /\ <<0, n>> \notin CreatedFifos(n)
         /\ \A f \in CreatedFifos(n) : f \in Fifo /\ f[1] = 0
<1>1. \A k : k \in 0 .. (n + 1) - 1 <=> k \in 0 .. n - 1 \/ k = n
  OBVIOUS
<1>2. 0 \in Node
  BY ShareAssumption DEF Node
<1>3. QED
  BY <1>1, <1>2 DEF CreatedFifos, Fifo

LEMMA NotLaunched ==
  ASSUME ShareInv, NEW w \in Worker, work[w] = <<"off">> \/ work[w] = <<"launched">>
  PROVE  hand[w] = <<>> /\ Len(hand[w]) = 0
<1>1. \A p : RxFifo(p) # <<"off">> /\ RxFifo(p) # <<"launched">>
  BY DEF RxFifo
<1>2. ~(1 \in 1 .. Len(hand[w]))
  BY <1>1 DEF ShareInv, Hands
<1>3. hand[w] \in Seq(AllMbufs)
  BY DEF ShareInv, WorkTypes
<1>4. QED
  BY <1>2, <1>3

LEMMA InitInv == Init => ShareInv
<1> SUFFICES ASSUME Init PROVE ShareInv
  OBVIOUS
<1> USE DEF Init
<1>1. DOMAIN fifo = {} /\ fifo = <<>>
  OBVIOUS
<1>2. fifo \in [DOMAIN fifo -> Seq(AllMbufs)]
  BY <1>1
<1>3. IsFiniteSet(DOMAIN fifo) /\ DOMAIN fifo = CreatedFifos(Count(DOMAIN fifo))
  BY <1>1, FS_EmptySet DEF CreatedFifos, Count
<1>4. Rings
  BY <1>1, <1>2, <1>3 DEF Rings
<1>5. \A p \in Ports : Mbuf(p) \subseteq AllMbufs
  BY DEF AllMbufs
<1>6. loop \in [index : 0 .. NumNodes, j : Nat, argPort : Nat, ret : {-1, 0, 1},
                used : SUBSET Worker]
  BY ShareAssumption DEF Idle
<1>7. PrimTypes /\ MemTypes /\ CountTypes /\ SecTypes /\ WorkTypes
  <2>1. PrimTypes
    BY <1>1 DEF PrimTypes
  <2>2. MemTypes
    BY <1>1, <1>5 DEF MemTypes
  <2>3. CountTypes
    BY DEF CountTypes
  <2>4. SecTypes
    <3>1. DOMAIN work = Worker /\ \A w \in Worker : work[w] = <<"off">>
      OBVIOUS
    <3>2. starts \in 0 .. MaxStarts /\ sec = "off"
      <4>1. MaxStarts \in Nat /\ starts = 0 /\ sec = "off"
        BY ShareAssumption
      <4>2. QED
        BY <4>1
    <3>3. early \in BOOLEAN
      BY Zenon
    <3> HIDE DEF Init
    <3>4. QED
      BY <1>6, <3>1, <3>2, <3>3 DEF SecTypes
  <2>5. WorkTypes
    BY DEF WorkTypes
  <2>6. QED
    BY <2>1, <2>2, <2>3, <2>4, <2>5
<1>8. Homes /\ Whole
  BY RangeOf DEF Homes, Whole, Range
<1>9. Polled /\ RingsOfPorts /\ Hands /\ Launched
  BY <1>1 DEF Polled, RingsOfPorts, Hands, Launched
<1>10. QED
  BY <1>4, <1>7, <1>8, <1>9 DEF ShareInv

-----------------------------------------------------------------------------
(* The steps                                                               *)

(* What the invariant says of the rings and the machine is kept by steps   *)
(* that leave them, the bursts and the pools alone.                        *)
LEMMA MemKept ==
  ASSUME ShareInv, spoiled' \subseteq Ports,
         UNCHANGED <<layout, fifo, bufs, pool, nic, dropped, non_ip>>
  PROVE  Homes' /\ Rings' /\ RingsOfPorts' /\ CountTypes' /\ MemTypes'
<1>1. \A p : RxFifo(p)' = RxFifo(p)
  BY DEF RxFifo
<1>2. \A p : Mbuf(p)' = Mbuf(p)
  BY DEF Mbuf
<1>3. QED
  BY <1>1, <1>2
     DEF ShareInv, Homes, Rings, RingsOfPorts, CountTypes, MemTypes

(* Memory is kept whole by steps that leave bursts, pools and puts alone.  *)
LEMMA WholeKept ==
  ASSUME ShareInv, UNCHANGED <<bufs, pool, spoiled, putting>>
  PROVE  Whole'
<1>1. \A p : Mbuf(p)' = Mbuf(p)
  BY DEF Mbuf
<1>2. QED
  BY <1>1 DEF ShareInv, Whole

LEMMA PrimStep ==
  ASSUME ShareInv, ReserveZone \/ PrimReady \/ \E p \in Ports : CountPort(p) \/ StartRx(p)
  PROVE  ShareInv'
<1>1. UNCHANGED <<layout, fifo, secVars, fetchVars, memVars, nic, workVars>>
  BY DEF ReserveZone, PrimReady, CountPort, StartRx
<1>2. UNCHANGED <<layout, fifo, bufs, pool, spoiled, nic, dropped, non_ip>>
      /\ UNCHANGED <<sec, loop, work, starts, early>>
      /\ UNCHANGED <<hand, taking, wedged, frees, putting>>
  BY <1>1 DEF secVars, fetchVars, memVars, workVars
<1>3. Fast' = Fast /\ \A p : RxFifo(p)' = RxFifo(p)
  BY <1>2 DEF Fast, RxFifo
<1>4. /\ pc' \in {"reserve", "count", "fifo", "rx", "run", "dead"}
      /\ known' \subseteq Fast
      /\ rx' \in [Ports -> {"off", "poll", "free", "put", "down"}]
  BY DEF ShareInv, PrimTypes, ReserveZone, PrimReady, CountPort, StartRx
<1>5. PrimTypes'
  BY <1>2, <1>3, <1>4 DEF ShareInv, PrimTypes
<1>6. SecTypes' /\ WorkTypes' /\ Launched' /\ Hands'
  BY <1>2, <1>3 DEF ShareInv, SecTypes, WorkTypes, Launched, Hands
<1>7. \A p \in Ports : rx'[p] \in {"poll", "free", "put"} =>
        \/ rx[p] = rx'[p]
        \/ rx'[p] = "poll" /\ RxFifo(p) \in DOMAIN fifo
  BY DEF ShareInv, PrimTypes, ReserveZone, PrimReady, CountPort, StartRx
<1>8. Polled'
  BY <1>2, <1>3, <1>7 DEF ShareInv, Polled
<1>9. spoiled' \subseteq Ports
  BY <1>2 DEF ShareInv, MemTypes
<1>10. QED
  BY <1>2, <1>5, <1>6, <1>8, <1>9, MemKept, WholeKept DEF ShareInv

LEMMA CreateStep == ASSUME ShareInv, CreateFifo PROVE ShareInv'
<1> DEFINE n == Count(DOMAIN fifo)
<1>1. n \in Nat /\ DOMAIN fifo = CreatedFifos(n) /\ IsFiniteSet(DOMAIN fifo)
  BY FS_CardinalityType DEF ShareInv, Rings, Count
<1>2. fifo' = [f \in CreatedFifos(n + 1) |-> <<>>] /\ DOMAIN fifo' = CreatedFifos(n + 1)
  BY DEF CreateFifo
<1>3. /\ UNCHANGED <<layout, known, rx, bufs, pool, spoiled, nic, dropped, non_ip>>
      /\ UNCHANGED <<sec, loop, work, starts, early>>
      /\ UNCHANGED <<hand, taking, wedged, frees, putting>>
      /\ pc' \in {"fifo", "rx"}
  BY DEF CreateFifo, secVars, fetchVars, memVars, workVars
<1>4. /\ DOMAIN fifo' = DOMAIN fifo \cup {<<0, n>>} /\ <<0, n>> \notin DOMAIN fifo
      /\ \A f \in DOMAIN fifo' : f \in Fifo /\ f[1] = 0
  <2>1. n + 1 \in Nat
    BY <1>1
  <2> HIDE DEF n
  <2>2. QED
    BY <1>1, <1>2, <2>1, CreatedFacts
<1>5. IsFiniteSet(DOMAIN fifo') /\ Count(DOMAIN fifo') = n + 1
  BY <1>1, <1>4, FS_AddElement DEF Count
<1> HIDE DEF n
<1>6. \A f \in DOMAIN fifo' : fifo'[f] = <<>>
  BY <1>2
<1>7. RingSize \in Nat \ {0, 1}
  BY ShareAssumption
<1>8. \A f \in DOMAIN fifo' : fifo'[f] \in Seq(AllMbufs) /\ Len(fifo'[f]) < RingSize
  <2>1. <<>> \in Seq(AllMbufs) /\ Len(<<>>) = 0
    OBVIOUS
  <2>2. 0 < RingSize
    BY <1>7
  <2>3. \A s : s = <<>> => s \in Seq(AllMbufs) /\ Len(s) < RingSize
    BY <2>1, <2>2
  <2>4. QED
    BY <1>6, <2>3
<1>9. Rings'
  BY <1>2, <1>5, <1>8 DEF Rings
<1>10. Fast' = Fast /\ \A p : RxFifo(p)' = RxFifo(p)
  BY <1>3 DEF Fast, RxFifo
<1>11. PrimTypes'
  BY <1>3, <1>4, <1>10 DEF ShareInv, PrimTypes
<1>12. MemTypes' /\ CountTypes'
  BY <1>3, <1>8 DEF ShareInv, MemTypes, CountTypes
<1>13. SecTypes' /\ Launched'
  BY <1>3, <1>4 DEF ShareInv, SecTypes, Launched
<1>14. Hands' /\ Polled' /\ WorkTypes' /\ Homes' /\ Whole'
  <2>1. Hands' /\ Polled' /\ WorkTypes'
    BY <1>3, <1>4, <1>10 DEF ShareInv, Hands, Polled, WorkTypes
  <2>2. Homes'
    BY <1>3 DEF ShareInv, Homes, Mbuf
  <2>3. QED
    BY <1>3, <2>1, <2>2, WholeKept
<1>15. RingsOfPorts'
  BY <1>6 DEF RingsOfPorts
<1>16. QED
  BY <1>9, <1>11, <1>12, <1>13, <1>14, <1>15 DEF ShareInv


(* Steps of the secondary's bring-up: they touch no memory, and launch     *)
(* lcores that hold nothing.                                               *)
LEMMA SecKept ==
  ASSUME ShareInv, UNCHANGED <<primVars, fetchVars, pool, nic>>, spoiled' \subseteq Ports,
         SecTypes', WorkTypes', Launched', Hands', Whole'
  PROVE  ShareInv'
<1>1. /\ UNCHANGED <<layout, fifo, bufs, pool, nic, dropped, non_ip>>
      /\ UNCHANGED <<pc, known, rx>>
  BY DEF primVars, fetchVars
<1>2. Fast' = Fast /\ \A p : RxFifo(p)' = RxFifo(p)
  BY <1>1 DEF Fast, RxFifo
<1>3. PrimTypes' /\ Polled'
  BY <1>1, <1>2 DEF ShareInv, PrimTypes, Polled
<1>4. QED
  BY <1>1, <1>3, MemKept DEF ShareInv

(* The secondary is gone: an mbuf a worker was putting is lost, with a     *)
(* pool that is spoiled from then on.                                      *)
LEMMA GoneFacts ==
  ASSUME ShareInv, UNCHANGED <<primVars, fetchVars, pool, nic, starts, early>>,
         NEW end \in {"off", "exit"}, Gone(end)
  PROVE  ShareInv'
<1>1. /\ sec' = end /\ loop' = Idle /\ UNCHANGED <<starts, early>>
      /\ DOMAIN work' = Worker /\ \A w \in Worker : work'[w] = <<"off">>
      /\ hand' = [w \in Worker |-> <<>>] /\ taking' = {}
      /\ wedged' = wedged \cup {work[w] : w \in taking}
      /\ frees' = [w \in Worker |-> {}] /\ putting' = [w \in Worker |-> {}]
      /\ spoiled' = spoiled \cup {PortOf(m) : m \in UNION {putting[w] : w \in Worker}}
  BY DEF Gone
<1>2. loop' \in [index : 0 .. NumNodes, j : Nat, argPort : Nat, ret : {-1, 0, 1},
                 used : SUBSET Worker]
  BY <1>1, ShareAssumption DEF Idle
<1>3. SecTypes'
  BY <1>1, <1>2 DEF ShareInv, SecTypes
<1>4. UNCHANGED <<fifo, bufs, pool>>
  BY DEF primVars, fetchVars
<1>5. Launched' /\ Hands' /\ WorkTypes'
  <2>1. \A w \in Worker : hand'[w] = <<>> /\ Len(hand'[w]) = 0
    BY <1>1
  <2>2. hand' \in [Worker -> Seq(AllMbufs)]
    BY <1>1
  <2>3. wedged' \subseteq DOMAIN fifo'
    BY <1>1, <1>4 DEF ShareInv, WorkTypes
  <2>4. WorkTypes'
    BY <1>1, <2>2, <2>3 DEF WorkTypes
  <2>5. QED
    BY <1>1, <2>1, <2>4 DEF Launched, Hands
<1>6. spoiled' \subseteq Ports
  <2>1. \A w \in Worker : \A m \in putting[w] : PortOf(m) \in Ports
    BY MbufFacts DEF ShareInv, WorkTypes
  <2>2. QED
    BY <1>1, <2>1 DEF ShareInv, MemTypes
<1>7. Whole'
  <2>1. ASSUME NEW p \in Ports \ spoiled', NEW m \in Mbuf(p)
        PROVE  m \in pool[p] \/ m \in Range(bufs[p])
    <3>1. p \notin spoiled /\ \A w \in Worker : \A o \in putting[w] : PortOf(o) # p
      BY <1>1, <2>1
    <3>2. PortOf(m) = p
      BY MbufFacts
    <3>3. QED
      BY <3>1, <3>2 DEF ShareInv, Whole
  <2>2. QED
    BY <1>4, <2>1 DEF Whole, Mbuf
<1>8. QED
  BY <1>3, <1>5, <1>6, <1>7, SecKept

(* A step of the secondary that takes or frees nothing.                    *)
LEMMA HoldsKept ==
  ASSUME ShareInv, UNCHANGED <<layout, fifo, bufs, pool, spoiled>>, UNCHANGED workVars,
         \A w \in taking : work'[w] = work[w]
  PROVE  WorkTypes' /\ Whole' /\ spoiled' \subseteq Ports
<1>1. UNCHANGED <<hand, taking, wedged, frees, putting>>
  BY DEF workVars
<1>2. WorkTypes'
  BY <1>1 DEF ShareInv, WorkTypes
<1>3. spoiled' \subseteq Ports
  BY DEF ShareInv, MemTypes
<1>4. QED
  BY <1>1, <1>2, <1>3, WholeKept

LEMMA LaunchStep ==
  ASSUME ShareInv, NEW w \in Worker, Launch(w)
  PROVE  ShareInv'
<1> DEFINE L == [index : 0 .. NumNodes, j : Nat, argPort : Nat, ret : {-1, 0, 1},
                 used : SUBSET Worker]
<1>1. /\ w \notin loop.used /\ loop \in L
      /\ loop' = [loop EXCEPT !.argPort = loop.j, !.j = @ + 1, !.ret = 0,
                              !.used = @ \cup {w}]
      /\ work' = [work EXCEPT ![w] = <<"launched">>]
      /\ UNCHANGED <<sec, starts, early, fifo, hand>> /\ sec = "launch"
      /\ UNCHANGED <<primVars, fetchVars, pool, spoiled, nic, workVars>>
  BY DEF Launch, Free, ShareInv, SecTypes, primVars, memVars, workVars
<1>2. loop' \in L /\ loop'.used = loop.used \cup {w}
  <2>1. loop' = [index |-> loop.index, j |-> loop.j + 1, argPort |-> loop.j, ret |-> 0,
                 used |-> loop.used \cup {w}]
    BY <1>1
  <2>2. /\ loop.index \in 0 .. NumNodes /\ loop.j \in Nat /\ loop.j + 1 \in Nat
        /\ loop.used \cup {w} \in SUBSET Worker
    BY <1>1
  <2>3. QED
    BY <2>1, <2>2
<1>3. \A v \in Worker : work'[v] = IF v = w THEN <<"launched">> ELSE work[v]
  BY <1>1 DEF ShareInv, SecTypes
<1>4. SecTypes'
  BY <1>1, <1>2, <1>3 DEF ShareInv, SecTypes
<1>5. Launched'
  BY <1>1, <1>2, <1>3 DEF ShareInv, Launched
<1>6. hand[w] = <<>> /\ Len(hand[w]) = 0
  BY <1>1, NotLaunched DEF ShareInv, Launched
<1>7. Hands'
  <2>1. \A p : RxFifo(p)' = RxFifo(p)
    BY <1>1 DEF primVars, RxFifo
  <2>2. QED
    BY <1>1, <1>3, <1>6, <2>1 DEF ShareInv, Hands
<1>8. \A v \in taking : work'[v] = work[v]
  <2>1. work[w] = <<"off">>
    BY <1>1 DEF ShareInv, Launched
  <2>2. \A g \in DOMAIN fifo : g # <<"off">>
    BY DEF ShareInv, PrimTypes, Fifo
  <2>3. QED
    BY <1>1, <1>3, <2>1, <2>2 DEF ShareInv, WorkTypes
<1>9. WorkTypes' /\ Whole' /\ spoiled' \subseteq Ports
  BY <1>1, <1>8, HoldsKept DEF primVars, fetchVars
<1>10. QED
  BY <1>1, <1>4, <1>5, <1>7, <1>9, SecKept

LEMMA SecStep ==
  ASSUME ShareInv, SecStart \/ NextNode \/ SecReady \/ SecCrash
  PROVE  ShareInv'
<1> DEFINE L == [index : 0 .. NumNodes, j : Nat, argPort : Nat, ret : {-1, 0, 1},
                 used : SUBSET Worker]
<1>1. UNCHANGED <<primVars, fetchVars, pool, nic>>
  BY DEF SecStart, NextNode, SecReady, SecCrash, memVars
<1>2. CASE SecCrash \/ (SecReady /\ Gone("exit"))
  BY <1>1, <1>2, GoneFacts DEF SecCrash, SecReady
<1>3. ASSUME UNCHANGED <<work, spoiled, workVars>>, SecTypes', Launched'
      PROVE  ShareInv'
  <2>1. \A p : RxFifo(p)' = RxFifo(p)
    BY <1>1 DEF primVars, RxFifo
  <2>2. Hands'
    BY <1>3, <2>1 DEF ShareInv, Hands, workVars
  <2>3. WorkTypes' /\ Whole' /\ spoiled' \subseteq Ports
    BY <1>1, <1>3, HoldsKept DEF primVars, fetchVars
  <2>4. QED
    BY <1>1, <1>3, <2>2, <2>3, SecKept
<1>4. CASE SecReady /\ sec' = "run" /\ UNCHANGED <<loop, work, spoiled, workVars>>
  <2>1. SecTypes' /\ Launched'
    BY <1>1, <1>4 DEF ShareInv, SecReady, SecTypes, Launched, primVars
  <2>2. QED
    BY <1>3, <1>4, <2>1
<1>5. CASE SecStart
  <2>1. /\ \A w \in Worker : work[w] = <<"off">>
        /\ sec' = "launch" /\ loop' = Idle /\ UNCHANGED <<work, spoiled, workVars, fifo>>
        /\ starts' = starts + 1 /\ starts < MaxStarts
    BY <1>5 DEF SecStart, ShareInv, Launched, primVars, memVars
  <2>2. loop' \in L
    BY <2>1, ShareAssumption DEF Idle
  <2>3. starts' \in 0 .. MaxStarts
    <3>1. starts \in 0 .. MaxStarts /\ MaxStarts \in Nat
      BY ShareAssumption DEF ShareInv, SecTypes
    <3>2. QED
      BY <2>1, <3>1
  <2>4. early' \in BOOLEAN
    <3>1. early' = (pc \in {"count", "fifo"})
      BY <1>5 DEF SecStart
    <3>2. (pc \in {"count", "fifo"}) \in BOOLEAN
      OBVIOUS
    <3>3. QED
      BY <3>1, <3>2
  <2>5. SecTypes'
    BY <2>1, <2>2, <2>3, <2>4 DEF ShareInv, SecTypes
  <2>6. Launched'
    BY <2>1 DEF Launched
  <2>7. QED
    BY <1>3, <2>1, <2>5, <2>6
<1>6. CASE NextNode
  <2>1. /\ loop \in L /\ loop.index \in 0 .. NumNodes - 1 /\ NumNodes \in Nat
        /\ UNCHANGED <<sec, work, spoiled, workVars, fifo, starts, early>>
    BY <1>6, ShareAssumption DEF NextNode, Node, ShareInv, SecTypes, primVars, memVars
  <2>2. loop' = [loop EXCEPT
                   !.index = @ + 1, !.j = 0,
                   !.argPort = IF loop.index < NumNodes - 1 THEN 0 ELSE @,
                   !.ret = IF NodeHasPorts /\ ~EnoughCores THEN -1 ELSE @]
    BY <1>6 DEF NextNode
  <2>3. loop' \in L /\ loop'.used = loop.used
    <3> DEFINE a == IF loop.index < NumNodes - 1 THEN 0 ELSE loop.argPort
               r == IF NodeHasPorts /\ ~EnoughCores THEN -1 ELSE loop.ret
    <3>1. loop' = [index |-> loop.index + 1, j |-> 0, argPort |-> a, ret |-> r,
                   used |-> loop.used]
      BY <2>1, <2>2
    <3>2. loop.argPort \in Nat /\ loop.ret \in {-1, 0, 1} /\ loop.used \in SUBSET Worker
      BY <2>1
    <3>3. a \in Nat /\ r \in {-1, 0, 1}
      BY <3>2
    <3>4. loop.index + 1 \in 0 .. NumNodes
      BY <2>1
    <3> HIDE DEF a, r
    <3>5. QED
      BY <3>1, <3>2, <3>3, <3>4
  <2>4. SecTypes' /\ Launched'
    BY <2>1, <2>3 DEF ShareInv, SecTypes, Launched
  <2>5. QED
    BY <1>3, <2>1, <2>4
<1>7. QED
  BY <1>2, <1>4, <1>5, <1>6 DEF SecReady

LEMMA BeginStep == ASSUME ShareInv, NEW w \in Worker, Begin(w) PROVE ShareInv'
<1> DEFINE f == <<SocketOf[w], loop.argPort>>
<1>1. /\ work[w] = <<"launched">> /\ UNCHANGED <<primVars, starts, early, fetchVars, pool, nic>>
      /\ \/ /\ f \in DOMAIN fifo /\ work' = [work EXCEPT ![w] = f]
            /\ UNCHANGED <<sec, loop, spoiled, workVars>>
         \/ Gone("exit")
  BY DEF Begin
<1> HIDE DEF f
<1>2. CASE Gone("exit")
  BY <1>1, <1>2, GoneFacts
<1>3. CASE /\ f \in DOMAIN fifo /\ work' = [work EXCEPT ![w] = f]
           /\ UNCHANGED <<sec, loop, spoiled, workVars>>
  <2>1. /\ \A v \in Worker : work'[v] = IF v = w THEN f ELSE work[v]
        /\ DOMAIN work' = Worker
    BY <1>3 DEF ShareInv, SecTypes
  <2>2. UNCHANGED fifo /\ \A p : RxFifo(p)' = RxFifo(p)
    BY <1>1 DEF primVars, RxFifo
  <2>3. hand[w] = <<>> /\ Len(hand[w]) = 0
    BY <1>1, NotLaunched
  <2>4. SecTypes'
    BY <1>1, <1>3, <2>1, <2>2 DEF ShareInv, SecTypes
  <2>5. \A v \in Worker : work[v] = <<"off">> => v # w
    BY <1>1
  <2>6. Launched'
    BY <1>3, <2>1, <2>5 DEF ShareInv, Launched
  <2>7. Hands'
    BY <1>3, <2>1, <2>2, <2>3 DEF ShareInv, Hands, workVars
  <2>8. \A v \in taking : work'[v] = work[v]
    <3>1. \A g \in DOMAIN fifo : g # <<"launched">>
      BY DEF ShareInv, PrimTypes, Fifo
    <3>2. QED
      BY <1>1, <2>1, <3>1 DEF ShareInv, WorkTypes
  <2>9. WorkTypes' /\ Whole' /\ spoiled' \subseteq Ports
    BY <1>1, <1>3, <2>8, HoldsKept DEF primVars, fetchVars
  <2>10. QED
    BY <1>1, <2>4, <2>6, <2>7, <2>9, SecKept
<1>4. QED
  BY <1>1, <1>2, <1>3


(* The fetching lcores.                                                    *)
(* What the workers have is kept by steps that leave them alone.           *)
LEMMA WorkersKept ==
  ASSUME ShareInv, UNCHANGED <<secVars, workVars>>, DOMAIN fifo' = DOMAIN fifo,
         UNCHANGED layout
  PROVE  SecTypes' /\ WorkTypes' /\ Launched' /\ Hands'
<1>1. /\ UNCHANGED <<sec, loop, work, starts, early>>
      /\ UNCHANGED <<hand, taking, wedged, frees, putting>>
  BY DEF secVars, workVars
<1>2. \A p : RxFifo(p)' = RxFifo(p)
  BY DEF RxFifo
<1>3. QED
  BY <1>1, <1>2 DEF ShareInv, SecTypes, WorkTypes, Launched, Hands

LEMMA ReceiveStep ==
  ASSUME ShareInv, NEW p \in Ports, NEW ms \in Bursts(p), Receive(p, ms)
  PROVE  ShareInv'
<1>1. /\ rx[p] = "poll" /\ bufs[p] = <<>>
      /\ bufs' = [bufs EXCEPT ![p] = ms]
      /\ pool' = [pool EXCEPT ![p] = @ \ Range(ms)]
      /\ UNCHANGED <<primVars, secVars, dropped, non_ip, spoiled, nic, workVars>>
  BY DEF Receive
<1>2. /\ UNCHANGED <<layout, fifo, nic, dropped, non_ip, spoiled, pc, known, rx>>
      /\ UNCHANGED putting
  BY <1>1 DEF primVars, workVars
<1>3. Fast' = Fast /\ \A q : RxFifo(q)' = RxFifo(q)
  BY <1>2 DEF Fast, RxFifo
<1>4. ms \in Seq(AllMbufs) /\ Range(ms) \subseteq Mbuf(p)
  <2>1. PICK n \in 1 .. RxBurst : ms \in [1 .. n -> Mbuf(p)]
    BY DEF Bursts
  <2>2. n \in Nat
    BY <2>1, ShareAssumption
  <2>3. \A m \in Mbuf(p) : m \in AllMbufs
    BY MbufFacts
  <2>4. ms \in [1 .. n -> AllMbufs]
    BY <2>1, <2>3
  <2>5. ms \in Seq(AllMbufs)
    BY <2>2, <2>4
  <2>6. Range(ms) \subseteq Mbuf(p)
    BY <2>1 DEF Range
  <2>7. QED
    BY <2>5, <2>6
<1>5. bufs \in [Ports -> Seq(AllMbufs)] /\ pool \in [Ports -> SUBSET AllMbufs]
  BY DEF ShareInv, MemTypes
<1>6. /\ \A q \in Ports : bufs'[q] = IF q = p THEN ms ELSE bufs[q]
      /\ \A q \in Ports : pool'[q] = IF q = p THEN pool[p] \ Range(ms) ELSE pool[q]
  BY <1>1, <1>5
<1>7. MemTypes'
  <2>1. bufs' \in [Ports -> Seq(AllMbufs)]
    BY <1>1, <1>4, <1>5
  <2>2. pool' \in [Ports -> SUBSET AllMbufs]
    BY <1>1, <1>5
  <2>3. QED
    BY <1>2, <2>1, <2>2 DEF ShareInv, MemTypes
<1>8. \A q : Mbuf(q)' = Mbuf(q)
  BY DEF Mbuf
<1>9. Homes'
  BY <1>4, <1>6, <1>8 DEF ShareInv, Homes
<1>10. Whole'
  <2>1. Range(bufs[p]) = {}
    BY <1>1 DEF Range
  <2>2. QED
    BY <1>2, <1>6, <1>8, <2>1 DEF ShareInv, Whole
<1>11. Polled'
  BY <1>1, <1>2, <1>3, <1>6 DEF ShareInv, Polled
<1>12. PrimTypes' /\ CountTypes' /\ Rings' /\ RingsOfPorts'
  BY <1>2, <1>3 DEF ShareInv, PrimTypes, CountTypes, Rings, RingsOfPorts
<1>13. SecTypes' /\ WorkTypes' /\ Launched' /\ Hands'
  BY <1>1, <1>2, WorkersKept
<1>14. QED
  BY <1>7, <1>9, <1>10, <1>11, <1>12, <1>13 DEF ShareInv

(* A ring's contents change, the set of rings does not.                    *)
LEMMA FifoChange ==
  ASSUME ShareInv, NEW f \in DOMAIN fifo, NEW s \in Seq(AllMbufs), Len(s) < RingSize,
         \A k \in 1 .. Len(s) : RxFifo(PortOf(s[k])) = f,
         fifo' = [fifo EXCEPT ![f] = s], UNCHANGED layout
  PROVE  Rings' /\ RingsOfPorts' /\ DOMAIN fifo' = DOMAIN fifo
         /\ \A g \in DOMAIN fifo' : fifo'[g] \in Seq(AllMbufs) /\ Len(fifo'[g]) < RingSize
<1>1. DOMAIN fifo' = DOMAIN fifo
  OBVIOUS
<1>2. \A g \in DOMAIN fifo : fifo'[g] = IF g = f THEN s ELSE fifo[g]
  OBVIOUS
<1>3. \A p : RxFifo(p)' = RxFifo(p)
  BY DEF RxFifo
<1>4. \A g \in DOMAIN fifo' : fifo'[g] \in Seq(AllMbufs) /\ Len(fifo'[g]) < RingSize
  BY <1>1, <1>2 DEF ShareInv, MemTypes
<1>5. fifo' \in [DOMAIN fifo' -> Seq(AllMbufs)]
  BY <1>1 DEF ShareInv, Rings
<1>6. Rings'
  BY <1>1, <1>4, <1>5 DEF ShareInv, Rings
<1>7. RingsOfPorts'
  BY <1>1, <1>2, <1>3 DEF ShareInv, RingsOfPorts
<1>8. QED
  BY <1>1, <1>4, <1>6, <1>7

LEMMA OfferStep ==
  ASSUME ShareInv, NEW p \in Ports, Offer(p)
  PROVE  ShareInv'
<1> DEFINE m == Head(bufs[p])
           f == RxFifo(p)
<1>1. /\ rx[p] = "poll" /\ bufs[p] # <<>>
      /\ non_ip' = [non_ip EXCEPT ![p] = @ + 1] /\ rx' = [rx EXCEPT ![p] = "free"]
      /\ \/ HasRoom(f) /\ fifo' = [fifo EXCEPT ![f] = Append(fifo[f], m)]
         \/ UNCHANGED fifo
      /\ UNCHANGED <<layout, pc, known, secVars, bufs, dropped, memVars, nic, workVars>>
  BY DEF Offer, Enqueue
<1>2. UNCHANGED <<pool, spoiled, putting>>
  BY <1>1 DEF memVars, workVars
<1>3. Fast' = Fast /\ \A q : RxFifo(q)' = RxFifo(q)
  BY <1>1 DEF Fast, RxFifo
<1>4. f \in DOMAIN fifo
  BY <1>1 DEF ShareInv, Polled
<1>5. m \in AllMbufs /\ PortOf(m) = p
  <2>1. bufs[p] \in Seq(AllMbufs) /\ Range(bufs[p]) \subseteq Mbuf(p)
    BY BufsFacts
  <2>2. m \in Range(bufs[p])
    BY <1>1, <2>1, HeadFacts
  <2>3. QED
    BY <2>1, <2>2, MbufFacts
<1>6. /\ Rings' /\ RingsOfPorts' /\ DOMAIN fifo' = DOMAIN fifo
      /\ \A g \in DOMAIN fifo' : fifo'[g] \in Seq(AllMbufs) /\ Len(fifo'[g]) < RingSize
  <2>1. CASE UNCHANGED fifo
    BY <1>3, <2>1 DEF ShareInv, Rings, RingsOfPorts, MemTypes
  <2>2. CASE HasRoom(f) /\ fifo' = [fifo EXCEPT ![f] = Append(fifo[f], m)]
    <3> DEFINE s == Append(fifo[f], m)
    <3>1. fifo[f] \in Seq(AllMbufs) /\ Len(fifo[f]) < RingSize - 1 /\ Len(fifo[f]) \in Nat
      BY <1>4, <2>2 DEF HasRoom, ShareInv, MemTypes
    <3>2. /\ s \in Seq(AllMbufs) /\ Len(s) = Len(fifo[f]) + 1
          /\ \A k \in 1 .. Len(s) : s[k] = m \/ (k \in 1 .. Len(fifo[f]) /\ s[k] = fifo[f][k])
      BY <1>5, <3>1
    <3>3. Len(s) < RingSize
      BY <3>1, <3>2, ShareAssumption
    <3>4. \A k \in 1 .. Len(s) : RxFifo(PortOf(s[k])) = f
      BY <1>4, <1>5, <3>2 DEF ShareInv, RingsOfPorts
    <3> HIDE DEF s, m, f
    <3>5. fifo' = [fifo EXCEPT ![f] = s]
      BY <2>2 DEF s
    <3>6. QED
      BY <1>1, <1>4, <3>2, <3>3, <3>4, <3>5, FifoChange
  <2>3. QED
    BY <1>1, <2>1, <2>2
<1> HIDE DEF m, f
<1>7. rx' \in [Ports -> {"off", "poll", "free", "put", "down"}]
      /\ \A q \in Ports : rx'[q] = IF q = p THEN "free" ELSE rx[q]
  BY <1>1 DEF ShareInv, PrimTypes
<1>8. PrimTypes'
  BY <1>1, <1>3, <1>6, <1>7 DEF ShareInv, PrimTypes
<1>9. MemTypes' /\ Homes' /\ Whole'
  <2>1. MemTypes'
    BY <1>1, <1>2, <1>6 DEF ShareInv, MemTypes
  <2>2. Homes'
    BY <1>1, <1>2 DEF ShareInv, Homes, Mbuf
  <2>3. QED
    BY <1>1, <1>2, <2>1, <2>2, WholeKept
<1>10. CountTypes'
  BY <1>1 DEF ShareInv, CountTypes
<1>11. SecTypes' /\ WorkTypes' /\ Launched' /\ Hands'
  BY <1>1, <1>6, WorkersKept
<1>12. Polled'
  BY <1>1, <1>3, <1>6, <1>7 DEF ShareInv, Polled
<1>13. QED
  BY <1>6, <1>8, <1>9, <1>10, <1>11, <1>12 DEF ShareInv

(* The lcore turns to its next frame: the one it held is on its way to the *)
(* pool, by another's put, or in it by now.                                *)
LEMMA NextFrameStep ==
  ASSUME ShareInv, NEW p \in Ports, rx[p] \in {"free", "put"}, NextFrame(p),
         UNCHANGED <<layout, pc, known, fifo, secVars, non_ip, nic, workVars>>,
         pool' \in [Ports -> SUBSET AllMbufs], spoiled' \subseteq Ports,
         spoiled \subseteq spoiled',
         \A q \in Ports : pool[q] \subseteq pool'[q] /\ pool'[q] \subseteq Mbuf(q),
         \/ p \in spoiled' \/ Head(bufs[p]) \in pool'[p]
         \/ \E w \in Worker : Head(bufs[p]) \in putting[w]
  PROVE  ShareInv'
<1> DEFINE m == Head(bufs[p])
<1>1. /\ rx' = [rx EXCEPT ![p] = "poll"] /\ bufs' = [bufs EXCEPT ![p] = Tail(bufs[p])]
      /\ dropped' = [dropped EXCEPT ![p] = @ + 1]
  BY DEF NextFrame
<1>2. UNCHANGED putting
  BY DEF workVars
<1>3. Fast' = Fast /\ (\A q : RxFifo(q)' = RxFifo(q)) /\ (\A q : Mbuf(q)' = Mbuf(q))
  BY DEF Fast, RxFifo, Mbuf
<1>4. /\ bufs[p] \in Seq(AllMbufs) /\ bufs[p] # <<>>
      /\ bufs \in [Ports -> Seq(AllMbufs)]
  BY DEF ShareInv, Polled, MemTypes
<1>5. Tail(bufs[p]) \in Seq(AllMbufs)
      /\ Range(bufs[p]) = Range(Tail(bufs[p])) \cup {m}
  BY <1>4, HeadFacts
<1>6. p \in spoiled' \/ m \in pool'[p] \/ \E w \in Worker : m \in putting'[w]
  BY <1>2
<1> HIDE DEF m
<1>7. /\ bufs' \in [Ports -> Seq(AllMbufs)]
      /\ \A q \in Ports : bufs'[q] = IF q = p THEN Tail(bufs[p]) ELSE bufs[q]
  BY <1>1, <1>4, <1>5
<1>8. MemTypes'
  BY <1>7 DEF ShareInv, MemTypes
<1>9. Homes'
  BY <1>3, <1>5, <1>7 DEF ShareInv, Homes
<1>10. Whole'
  <2>1. SUFFICES ASSUME NEW q \in Ports \ spoiled', NEW o \in Mbuf(q)
                 PROVE  \/ o \in pool'[q] \/ o \in Range(bufs'[q])
                        \/ \E w \in Worker : o \in putting'[w]
    BY <1>3 DEF Whole
  <2>2. \/ o \in pool[q] \/ o \in Range(bufs[q])
        \/ \E w \in Worker : o \in putting[w]
    BY DEF ShareInv, Whole
  <2>3. o \in pool[q] => o \in pool'[q]
    OBVIOUS
  <2>4. CASE o \in Range(bufs[q])
    BY <1>5, <1>6, <1>7, <2>4
  <2>5. QED
    BY <1>2, <2>2, <2>3, <2>4
<1>11. rx' \in [Ports -> {"off", "poll", "free", "put", "down"}]
      /\ \A q \in Ports : rx'[q] = IF q = p THEN "poll" ELSE rx[q]
  BY <1>1 DEF ShareInv, PrimTypes
<1>12. PrimTypes'
  BY <1>3, <1>11 DEF ShareInv, PrimTypes
<1>13. CountTypes'
  BY <1>1 DEF ShareInv, CountTypes
<1>14. Rings' /\ RingsOfPorts'
  BY <1>3 DEF ShareInv, Rings, RingsOfPorts
<1>15. Polled'
  BY <1>3, <1>7, <1>11 DEF ShareInv, Polled
<1>16. SecTypes' /\ WorkTypes' /\ Launched' /\ Hands'
  BY WorkersKept
<1>17. QED
  BY <1>8, <1>9, <1>10, <1>12, <1>13, <1>14, <1>15, <1>16 DEF ShareInv

LEMMA FreeStep ==
  ASSUME ShareInv, NEW p \in Ports, FreeOffered(p)
  PROVE  ShareInv'
<1> DEFINE m == Head(bufs[p])
<1>1. /\ rx[p] = "free"
      /\ UNCHANGED <<layout, pc, known, fifo, secVars, non_ip, memVars, nic, workVars>>
      /\ \/ CountedOut(m) /\ NextFrame(p)
         \/ rx' = [rx EXCEPT ![p] = "put"] /\ UNCHANGED <<bufs, dropped>>
  BY DEF FreeOffered
<1>2. UNCHANGED <<pool, spoiled, putting>>
  BY <1>1 DEF memVars, workVars
<1>3. /\ pool \in [Ports -> SUBSET AllMbufs] /\ spoiled \subseteq Ports
      /\ \A q \in Ports : pool[q] \subseteq Mbuf(q)
  BY DEF ShareInv, MemTypes, Homes
<1>4. CASE CountedOut(m) /\ NextFrame(p)
  <2>1. PortOf(m) = p
    <3>1. m \in Range(bufs[p])
      BY <1>1, HeadFacts DEF ShareInv, Polled, MemTypes
    <3>2. QED
      BY <3>1, BufsFacts, MbufFacts
  <2>2. p \in spoiled \/ m \in pool[p] \/ \E w \in Worker : m \in putting[w]
    BY <1>1, <1>4, <2>1 DEF CountedOut, BeingPut
  <2>3. QED
    BY <1>1, <1>2, <1>3, <1>4, <2>2, NextFrameStep
<1>5. CASE rx' = [rx EXCEPT ![p] = "put"] /\ UNCHANGED <<bufs, dropped>>
  <2>1. Fast' = Fast /\ \A q : RxFifo(q)' = RxFifo(q)
    BY <1>1 DEF Fast, RxFifo
  <2>2. rx' \in [Ports -> {"off", "poll", "free", "put", "down"}]
        /\ \A q \in Ports : rx'[q] = IF q = p THEN "put" ELSE rx[q]
    BY <1>5 DEF ShareInv, PrimTypes
  <2>3. PrimTypes'
    BY <1>1, <2>1, <2>2 DEF ShareInv, PrimTypes
  <2>4. Polled'
    BY <1>1, <1>5, <2>1, <2>2 DEF ShareInv, Polled
  <2>5. Homes' /\ Rings' /\ RingsOfPorts' /\ CountTypes' /\ MemTypes' /\ Whole'
    BY <1>1, <1>2, <1>3, <1>5, MemKept, WholeKept
  <2>6. SecTypes' /\ WorkTypes' /\ Launched' /\ Hands'
    BY <1>1, WorkersKept
  <2>7. QED
    BY <2>3, <2>4, <2>5, <2>6 DEF ShareInv
<1>6. QED
  BY <1>1, <1>4, <1>5

(* The end of a put: its mbuf is in the pool, which may be spoiled now.    *)
LEMMA EndPutFacts ==
  ASSUME ShareInv, NEW m \in AllMbufs, NEW overlap, EndPut(m, overlap)
  PROVE  /\ pool' \in [Ports -> SUBSET AllMbufs] /\ spoiled' \subseteq Ports
         /\ spoiled \subseteq spoiled' /\ m \in pool'[PortOf(m)]
         /\ \A q \in Ports : pool[q] \subseteq pool'[q] /\ pool'[q] \subseteq Mbuf(q)
<1> DEFINE p == PortOf(m)
<1>1. /\ p \in Ports /\ m \in Mbuf(p) /\ pool \in [Ports -> SUBSET AllMbufs]
      /\ spoiled \subseteq Ports /\ \A q \in Ports : pool[q] \subseteq Mbuf(q)
  BY MbufFacts DEF ShareInv, MemTypes, Homes
<1>2. pool' = [pool EXCEPT ![p] = pool[p] \cup {m}] /\ spoiled' \in {spoiled, spoiled \cup {p}}
  BY DEF EndPut
<1> HIDE DEF p
<1>3. \A q \in Ports : pool'[q] = IF q = p THEN pool[p] \cup {m} ELSE pool[q]
  BY <1>1, <1>2
<1>4. pool' \in [Ports -> SUBSET AllMbufs] /\ spoiled' \subseteq Ports
      /\ spoiled \subseteq spoiled'
  BY <1>1, <1>2
<1>5. m \in pool'[p] /\ \A q \in Ports : pool[q] \subseteq pool'[q] /\ pool'[q] \subseteq Mbuf(q)
  BY <1>1, <1>3
<1>6. QED
  BY <1>4, <1>5 DEF p

LEMMA RxPutStep ==
  ASSUME ShareInv, NEW p \in Ports, RxPutDone(p)
  PROVE  ShareInv'
<1> DEFINE m == Head(bufs[p])
           overlap == \E w \in Worker : \E o \in putting[w] : PortOf(o) = p
<1>1. /\ rx[p] = "put" /\ EndPut(m, overlap) /\ NextFrame(p)
      /\ UNCHANGED <<layout, pc, known, fifo, secVars, non_ip, nic, workVars>>
  BY DEF RxPutDone
<1> HIDE DEF overlap
<1>2. m \in AllMbufs /\ PortOf(m) = p
  <2>1. m \in Range(bufs[p])
    BY <1>1, HeadFacts DEF ShareInv, Polled, MemTypes
  <2>2. QED
    BY <2>1, BufsFacts, MbufFacts
<1>3. /\ pool' \in [Ports -> SUBSET AllMbufs] /\ spoiled' \subseteq Ports
      /\ spoiled \subseteq spoiled' /\ m \in pool'[p]
      /\ \A q \in Ports : pool[q] \subseteq pool'[q] /\ pool'[q] \subseteq Mbuf(q)
  BY <1>1, <1>2, EndPutFacts
<1>4. QED
  BY <1>1, <1>3, NextFrameStep


(* The workers.  A step of theirs changes what they have, nic, the pools   *)
(* and the contents of rings.                                              *)
LEMMA WorkerKept ==
  ASSUME ShareInv, UNCHANGED <<layout, pc, known, rx, secVars, fetchVars>>,
         DOMAIN fifo' = DOMAIN fifo,
         nic' \in [Ports -> SUBSET AllMbufs], pool' \in [Ports -> SUBSET AllMbufs],
         spoiled' \subseteq Ports, \A q \in Ports : pool'[q] \subseteq Mbuf(q),
         \A g \in DOMAIN fifo' : fifo'[g] \in Seq(AllMbufs) /\ Len(fifo'[g]) < RingSize
  PROVE  /\ PrimTypes' /\ MemTypes' /\ CountTypes' /\ SecTypes' /\ Homes'
         /\ Polled' /\ Launched'
<1>1. UNCHANGED <<sec, loop, work, starts, early, bufs, dropped, non_ip>>
  BY DEF secVars, fetchVars
<1>2. Fast' = Fast /\ (\A p : RxFifo(p)' = RxFifo(p)) /\ (\A p : Mbuf(p)' = Mbuf(p))
  BY DEF Fast, RxFifo, Mbuf
<1>3. PrimTypes' /\ Polled'
  BY <1>1, <1>2 DEF ShareInv, PrimTypes, Polled
<1>4. MemTypes' /\ Homes'
  BY <1>1, <1>2 DEF ShareInv, MemTypes, Homes
<1>5. CountTypes' /\ SecTypes' /\ Launched'
  BY <1>1 DEF ShareInv, CountTypes, SecTypes, Launched
<1>6. QED
  BY <1>3, <1>4, <1>5

(* A burst taken off a ring has the port of the ring.                      *)
LEMMA TakeStep ==
  ASSUME ShareInv, NEW w \in Worker, Take(w)
  PROVE  ShareInv'
<1> DEFINE f == work[w]
           q == fifo[f]
           n == BurstOf(q)
           h == SubSeq(q, 1, n)
<1>1. /\ f \in DOMAIN fifo /\ hand' = [hand EXCEPT ![w] = h] /\ taking' = taking \cup {w}
      /\ UNCHANGED <<primVars, secVars, fetchVars, memVars, nic, wedged, frees, putting>>
  BY DEF Take, Serves
<1>2. /\ UNCHANGED <<layout, pc, known, fifo, rx, bufs, dropped, non_ip, pool, spoiled>>
      /\ UNCHANGED <<sec, loop, work, starts, early>>
  BY <1>1 DEF primVars, secVars, fetchVars, memVars
<1>3. \A p : RxFifo(p)' = RxFifo(p)
  BY <1>2 DEF RxFifo
<1>4. q \in Seq(AllMbufs) /\ Len(q) \in Nat
  BY <1>1 DEF ShareInv, MemTypes
<1>5. n \in 0 .. Len(q)
  BY <1>4, ShareAssumption DEF BurstOf
<1>6. \A k \in 1 .. Len(q) : RxFifo(PortOf(q[k])) = f
  BY <1>1 DEF ShareInv, RingsOfPorts
<1> HIDE DEF n, q, f
<1>7. h \in Seq(AllMbufs) /\ Len(h) = n /\ \A k \in 1 .. n : h[k] = q[k]
  BY <1>4, <1>5, SplitFacts
<1>8. \A k \in 1 .. Len(h) : RxFifo(PortOf(h[k])) = f
  <2>1. \A k \in 1 .. n : k \in 1 .. Len(q)
    BY <1>4, <1>5
  <2>2. QED
    BY <1>6, <1>7, <2>1
<1> HIDE DEF h
<1>9. hand' \in [Worker -> Seq(AllMbufs)]
       /\ \A v \in Worker : hand'[v] = IF v = w THEN h ELSE hand[v]
  BY <1>1, <1>7 DEF ShareInv, WorkTypes
<1>10. work[w] = f
  BY DEF f
<1>11. Hands'
  BY <1>2, <1>3, <1>8, <1>9, <1>10 DEF ShareInv, Hands
<1>12. WorkTypes'
  BY <1>1, <1>2, <1>9, <1>10 DEF ShareInv, WorkTypes
<1>13. Rings' /\ RingsOfPorts' /\ Whole'
  BY <1>1, <1>2, <1>3, WholeKept DEF ShareInv, Rings, RingsOfPorts
<1>14. /\ PrimTypes' /\ MemTypes' /\ CountTypes' /\ SecTypes' /\ Homes'
       /\ Polled' /\ Launched'
  <2>1. /\ nic' \in [Ports -> SUBSET AllMbufs] /\ pool' \in [Ports -> SUBSET AllMbufs]
        /\ spoiled' \subseteq Ports /\ \A p \in Ports : pool'[p] \subseteq Mbuf(p)
        /\ \A g \in DOMAIN fifo' : fifo'[g] \in Seq(AllMbufs) /\ Len(fifo'[g]) < RingSize
    BY <1>1, <1>2 DEF ShareInv, MemTypes, Homes
  <2>2. QED
    BY <1>1, <1>2, <2>1, WorkerKept
<1>15. QED
  BY <1>11, <1>12, <1>13, <1>14 DEF ShareInv

LEMMA TakenStep ==
  ASSUME ShareInv, NEW w \in Worker, Taken(w)
  PROVE  ShareInv'
<1> DEFINE f == work[w]
           q == fifo[f]
           n == Len(hand[w])
           r == SubSeq(q, n + 1, Len(q))
<1>1. /\ w \in taking /\ fifo' = [fifo EXCEPT ![f] = r] /\ taking' = taking \ {w}
      /\ UNCHANGED <<layout, pc, known, rx, secVars, fetchVars, memVars, nic, hand,
                     wedged, frees, putting>>
  BY DEF Taken
<1>2. /\ UNCHANGED <<bufs, dropped, non_ip, pool, spoiled>>
      /\ UNCHANGED <<sec, loop, work, starts, early>>
  BY <1>1 DEF secVars, fetchVars, memVars
<1>3. \A p : RxFifo(p)' = RxFifo(p)
  BY <1>1 DEF RxFifo
<1>4. f \in DOMAIN fifo
  BY <1>1 DEF ShareInv, WorkTypes
<1>5. q \in Seq(AllMbufs) /\ Len(q) < RingSize /\ Len(q) \in Nat
  BY <1>4 DEF ShareInv, MemTypes
<1>6. n \in Nat
  BY DEF ShareInv, WorkTypes
<1>7. \A k \in 1 .. Len(q) : RxFifo(PortOf(q[k])) = f
  BY <1>4 DEF ShareInv, RingsOfPorts
<1> HIDE DEF n, q, f
<1>8. /\ r \in Seq(AllMbufs) /\ Len(r) <= Len(q)
      /\ \A k \in 1 .. Len(r) : n + k \in 1 .. Len(q) /\ r[k] = q[n + k]
  BY <1>5, <1>6, RestFacts
<1>9. Len(r) < RingSize /\ \A k \in 1 .. Len(r) : RxFifo(PortOf(r[k])) = f
  <2>1. Len(r) \in Nat
    BY <1>8
  <2>2. Len(r) < RingSize
    BY <1>5, <1>8, <2>1, ShareAssumption
  <2>3. QED
    BY <1>7, <1>8, <2>2
<1> HIDE DEF r
<1>10. /\ Rings' /\ RingsOfPorts' /\ DOMAIN fifo' = DOMAIN fifo
       /\ \A g \in DOMAIN fifo' : fifo'[g] \in Seq(AllMbufs) /\ Len(fifo'[g]) < RingSize
  BY <1>1, <1>4, <1>8, <1>9, FifoChange
<1>11. Hands' /\ WorkTypes' /\ Whole'
  <2>1. Hands' /\ WorkTypes'
    BY <1>1, <1>2, <1>3, <1>10 DEF ShareInv, Hands, WorkTypes
  <2>2. QED
    BY <1>1, <1>2, <2>1, WholeKept
<1>12. /\ PrimTypes' /\ MemTypes' /\ CountTypes' /\ SecTypes' /\ Homes'
       /\ Polled' /\ Launched'
  <2>1. /\ nic' \in [Ports -> SUBSET AllMbufs] /\ pool' \in [Ports -> SUBSET AllMbufs]
        /\ spoiled' \subseteq Ports /\ \A p \in Ports : pool'[p] \subseteq Mbuf(p)
    BY <1>1, <1>2 DEF ShareInv, MemTypes, Homes
  <2>2. QED
    BY <1>1, <1>10, <2>1, WorkerKept
<1>13. QED
  BY <1>10, <1>11, <1>12 DEF ShareInv

LEMMA TransmitStep ==
  ASSUME ShareInv, NEW w \in Worker, NEW n, NEW completed, Transmit(w, n, completed)
  PROVE  ShareInv'
<1> DEFINE s     == hand[w]
           p     == PortOf(s[1])
           done  == IF completed THEN nic[p] ELSE {}
           rest  == Range(SubSeq(s, n + 1, Len(s)))
           taken == Range(SubSeq(s, 1, n))
<1>1. /\ s # <<>> /\ w \notin taking /\ n \in 0 .. Len(s)
      /\ nic' = [nic EXCEPT ![p] = (nic[p] \ done) \cup taken]
      /\ frees' = [frees EXCEPT ![w] = done \cup rest]
      /\ hand' = [hand EXCEPT ![w] = <<>>]
      /\ UNCHANGED <<primVars, secVars, fetchVars, memVars, taking, wedged, putting>>
  BY DEF Transmit
<1>2. s \in Seq(AllMbufs) /\ nic \in [Ports -> SUBSET AllMbufs]
      /\ frees \in [Worker -> SUBSET AllMbufs] /\ hand \in [Worker -> Seq(AllMbufs)]
  BY DEF ShareInv, MemTypes, WorkTypes
<1> HIDE DEF s
<1>3. p \in Ports
  <2>1. s[1] \in AllMbufs
    BY <1>1, <1>2
  <2>2. QED
    BY <2>1, MbufFacts
<1>4. taken \subseteq AllMbufs /\ rest \subseteq AllMbufs
  <2>1. SubSeq(s, 1, n) \in Seq(AllMbufs) /\ SubSeq(s, n + 1, Len(s)) \in Seq(AllMbufs)
    BY <1>1, <1>2, SplitFacts
  <2>2. \A t \in Seq(AllMbufs) : Range(t) \subseteq AllMbufs
    BY RangeOf
  <2>3. QED
    BY <2>1, <2>2
<1>5. done \subseteq AllMbufs
  BY <1>2, <1>3
<1> HIDE DEF done, taken, rest, p
<1>6. nic' \in [Ports -> SUBSET AllMbufs] /\ frees' \in [Worker -> SUBSET AllMbufs]
  BY <1>1, <1>2, <1>3, <1>4, <1>5
<1>7. hand' \in [Worker -> Seq(AllMbufs)]
      /\ \A v \in Worker : hand'[v] = IF v = w THEN <<>> ELSE hand[v]
  BY <1>1, <1>2
<1>8. /\ UNCHANGED <<layout, pc, known, fifo, rx, bufs, dropped, non_ip, pool, spoiled>>
      /\ UNCHANGED <<sec, loop, work, starts, early>>
  BY <1>1 DEF primVars, secVars, fetchVars, memVars
<1>9. \A q : RxFifo(q)' = RxFifo(q)
  BY <1>8 DEF RxFifo
<1>10. Hands'
  <2>1. Len(<<>>) = 0
    OBVIOUS
  <2>2. \A v \in Worker : \A k \in 1 .. Len(hand'[v]) : v # w
    BY <1>7, <2>1
  <2>3. QED
    BY <1>7, <1>8, <1>9, <2>2 DEF ShareInv, Hands
<1>11. WorkTypes' /\ Whole' /\ Rings' /\ RingsOfPorts'
  BY <1>1, <1>6, <1>7, <1>8, <1>9, WholeKept DEF ShareInv, WorkTypes, Rings, RingsOfPorts
<1>12. /\ PrimTypes' /\ MemTypes' /\ CountTypes' /\ SecTypes' /\ Homes'
       /\ Polled' /\ Launched'
  <2>1. /\ pool' \in [Ports -> SUBSET AllMbufs]
        /\ spoiled' \subseteq Ports /\ \A q \in Ports : pool'[q] \subseteq Mbuf(q)
        /\ \A g \in DOMAIN fifo' : fifo'[g] \in Seq(AllMbufs) /\ Len(fifo'[g]) < RingSize
    BY <1>8 DEF ShareInv, MemTypes, Homes
  <2>2. QED
    BY <1>1, <1>6, <1>8, <2>1, WorkerKept
<1>13. QED
  BY <1>10, <1>11, <1>12 DEF ShareInv

(* A put begins, or is found not to be needed.                             *)
LEMMA PutStep ==
  ASSUME ShareInv, NEW w \in Worker, NEW m \in AllMbufs, Put(w, m)
  PROVE  ShareInv'
<1>1. /\ putting[w] = {} /\ frees' = [frees EXCEPT ![w] = @ \ {m}]
      /\ UNCHANGED putting \/ putting' = [putting EXCEPT ![w] = {m}]
      /\ UNCHANGED <<primVars, secVars, fetchVars, memVars, nic, hand, taking, wedged>>
  BY DEF Put
<1>2. /\ UNCHANGED <<layout, pc, known, fifo, rx, bufs, dropped, non_ip, pool, spoiled>>
      /\ UNCHANGED <<sec, loop, work, starts, early>>
  BY <1>1 DEF primVars, secVars, fetchVars, memVars
<1>3. (\A q : RxFifo(q)' = RxFifo(q)) /\ (\A q : Mbuf(q)' = Mbuf(q))
  BY <1>2 DEF RxFifo, Mbuf
<1>4. frees \in [Worker -> SUBSET AllMbufs] /\ putting \in [Worker -> SUBSET AllMbufs]
  BY DEF ShareInv, WorkTypes
<1>5. frees' \in [Worker -> SUBSET AllMbufs] /\ putting' \in [Worker -> SUBSET AllMbufs]
  BY <1>1, <1>4
<1>6. \A v \in Worker : putting'[v] = putting[v] \/ (v = w /\ putting'[v] = {m})
  BY <1>1, <1>4
<1>7. WorkTypes'
  BY <1>1, <1>2, <1>5, <1>6 DEF ShareInv, WorkTypes
<1>8. Whole'
  BY <1>1, <1>2, <1>3, <1>6 DEF ShareInv, Whole
<1>9. Hands' /\ Rings' /\ RingsOfPorts'
  BY <1>1, <1>2, <1>3 DEF ShareInv, Hands, Rings, RingsOfPorts
<1>10. /\ PrimTypes' /\ MemTypes' /\ CountTypes' /\ SecTypes' /\ Homes'
       /\ Polled' /\ Launched'
  <2>1. /\ nic' \in [Ports -> SUBSET AllMbufs] /\ pool' \in [Ports -> SUBSET AllMbufs]
        /\ spoiled' \subseteq Ports /\ \A q \in Ports : pool'[q] \subseteq Mbuf(q)
        /\ \A g \in DOMAIN fifo' : fifo'[g] \in Seq(AllMbufs) /\ Len(fifo'[g]) < RingSize
    BY <1>1, <1>2 DEF ShareInv, MemTypes, Homes
  <2>2. QED
    BY <1>1, <1>2, <2>1, WorkerKept
<1>11. QED
  BY <1>7, <1>8, <1>9, <1>10 DEF ShareInv

LEMMA PutDoneStep ==
  ASSUME ShareInv, NEW w \in Worker, NEW m \in AllMbufs, PutDone(w, m)
  PROVE  ShareInv'
<1> DEFINE overlap == \/ rx[PortOf(m)] = "put"
                      \/ \E v \in Worker \ {w} : \E o \in putting[v] : PortOf(o) = PortOf(m)
<1>1. /\ m \in putting[w] /\ EndPut(m, overlap)
      /\ putting' = [putting EXCEPT ![w] = {}]
      /\ UNCHANGED <<primVars, secVars, fetchVars, nic, hand, taking, wedged, frees>>
  BY DEF PutDone
<1> HIDE DEF overlap
<1>2. /\ pool' \in [Ports -> SUBSET AllMbufs] /\ spoiled' \subseteq Ports
      /\ spoiled \subseteq spoiled' /\ m \in pool'[PortOf(m)]
      /\ \A q \in Ports : pool[q] \subseteq pool'[q] /\ pool'[q] \subseteq Mbuf(q)
  BY <1>1, EndPutFacts
<1>3. /\ UNCHANGED <<layout, pc, known, fifo, rx, bufs, dropped, non_ip>>
      /\ UNCHANGED <<sec, loop, work, starts, early>>
  BY <1>1 DEF primVars, secVars, fetchVars
<1>4. (\A q : RxFifo(q)' = RxFifo(q)) /\ (\A q : Mbuf(q)' = Mbuf(q))
  BY <1>3 DEF RxFifo, Mbuf
<1>5. putting' \in [Worker -> SUBSET AllMbufs]
      /\ \A v \in Worker : putting'[v] = IF v = w THEN {} ELSE putting[v]
  BY <1>1 DEF ShareInv, WorkTypes
<1>6. WorkTypes'
  BY <1>1, <1>3, <1>5 DEF ShareInv, WorkTypes
<1>7. Whole'
  <2>1. SUFFICES ASSUME NEW q \in Ports \ spoiled', NEW o \in Mbuf(q)
                 PROVE  \/ o \in pool'[q] \/ o \in Range(bufs'[q])
                        \/ \E v \in Worker : o \in putting'[v]
    BY <1>4 DEF Whole
  <2>2. \/ o \in pool[q] \/ o \in Range(bufs[q])
        \/ \E v \in Worker : o \in putting[v]
    BY <1>2 DEF ShareInv, Whole
  <2>3. ASSUME NEW v \in Worker, o \in putting[v]
        PROVE  o \in pool'[q] \/ o \in putting'[v]
    <3>1. CASE v = w
      <4>1. o = m
        BY <1>1, <2>3, <3>1 DEF ShareInv, WorkTypes
      <4>2. PortOf(o) = q
        BY MbufFacts
      <4>3. QED
        BY <1>2, <4>1, <4>2
    <3>2. QED
      BY <1>5, <2>3, <3>1
  <2>4. QED
    BY <1>2, <1>3, <2>2, <2>3
<1>8. Hands' /\ Rings' /\ RingsOfPorts'
  BY <1>1, <1>3, <1>4 DEF ShareInv, Hands, Rings, RingsOfPorts
<1>9. /\ PrimTypes' /\ MemTypes' /\ CountTypes' /\ SecTypes' /\ Homes'
      /\ Polled' /\ Launched'
  <2>1. /\ nic' \in [Ports -> SUBSET AllMbufs]
        /\ \A g \in DOMAIN fifo' : fifo'[g] \in Seq(AllMbufs) /\ Len(fifo'[g]) < RingSize
    BY <1>1, <1>3 DEF ShareInv, MemTypes
  <2>2. QED
    BY <1>1, <1>2, <1>3, <2>1, WorkerKept
<1>10. QED
  BY <1>6, <1>7, <1>8, <1>9 DEF ShareInv

LEMMA ShareStep == ShareInv /\ [Next]_vars => ShareInv'
<1> SUFFICES ASSUME ShareInv, [Next]_vars PROVE ShareInv'
  OBVIOUS
<1>1. CASE BringUp
  BY <1>1, PrimStep, CreateStep DEF BringUp
<1>2. CASE \E p \in Ports : Fetch(p)
  BY <1>2, ReceiveStep, OfferStep, FreeStep, RxPutStep DEF Fetch, Handle
<1>3. CASE SecStart \/ Launching \/ SecCrash
  BY <1>3, SecStep, LaunchStep DEF Launching
<1>4. CASE \E w \in Worker : WorkOn(w)
  BY <1>4, BeginStep, TakeStep, TakenStep, TransmitStep, PutStep, PutDoneStep
     DEF WorkOn, Sending, Freeing
<1>5. CASE UNCHANGED vars
  <2>1. UNCHANGED <<primVars, fetchVars, secVars, pool, spoiled, nic, workVars>>
    BY <1>5 DEF vars, memVars
  <2>2. UNCHANGED <<layout, fifo, bufs, work>>
    BY <2>1 DEF primVars, fetchVars, secVars
  <2>3. SecTypes' /\ Launched' /\ Hands'
    BY <2>1, <2>2, WorkersKept
  <2>4. WorkTypes' /\ Whole' /\ spoiled' \subseteq Ports
    BY <2>1, <2>2, HoldsKept
  <2>5. QED
    BY <2>1, <2>3, <2>4, SecKept
<1>6. QED
  BY <1>1, <1>2, <1>3, <1>4, <1>5 DEF Next

LEMMA ShareHolds == Spec => []ShareInv
  BY InitInv, ShareStep, PTL DEF Spec

-----------------------------------------------------------------------------
(* For any instance: both processes' variables keep their types, a worker  *)
(* serves a ring there is, and no ring takes more than it holds.           *)
THEOREM WorkShareTypes == Spec => []TypeOK
  BY ShareHolds, ShareTypes, PTL

(* No mbuf is lost but with a pool that is spoiled: by puts of the two     *)
(* processes that overlap, or by a crash in the middle of one.  A crash    *)
(* anywhere else loses none, since the fetching lcore frees what it has    *)
(* queued, too.                                                            *)
THEOREM NoMbufLeaks == Spec => []NothingLeaks
  BY ShareHolds, WholeFacts, PTL

(* A worker's burst is of the port whose ring it serves, through crashes   *)
(* and restarts, and however late the worker reads its index.              *)
THEOREM BurstsAreOfOnePort == Spec => []OnePortBursts
<1>1. ShareInv => OnePortBursts
  <2> SUFFICES ASSUME ShareInv, NEW w \in Worker, NEW k \in 1 .. Len(hand[w])
               PROVE  /\ PortOf(hand[w][k]) = PortOf(hand[w][1])
                      /\ work[w] = RxFifo(PortOf(hand[w][k]))
    BY DEF OnePortBursts
  <2>1. hand[w] \in Seq(AllMbufs)
    BY DEF ShareInv, WorkTypes
  <2>2. 1 \in 1 .. Len(hand[w])
    BY <2>1
  <2>3. work[w] = RxFifo(PortOf(hand[w][1])) /\ work[w] = RxFifo(PortOf(hand[w][k]))
    BY <2>2 DEF ShareInv, Hands
  <2>4. QED
    BY <2>3 DEF RxFifo
<1>2. QED
  BY <1>1, ShareHolds, PTL
-----------------------------------------------------------------------------
(* Why a secondary ends                                                    *)

Built == pc \in {"rx", "run", "dead"}

(* Once the FIFOs are built every port is known and has one.               *)
BuiltInv == /\ pc \in {"fifo", "rx", "run", "dead"} => known = Fast
            /\ Built => DOMAIN fifo = CreatedFifos(Count(Fast))

(* A secondary started in time on a suitable machine: its index names a    *)
(* FIFO at every moment a worker may read it, its workers are on node 0,   *)
(* and its launch loop has launched one unless it has not begun.           *)
OnTime ==
  Suitable /\ ~early /\ sec \in {"launch", "run"} =>
    /\ Built
    /\ loop.argPort \in 0 .. Count(Fast) - 1
    /\ \A w \in Worker : work[w] = <<"launched">> => SocketOf[w] = 0
    /\ sec = "launch" => \/ loop.ret = 0
                         \/ loop.index = 0 /\ loop.j = 0 /\ loop.used = {}

EndInv == ShareInv /\ BuiltInv /\ OnTime /\ EndsOnlyIfEarly

LEMMA MachineFacts ==
  ASSUME ShareInv
  PROVE  IsFiniteSet(Fast) /\ Count(Fast) \in Nat \ {0} /\ Fast # {}
<1>1. IsFiniteSet(Fast) /\ Fast # {}
  BY ShareAssumption DEF ShareInv, PrimTypes, Fast
<1>2. Count(Fast) \in Nat /\ Count(Fast) # 0
  BY <1>1, FS_CardinalityType, FS_EmptySet DEF Count
<1>3. QED
  BY <1>1, <1>2

(* The machine never changes, and what is built stays.                     *)
LEMMA BuiltStep ==
  ASSUME ShareInv, BuiltInv, [Next]_vars
  PROVE  layout' = layout /\ Fast' = Fast /\ BuiltInv' /\ (Built => Built')
<1>1. layout' = layout
  BY DEF Next, BringUp, ReserveZone, CreateFifo, PrimReady, CountPort, StartRx, Fetch,
         Receive, Handle, Offer, FreeOffered, RxPutDone, SecStart, Launching, Launch,
         NextNode, SecReady, SecCrash, WorkOn, Sending, Freeing, Begin, Take, Taken,
         Transmit, Put, PutDone, vars, primVars
<1>2. Fast' = Fast
  BY <1>1 DEF Fast
<1> SUFFICES BuiltInv' /\ (Built => Built')
  BY <1>1, <1>2
<1>3. CASE UNCHANGED <<pc, known, fifo>>
  BY <1>2, <1>3 DEF BuiltInv, Built
<1>4. CASE ReserveZone
  BY <1>4 DEF ReserveZone, BuiltInv, Built
<1>5. ASSUME NEW p \in Ports, CountPort(p)
      PROVE  BuiltInv' /\ (Built => Built')
  BY <1>2, <1>5 DEF CountPort, BuiltInv, Built
<1>6. CASE CreateFifo
  <2>1. /\ pc = "fifo" /\ known' = known
        /\ DOMAIN fifo' = CreatedFifos(Count(DOMAIN fifo) + 1)
        /\ pc' = IF Count(DOMAIN fifo) + 1 = Count(Fast) THEN "rx" ELSE pc
    BY <1>6 DEF CreateFifo
  <2>2. QED
    BY <1>2, <2>1 DEF BuiltInv, Built
<1>7. CASE PrimReady \/ \E p \in Ports : StartRx(p)
  BY <1>2, <1>7 DEF PrimReady, StartRx, BuiltInv, Built
<1>8. CASE DOMAIN fifo' = DOMAIN fifo /\ UNCHANGED <<pc, known>>
  BY <1>2, <1>8 DEF BuiltInv, Built
<1>9. ASSUME NEW p \in Ports, Fetch(p)
      PROVE  DOMAIN fifo' = DOMAIN fifo /\ UNCHANGED <<pc, known>>
  BY <1>9 DEF Fetch, Receive, Handle, Offer, Enqueue, FreeOffered, RxPutDone, primVars
<1>10. ASSUME NEW w \in Worker, WorkOn(w)
       PROVE  DOMAIN fifo' = DOMAIN fifo /\ UNCHANGED <<pc, known>>
  BY <1>10 DEF WorkOn, Begin, Take, Taken, Sending, Transmit, Freeing, Put, PutDone, primVars
<1>11. SecStart \/ Launching \/ SecCrash => UNCHANGED <<pc, known, fifo>>
  BY DEF SecStart, Launching, Launch, NextNode, SecReady, SecCrash, primVars
<1>12. UNCHANGED vars => UNCHANGED <<pc, known, fifo>>
  BY DEF vars, primVars
<1>13. QED
  BY <1>1, <1>2, <1>3, <1>4, <1>5, <1>6, <1>7, <1>8, <1>9, <1>10, <1>11, <1>12
     DEF Next, BringUp

LEMMA SuitableKept ==
  ASSUME layout' = layout
  PROVE  Suitable' = Suitable
BY DEF Suitable, Fast

LEMMA OnTimeKept ==
  ASSUME OnTime, EndsOnlyIfEarly, layout' = layout, Built => Built', UNCHANGED secVars
  PROVE  OnTime' /\ EndsOnlyIfEarly'
<1>1. Suitable' = Suitable /\ Fast' = Fast
  BY SuitableKept DEF Fast
<1>2. UNCHANGED <<sec, loop, work, early>>
  BY DEF secVars
<1>3. QED
  BY <1>1, <1>2 DEF OnTime, EndsOnlyIfEarly, Built

(* On a suitable machine only node 0 has ports, and it has lcores for all. *)
LEMMA OnlyNode0 ==
  ASSUME ShareInv, BuiltInv, Built, Suitable
  PROVE  /\ known = Fast
         /\ NodeHasPorts => loop.index = 0
         /\ loop.index = 0 => NodeHasPorts /\ EnoughCores
<1>1. known = Fast /\ Fast # {}
  BY MachineFacts DEF BuiltInv, Built
<1>2. QED
  BY <1>1 DEF Suitable, NodeHasPorts, EnoughCores, OnNode

LEMMA LaunchOnTime ==
  ASSUME ShareInv, BuiltInv, OnTime, EndsOnlyIfEarly, NEW w \in Worker, Launch(w),
         layout' = layout
  PROVE  OnTime' /\ EndsOnlyIfEarly'
<1>1. /\ sec = "launch" /\ sec' = sec /\ early' = early /\ pc' = pc
      /\ w \in Worker /\ SocketOf[w] = loop.index /\ NodeHasPorts
      /\ loop.j < Count(known)
      /\ loop' = [loop EXCEPT !.argPort = loop.j, !.j = @ + 1, !.ret = 0,
                              !.used = @ \cup {w}]
      /\ work' = [work EXCEPT ![w] = <<"launched">>]
  BY DEF Launch, CanLaunch, Free, primVars
<1>2. Suitable' = Suitable /\ Fast' = Fast
  BY SuitableKept DEF Fast
<1>3. EndsOnlyIfEarly'
  BY <1>1 DEF EndsOnlyIfEarly
<1>4. ASSUME Suitable, ~early
      PROVE  OnTime'
  <2>1. Built /\ \A v \in Worker : work[v] = <<"launched">> => SocketOf[v] = 0
    BY <1>1, <1>4 DEF OnTime
  <2>2. known = Fast /\ SocketOf[w] = 0
    BY <1>1, <1>4, <2>1, OnlyNode0
  <2>3. loop.j \in Nat /\ Count(Fast) \in Nat /\ DOMAIN work = Worker
    BY MachineFacts DEF ShareInv, SecTypes
  <2>4. loop.j \in 0 .. Count(Fast) - 1
    BY <1>1, <2>2, <2>3
  <2>5. loop'.argPort = loop.j /\ loop'.ret = 0
    <3>1. loop \in [index : 0 .. NumNodes, j : Nat, argPort : Nat, ret : {-1, 0, 1},
                    used : SUBSET Worker]
      BY DEF ShareInv, SecTypes
    <3>2. QED
      BY <1>1, <3>1
  <2>6. \A v \in Worker : work'[v] = <<"launched">> => SocketOf[v] = 0
    BY <1>1, <2>1, <2>2, <2>3
  <2>7. QED
    BY <1>1, <1>2, <2>1, <2>4, <2>5, <2>6 DEF OnTime, Built
<1>5. QED
  BY <1>1, <1>2, <1>3, <1>4 DEF OnTime

LEMMA NextNodeOnTime ==
  ASSUME ShareInv, BuiltInv, OnTime, EndsOnlyIfEarly, NextNode, layout' = layout
  PROVE  OnTime' /\ EndsOnlyIfEarly'
<1>1. /\ sec = "launch" /\ sec' = sec /\ early' = early /\ pc' = pc /\ work' = work
      /\ ~CanLaunch
      /\ loop' = [loop EXCEPT
                    !.index = @ + 1, !.j = 0,
                    !.argPort = IF loop.index < NumNodes - 1 THEN 0 ELSE @,
                    !.ret = IF NodeHasPorts /\ ~EnoughCores THEN -1 ELSE @]
  BY DEF NextNode, primVars
<1>2. Suitable' = Suitable /\ Fast' = Fast
  BY SuitableKept DEF Fast
<1>3. EndsOnlyIfEarly'
  BY <1>1 DEF EndsOnlyIfEarly
<1>4. loop \in [index : 0 .. NumNodes, j : Nat, argPort : Nat, ret : {-1, 0, 1},
                used : SUBSET Worker]
  BY DEF ShareInv, SecTypes
<1>5. ASSUME Suitable, ~early
      PROVE  OnTime'
  <2>1. /\ Built /\ loop.argPort \in 0 .. Count(Fast) - 1
        /\ \A v \in Worker : work[v] = <<"launched">> => SocketOf[v] = 0
        /\ loop.ret = 0 \/ (loop.index = 0 /\ loop.j = 0 /\ loop.used = {})
    BY <1>1, <1>5 DEF OnTime
  <2>2. Count(Fast) \in Nat \ {0}
    BY MachineFacts
  <2>3. /\ known = Fast
        /\ NodeHasPorts => EnoughCores
        /\ loop.index = 0 => NodeHasPorts /\ EnoughCores
    BY <1>5, <2>1, OnlyNode0
  <2>4. loop.ret = 0
    <3>1. ASSUME loop.index = 0, loop.j = 0, loop.used = {}
          PROVE  CanLaunch
      <4>1. Free # {}
        BY <1>5, <3>1 DEF Free, Suitable
      <4>2. loop.j < Count(known)
        <5>1. Count(known) = Count(Fast) /\ loop.j = 0
          BY <2>3, <3>1
        <5>2. QED
          BY <2>2, <5>1
      <4>3. QED
        BY <2>3, <3>1, <4>1, <4>2 DEF CanLaunch
    <3>2. QED
      BY <1>1, <2>1, <3>1
  <2>5. loop'.ret = 0
    <3>1. ~(NodeHasPorts /\ ~EnoughCores)
      BY <2>3
    <3>2. loop'.ret = loop.ret
      BY <1>1, <1>4, <3>1
    <3>3. QED
      BY <2>4, <3>2
  <2>6. loop'.argPort = 0 \/ loop'.argPort = loop.argPort
    BY <1>1, <1>4
  <2>7. loop'.argPort \in 0 .. Count(Fast) - 1
    BY <2>1, <2>2, <2>6
  <2>8. QED
    BY <1>1, <1>2, <2>1, <2>5, <2>7 DEF OnTime, Built
<1>6. QED
  BY <1>1, <1>2, <1>3, <1>5 DEF OnTime

LEMMA BeginOnTime ==
  ASSUME ShareInv, BuiltInv, OnTime, EndsOnlyIfEarly, NEW w \in Worker, Begin(w),
         layout' = layout
  PROVE  OnTime' /\ EndsOnlyIfEarly'
<1> DEFINE f == <<SocketOf[w], loop.argPort>>
<1>1. /\ work[w] = <<"launched">> /\ early' = early /\ pc' = pc
      /\ \/ /\ f \in DOMAIN fifo /\ work' = [work EXCEPT ![w] = f]
            /\ UNCHANGED <<sec, loop>>
         \/ f \notin DOMAIN fifo /\ sec' = "exit"
  BY DEF Begin, Gone, primVars
<1>2. Suitable' = Suitable /\ Fast' = Fast
  BY SuitableKept DEF Fast
<1>3. CASE f \notin DOMAIN fifo /\ sec' = "exit"
  <2>1. sec \in {"launch", "run"}
    BY <1>1 DEF ShareInv, Launched, SecTypes
  <2>2. ASSUME Suitable, ~early
        PROVE  FALSE
    <3>1. /\ Built /\ loop.argPort \in 0 .. Count(Fast) - 1 /\ SocketOf[w] = 0
      BY <1>1, <2>1, <2>2 DEF OnTime
    <3>2. DOMAIN fifo = CreatedFifos(Count(Fast))
      BY <3>1 DEF BuiltInv
    <3>3. QED
      BY <1>3, <3>1, <3>2 DEF CreatedFifos
  <2>3. QED
    BY <1>1, <1>2, <1>3, <2>2 DEF OnTime, EndsOnlyIfEarly
<1>4. CASE /\ f \in DOMAIN fifo /\ work' = [work EXCEPT ![w] = f]
           /\ UNCHANGED <<sec, loop>>
  <2>1. \A v \in Worker : work'[v] = <<"launched">> => work[v] = <<"launched">>
    <3>1. f # <<"launched">>
      OBVIOUS
    <3>2. DOMAIN work = Worker
      BY DEF ShareInv, SecTypes
    <3>3. QED
      BY <1>4, <3>1, <3>2
  <2>2. QED
    BY <1>1, <1>2, <1>4, <2>1 DEF OnTime, EndsOnlyIfEarly, Built
<1>5. QED
  BY <1>1, <1>3, <1>4

LEMMA SecOnTime ==
  ASSUME ShareInv, BuiltInv, OnTime, EndsOnlyIfEarly, SecStart \/ SecReady \/ SecCrash,
         layout' = layout
  PROVE  OnTime' /\ EndsOnlyIfEarly'
<1>1. Suitable' = Suitable /\ Fast' = Fast
  BY SuitableKept DEF Fast
<1>2. CASE SecStart
  <2>1. /\ pc # "reserve" /\ pc' = pc /\ sec' = "launch" /\ loop' = Idle
        /\ early' = (pc \in {"count", "fifo"}) /\ work' = work
        /\ \A v \in Worker : work[v] = <<"off">>
    BY <1>2 DEF SecStart, ShareInv, Launched, primVars
  <2>2. ~early' => Built'
    BY <2>1 DEF ShareInv, PrimTypes, Built
  <2>3. Count(Fast) \in Nat \ {0}
    BY MachineFacts
  <2>4. loop'.argPort = 0 /\ loop'.index = 0 /\ loop'.j = 0 /\ loop'.used = {}
    BY <2>1 DEF Idle
  <2>5. loop'.argPort \in 0 .. Count(Fast) - 1
    BY <2>3, <2>4
  <2>6. \A v \in Worker : work'[v] # <<"launched">>
    BY <2>1
  <2>7. QED
    BY <1>1, <2>1, <2>2, <2>4, <2>5, <2>6 DEF OnTime, EndsOnlyIfEarly
<1>3. CASE SecCrash
  BY <1>3 DEF SecCrash, Gone, OnTime, EndsOnlyIfEarly
<1>4. CASE SecReady
  <2>1. /\ sec = "launch" /\ loop.index = NumNodes /\ early' = early /\ pc' = pc
        /\ \/ sec' = "run" /\ UNCHANGED <<loop, work>>
           \/ loop.ret # 0 /\ sec' = "exit"
    BY <1>4 DEF SecReady, Gone, primVars
  <2>2. CASE sec' = "run" /\ UNCHANGED <<loop, work>>
    BY <1>1, <2>1, <2>2 DEF OnTime, EndsOnlyIfEarly, Built
  <2>3. CASE loop.ret # 0 /\ sec' = "exit"
    <3>1. loop.index # 0
      BY <2>1, ShareAssumption
    <3>2. early \/ ~Suitable
      BY <2>1, <2>3, <3>1 DEF OnTime
    <3>3. QED
      BY <1>1, <2>1, <2>3, <3>2 DEF OnTime, EndsOnlyIfEarly
  <2>4. QED
    BY <2>1, <2>2, <2>3
<1>5. QED
  BY <1>2, <1>3, <1>4

LEMMA EndStep == EndInv /\ [Next]_vars => EndInv'
<1> SUFFICES ASSUME EndInv, [Next]_vars PROVE EndInv'
  OBVIOUS
<1> USE DEF EndInv
<1>1. ShareInv'
  BY ShareStep
<1>2. layout' = layout /\ BuiltInv' /\ (Built => Built')
  BY BuiltStep
<1>3. CASE UNCHANGED secVars
  BY <1>1, <1>2, <1>3, OnTimeKept
<1>4. BringUp \/ (\E p \in Ports : Fetch(p)) \/ UNCHANGED vars => UNCHANGED secVars
  BY DEF BringUp, ReserveZone, CreateFifo, PrimReady, CountPort, StartRx, Fetch, Receive,
         Handle, Offer, FreeOffered, RxPutDone, vars
<1>5. CASE SecStart \/ Launching \/ SecCrash
  BY <1>1, <1>2, <1>5, SecOnTime, LaunchOnTime, NextNodeOnTime DEF Launching
<1>6. ASSUME NEW w \in Worker, WorkOn(w)
      PROVE  EndInv'
  <2>1. CASE Begin(w)
    BY <1>1, <1>2, <2>1, BeginOnTime
  <2>2. CASE Take(w) \/ Taken(w) \/ Sending(w) \/ Freeing(w)
    <3>1. UNCHANGED secVars
      BY <2>2 DEF Take, Taken, Sending, Transmit, Freeing, Put, PutDone
    <3>2. QED
      BY <1>3, <3>1
  <2>3. QED
    BY <1>6, <2>1, <2>2 DEF WorkOn
<1>7. QED
  BY <1>3, <1>4, <1>5, <1>6 DEF Next

(* On a machine with all ports on node 0 and lcores enough, a secondary    *)
(* started once the FIFOs are there never ends by itself: its workers all  *)
(* find a ring, whenever they read the index that the launch loop goes on  *)
(* changing, and whatever became of the primary since.                     *)
THEOREM SecondaryStays == Spec => []EndsOnlyIfEarly
<1>1. Init => EndInv
  BY InitInv DEF Init, EndInv, BuiltInv, Built, OnTime, EndsOnlyIfEarly
<1>2. EndInv => EndsOnlyIfEarly
  BY DEF EndInv
<1>3. QED
  BY <1>1, <1>2, EndStep, PTL DEF Spec

=============================================================================
