------------------------------ MODULE WorkShare ------------------------------
(***************************************************************************)
(* Primary and secondary process sharing work over rings                   *)
(* (primarysecondary-workshare/main.c; primarysecondary-sample-model has   *)
(* the same text split in two programs).  The primary writes the node      *)
(* information and creates the FIFOs in shared memory, then polls each     *)
(* port on an lcore that queues what it receives; the secondary, which may *)
(* be started at any time and may crash and be restarted, looks both up    *)
(* and transmits.                                                          *)
(*                                                                         *)
(* Mbufs carry their port, one pool per port.  A free of an mbuf that is   *)
(* in its pool, or on its way there, finds the reference count at zero and *)
(* puts nothing (DPDK up to 17.02, where rte_ring_dequeue_burst has the    *)
(* three arguments it is given).  A put takes two steps, because the pools *)
(* are created for a single putter and have no cache, although lcores of   *)
(* both processes free into them: puts that overlap, or one that a crash   *)
(* cuts short, leave mbufs missing and stale pointers in a pool, which is  *)
(* spoiled for good.  A dequeue takes two steps as well: a crash between   *)
(* the consumers' head and tail wedges the ring, since every later         *)
(* dequeue from it waits for that tail.  Statistics of the workers are     *)
(* left out, as is the port set-up, which fails before anything is shared. *)
(***************************************************************************)
EXTENDS Integers, Sequences, FiniteSets, Functions

CONSTANTS
  NumNodes,     (* MAX_NUMANODE: 4                                            *)
  Layout,       (* inventories: per 10G or 40G port its node                  *)
  CoreCount,    (* per node, the lcores of the primary on it                  *)
  Worker,       (* lcores of the secondary but its master                     *)
  SocketOf,     (* the node of a worker lcore                                 *)
  NumMbufs,     (* NUM_MBUFS                                                  *)
  RingSize,     (* RTE_RING_SIZE: a ring holds one element less               *)
  RxBurst,      (* BURST_SIZE                                                 *)
  WorkBurst,    (* 8                                                          *)
  MaxRx,        (* bound of the model: frames received per port               *)
  MaxStarts     (* bound of the model: starts of the secondary                *)

Node  == 0 .. NumNodes - 1
Ports == UNION {DOMAIN l : l \in Layout}

ASSUME ShareAssumption ==
  /\ \A l \in Layout : /\ IsFiniteSet(DOMAIN l) /\ DOMAIN l \subseteq Nat
                       /\ DOMAIN l # {} /\ l \in [DOMAIN l -> Node]
  /\ NumNodes \in Nat \ {0}
  /\ CoreCount \in [Node -> Nat]
  /\ SocketOf \in [Worker -> Node]
  /\ NumMbufs \in Nat \ {0} /\ RingSize \in Nat \ {0, 1}
  /\ RxBurst \in Nat \ {0} /\ WorkBurst \in Nat \ {0}
  /\ MaxRx \in [Ports -> Nat] /\ MaxStarts \in Nat

VARIABLES
  layout,       (* the inventory of this machine                              *)
  pc,           (* the primary's place in main                                *)
  known,        (* nodeinfo: the ports counted so far                         *)
  fifo,         (* shared memory: the rings created so far, by name           *)
  rx,           (* ports with an lcore that polls them, and their place       *)
  bufs,         (* per port, the burst its lcore has left to process          *)
  pool,         (* per port, the mbufs in its pool                            *)
  spoiled,      (* ports whose pool overlapping or broken puts have damaged   *)
  dropped,      (* prtPktStats.dropped and .non_ip                            *)
  non_ip,
  nic,          (* per port, the mbufs its transmit queue holds               *)
  sec,          (* the secondary: off, launching, running or ended by itself  *)
  loop,         (* its launch loop: index, j, argPort, ret, lcores launched   *)
  work,         (* per worker lcore: off, launched, or the ring it serves     *)
  hand,         (* per worker lcore, the burst it has taken                   *)
  taking,       (* workers between head and tail of their dequeue             *)
  wedged,       (* rings whose consumers' tail stays behind for good          *)
  frees,        (* per worker lcore, mbufs its transmit call leaves to free   *)
  putting,      (* per worker lcore, the mbuf it is putting into its pool     *)
  starts,       (* not in the code: starts of the secondary so far            *)
  early         (* not in the code: it was started before the FIFOs were there *)

primVars == <<layout, pc, known, fifo, rx>>
secVars  == <<sec, loop, work, starts, early>>
fetchVars == <<bufs, dropped, non_ip>>
memVars   == <<pool, spoiled>>
workVars  == <<hand, taking, wedged, frees, putting>>
vars == <<primVars, secVars, fetchVars, memVars, nic, workVars>>

-----------------------------------------------------------------------------
Mbuf(p)  == {p} \X (1 .. NumMbufs)
AllMbufs == UNION {Mbuf(p) : p \in Ports}
PortOf(m) == m[1]
Fifo     == Node \X Nat                        (* "SW-FIFO-<node>-<index>"    *)
Fast     == DOMAIN layout                      (* getCount40g + getCount10g   *)
Count(S) == Cardinality(S)
OnNode(S, n) == {p \in S : layout[p] = n}

Idle == [index |-> 0, j |-> 0, argPort |-> 0, ret |-> 1, used |-> {}]

TypeOK ==
  /\ layout \in Layout
  /\ pc \in {"reserve", "count", "fifo", "rx", "run", "dead"}
  /\ known \subseteq Fast
  /\ \A f \in DOMAIN fifo : f \in Fifo /\ f[1] = 0
  /\ \A f \in DOMAIN fifo : fifo[f] \in Seq(AllMbufs) /\ Len(fifo[f]) < RingSize
  /\ rx \in [Ports -> {"off", "poll", "free", "put", "down"}]
  /\ bufs \in [Ports -> Seq(AllMbufs)] /\ pool \in [Ports -> SUBSET AllMbufs]
  /\ spoiled \subseteq Ports /\ taking \subseteq Worker
  /\ wedged \subseteq DOMAIN fifo
  /\ frees \in [Worker -> SUBSET AllMbufs] /\ putting \in [Worker -> SUBSET AllMbufs]
  /\ dropped \in [Ports -> Nat] /\ non_ip \in [Ports -> Nat]
  /\ nic \in [Ports -> SUBSET AllMbufs]
  /\ sec \in {"off", "launch", "run", "exit"}
  /\ loop \in [index : 0 .. NumNodes, j : Nat, argPort : Nat, ret : {-1, 0, 1},
               used : SUBSET Worker]
  /\ DOMAIN work = Worker /\ hand \in [Worker -> Seq(AllMbufs)]
  /\ \A w \in Worker : work[w] \in {<<"off">>, <<"launched">>} \cup DOMAIN fifo
  /\ starts \in 0 .. MaxStarts /\ early \in BOOLEAN

Init ==
  /\ layout \in Layout
  /\ pc = "reserve" /\ known = {} /\ fifo = <<>>
  /\ rx = [p \in Ports |-> "off"]
  /\ bufs = [p \in Ports |-> <<>>]
  /\ pool = [p \in Ports |-> Mbuf(p)] /\ spoiled = {}
  /\ dropped = [p \in Ports |-> 0] /\ non_ip = [p \in Ports |-> 0]
  /\ nic = [p \in Ports |-> {}]
  /\ sec = "off" /\ loop = Idle
  /\ work = [w \in Worker |-> <<"off">>]
  /\ hand = [w \in Worker |-> <<>>] /\ taking = {} /\ wedged = {}
  /\ frees = [w \in Worker |-> {}] /\ putting = [w \in Worker |-> {}]
  /\ starts = 0 /\ early = FALSE

-----------------------------------------------------------------------------
(* The primary brings the machine up.                                      *)

ReserveZone ==
  /\ pc = "reserve" /\ pc' = "count"
  /\ UNCHANGED <<layout, known, fifo, rx, secVars, fetchVars, memVars, nic, workVars>>

(* populateNodeInfo, port by port in shared memory; the devices are set up *)
(* between the last of them and the first FIFO.                            *)
CountPort(p) ==
  /\ pc = "count" /\ p \in Fast \ known
  /\ \A q \in Fast \ known : p <= q
  /\ known' = known \cup {p}
  /\ pc' = IF known' = Fast THEN "fifo" ELSE pc
  /\ UNCHANGED <<layout, fifo, rx, secVars, fetchVars, memVars, nic, workVars>>

(* fifo_init: every FIFO is created for node 0, where index still stands.  *)
CreatedFifos(n) == {<<0, k>> : k \in 0 .. n - 1}

FewerFifos ==   (* mutant: one FIFO less than ports *)
  /\ pc = "fifo"
  /\ LET n == Count(DOMAIN fifo) IN
     /\ fifo' = [f \in CreatedFifos(n + 1) |-> <<>>]
     /\ pc' = IF n + 1 >= Count(Fast) - 1 THEN "rx" ELSE pc
  /\ UNCHANGED <<layout, known, rx, secVars, fetchVars, memVars, nic, workVars>>
CreateFifo ==
  /\ pc = "fifo"
  /\ LET n == Count(DOMAIN fifo) IN
     /\ fifo' = [f \in CreatedFifos(n + 1) |-> <<>>]
     /\ pc' = IF n + 1 = Count(Fast) THEN "rx" ELSE pc
  /\ UNCHANGED <<layout, known, rx, secVars, fetchVars, memVars, nic, workVars>>

(* The start of lcore_pktFetch, two seconds apart: a port whose link is    *)
(* down is not polled; without its FIFO the primary panics.                *)
RxFifo(p) == <<layout[p], p>>

Startable == {p \in Fast : CoreCount[layout[p]] >= Count(OnNode(Fast, layout[p])) + 1}
Waiting   == {p \in Startable : rx[p] = "off"}

StartRx(p) ==
  /\ pc = "rx" /\ p \in Waiting
  /\ \A q \in Waiting : layout[p] < layout[q] \/ (layout[p] = layout[q] /\ p <= q)
  /\ \/ /\ rx' = [rx EXCEPT ![p] = "down"]
        /\ UNCHANGED pc
     \/ /\ RxFifo(p) \in DOMAIN fifo
        /\ rx' = [rx EXCEPT ![p] = "poll"]
        /\ UNCHANGED pc
     \/ /\ RxFifo(p) \notin DOMAIN fifo
        /\ pc' = "dead" /\ rx' = [q \in Ports |-> "off"]
  /\ UNCHANGED <<layout, known, fifo, secVars, fetchVars, memVars, nic, workVars>>

(* The last node's outcome decides whether main goes on: "failed to start" *)
(* ends the process otherwise.                                             *)
LastNode == CHOOSE n \in {layout[p] : p \in Fast} : \A p \in Fast : layout[p] <= n
PrimReady ==
  /\ pc = "rx" /\ Waiting = {}
  /\ \/ OnNode(Startable, LastNode) # {} /\ pc' = "run" /\ UNCHANGED rx
     \/ /\ OnNode(Startable, LastNode) = {}
        /\ pc' = "dead" /\ rx' = [p \in Ports |-> "off"]
  /\ UNCHANGED <<layout, known, fifo, secVars, fetchVars, memVars, nic, workVars>>

-----------------------------------------------------------------------------
(* lcore_pktFetch                                                          *)

(* What a spoiled pool hands out may be any of its mbufs, one twice, too.  *)
Receive(p, ms) ==
  /\ rx[p] = "poll" /\ bufs[p] = <<>>
  /\ Len(ms) \in 1 .. RxBurst /\ non_ip[p] + Len(ms) <= MaxRx[p]
  /\ p \in spoiled \/ (Range(ms) \subseteq pool[p] /\ IsInjective(ms))
  /\ bufs' = [bufs EXCEPT ![p] = ms]
  /\ pool' = [pool EXCEPT ![p] = @ \ Range(ms)]
  /\ UNCHANGED <<primVars, secVars, dropped, non_ip, spoiled, nic, workVars>>

(* The ring has one producer: an enqueue after the test for room succeeds. *)
AnyFifo(p, m) ==   (* mutant: the FIFO of the first port for every port *)
  /\ fifo' = [fifo EXCEPT ![<<0, 0>>] = Append(@, m)]
Enqueue(p, m) ==
  /\ fifo' = [fifo EXCEPT ![RxFifo(p)] = Append(@, m)]

RoomForAll(f) == Len(fifo[f]) < RingSize   (* mutant: off by one *)
HasRoom(f)    == Len(fifo[f]) < RingSize - 1

Offer(p) ==
  /\ rx[p] = "poll" /\ bufs[p] # <<>>
  /\ non_ip' = [non_ip EXCEPT ![p] = @ + 1]
  /\ \/ HasRoom(RxFifo(p)) /\ Enqueue(p, Head(bufs[p]))
     \/ ~HasRoom(RxFifo(p)) /\ UNCHANGED fifo
  /\ rx' = [rx EXCEPT ![p] = "free"]
  /\ UNCHANGED <<layout, pc, known, secVars, bufs, dropped, memVars, nic, workVars>>

(* rte_pktmbuf_free puts an mbuf unless its reference count was zero; two  *)
(* lcores that read one at the same time both put.                         *)
BeingPut(p) ==
  {m \in UNION {putting[w] : w \in Worker} : PortOf(m) = p}
    \cup (IF rx[p] = "put" THEN {Head(bufs[p])} ELSE {})

CountedOut(m) == \/ PortOf(m) \in spoiled
                 \/ m \in pool[PortOf(m)] \cup BeingPut(PortOf(m))
CountedIn(m)  == PortOf(m) \in spoiled \/ m \notin pool[PortOf(m)]

EndPut(m, overlap) ==
  /\ pool' = [pool EXCEPT ![PortOf(m)] = @ \cup {m}]
  /\ spoiled' = IF overlap THEN spoiled \cup {PortOf(m)} ELSE spoiled

NextFrame(p) ==
  /\ rx' = [rx EXCEPT ![p] = "poll"]
  /\ bufs' = [bufs EXCEPT ![p] = Tail(@)]
  /\ dropped' = [dropped EXCEPT ![p] = @ + 1]

(* The frame is freed and counted as dropped when the ring was full, and,  *)
(* with the result of the enqueue tested the wrong way round, when the     *)
(* ring took it, too.                                                      *)
FreeRefused(p) ==   (* mutant: the test put right, no free after an enqueue *)
  /\ rx[p] = "free"
  /\ \/ ~HasRoom(RxFifo(p)) /\ CountedOut(Head(bufs[p])) /\ NextFrame(p)
     \/ /\ ~HasRoom(RxFifo(p)) /\ CountedIn(Head(bufs[p]))
        /\ rx' = [rx EXCEPT ![p] = "put"]
        /\ UNCHANGED <<bufs, dropped>>
     \/ HasRoom(RxFifo(p)) /\ NextFrame(p)
  /\ UNCHANGED <<layout, pc, known, fifo, secVars, non_ip, memVars, nic, workVars>>
FreeOffered(p) ==
  /\ rx[p] = "free"
  /\ \/ CountedOut(Head(bufs[p])) /\ NextFrame(p)
     \/ /\ CountedIn(Head(bufs[p]))
        /\ rx' = [rx EXCEPT ![p] = "put"]
        /\ UNCHANGED <<bufs, dropped>>
  /\ UNCHANGED <<layout, pc, known, fifo, secVars, non_ip, memVars, nic, workVars>>

RxPutDone(p) ==
  /\ rx[p] = "put"
  /\ EndPut(Head(bufs[p]), \E w \in Worker : \E m \in putting[w] : PortOf(m) = p)
  /\ NextFrame(p)
  /\ UNCHANGED <<layout, pc, known, fifo, secVars, non_ip, nic, workVars>>

-----------------------------------------------------------------------------
(* The secondary launches its workers, each given the address of argPort.  *)

SecStart ==
  /\ sec \in {"off", "exit"} /\ starts < MaxStarts
  /\ pc # "reserve"                                    \* rte_memzone_lookup
  /\ sec' = "launch" /\ loop' = Idle
  /\ starts' = starts + 1
  /\ early' = (pc \in {"count", "fifo"})
  /\ UNCHANGED <<primVars, work, fetchVars, memVars, nic, workVars>>

(* Lcores of the node that are neither running nor, by Worker, the master. *)
Free == {w \in Worker \ loop.used : SocketOf[w] = loop.index}
NodeHasPorts == OnNode(known, loop.index) # {}
EnoughCores  == CoreCount[loop.index] >= Count(known) + 1
CanLaunch    == NodeHasPorts /\ EnoughCores /\ loop.j < Count(known) /\ Free # {}

Launch(w) ==
  /\ sec = "launch" /\ loop.index \in Node /\ CanLaunch /\ w \in Free
  /\ loop' = [loop EXCEPT !.argPort = loop.j, !.j = @ + 1, !.ret = 0,
                          !.used = @ \cup {w}]
  /\ work' = [work EXCEPT ![w] = <<"launched">>]
  /\ UNCHANGED <<primVars, sec, starts, early, fetchVars, memVars, nic, workVars>>

(* argPort is set to 0 again for every node.                               *)
NextNode ==
  /\ sec = "launch" /\ loop.index \in Node /\ ~CanLaunch
  /\ loop' = [loop EXCEPT
       !.index = @ + 1, !.j = 0,
       !.argPort = IF loop.index < NumNodes - 1 THEN 0 ELSE @,
       !.ret = IF NodeHasPorts /\ ~EnoughCores THEN -1 ELSE @]
  /\ UNCHANGED <<primVars, sec, work, starts, early, fetchVars, memVars, nic, workVars>>

(* What the secondary leaves behind: rings, pools and transmit queues, in  *)
(* the middle of whatever its workers were doing to them.                  *)
Gone(end) ==
  /\ sec' = end /\ loop' = Idle
  /\ work' = [w \in Worker |-> <<"off">>]
  /\ hand' = [w \in Worker |-> <<>>]
  /\ taking' = {} /\ wedged' = wedged \cup {work[w] : w \in taking}
  /\ frees' = [w \in Worker |-> {}] /\ putting' = [w \in Worker |-> {}]
  /\ spoiled' = spoiled \cup {PortOf(m) : m \in UNION {putting[w] : w \in Worker}}

SecReady ==
  /\ sec = "launch" /\ loop.index = NumNodes
  /\ \/ loop.ret = 0 /\ sec' = "run" /\ UNCHANGED <<loop, work, spoiled, workVars>>
     \/ loop.ret # 0 /\ Gone("exit")
  /\ UNCHANGED <<primVars, starts, early, fetchVars, pool, nic>>

SecCrash ==
  /\ sec \in {"launch", "run"}
  /\ Gone("off")
  /\ UNCHANGED <<primVars, starts, early, fetchVars, pool, nic>>

-----------------------------------------------------------------------------
(* lcore_fifoTransmit                                                      *)

(* The index is read through the pointer when the lcore gets to it; a ring *)
(* not found ends the secondary.                                           *)
Begin(w) ==
  LET f == <<SocketOf[w], loop.argPort>> IN
  /\ work[w] = <<"launched">>
  /\ \/ /\ f \in DOMAIN fifo
        /\ work' = [work EXCEPT ![w] = f]
        /\ UNCHANGED <<sec, loop, spoiled, workVars>>
     \/ f \notin DOMAIN fifo /\ Gone("exit")
  /\ UNCHANGED <<primVars, starts, early, fetchVars, pool, nic>>

Serves(w) == work[w] \in DOMAIN fifo

(* rte_ring_dequeue_burst moves the consumers' head over a burst of at     *)
(* most WorkBurst, copies it and moves the tail when it is up to there: a  *)
(* dequeue waits for those begun before it.                                *)
Idling(w) == hand[w] = <<>> /\ frees[w] = {} /\ putting[w] = {}
BurstOf(q) == IF Len(q) < WorkBurst THEN Len(q) ELSE WorkBurst
Passable(f) == f \notin wedged /\ \A v \in taking : work[v] # f

TakeBulk(w) ==   (* mutant: all or nothing, as rte_ring_sc_dequeue_bulk *)
  /\ Serves(w) /\ Idling(w) /\ Len(fifo[work[w]]) >= WorkBurst /\ Passable(work[w])
  /\ hand' = [hand EXCEPT ![w] = SubSeq(fifo[work[w]], 1, WorkBurst)]
  /\ taking' = taking \cup {w}
  /\ UNCHANGED <<primVars, secVars, fetchVars, memVars, nic, wedged, frees, putting>>
Take(w) ==
  /\ Serves(w) /\ Idling(w) /\ fifo[work[w]] # <<>> /\ Passable(work[w])
  /\ hand' = [hand EXCEPT ![w] = SubSeq(fifo[work[w]], 1, BurstOf(fifo[work[w]]))]
  /\ taking' = taking \cup {w}
  /\ UNCHANGED <<primVars, secVars, fetchVars, memVars, nic, wedged, frees, putting>>

Taken(w) ==
  /\ w \in taking
  /\ fifo' = [fifo EXCEPT ![work[w]] = SubSeq(@, Len(hand[w]) + 1, Len(@))]
  /\ taking' = taking \ {w}
  /\ UNCHANGED <<layout, pc, known, rx, secVars, fetchVars, memVars, nic, hand,
                 wedged, frees, putting>>

(* rte_eth_tx_burst on the port of the first mbuf: it frees what the queue *)
(* held, if that is out, and takes n; the worker frees the rest.           *)
Transmit(w, n, completed) ==
  /\ hand[w] # <<>> /\ w \notin taking /\ n \in 0 .. Len(hand[w])
  /\ LET p    == PortOf(hand[w][1])
         done == IF completed THEN nic[p] ELSE {}
     IN /\ nic' = [nic EXCEPT ![p] = (@ \ done) \cup Range(SubSeq(hand[w], 1, n))]
        /\ frees' = [frees EXCEPT ![w] =
                       done \cup Range(SubSeq(hand[w], n + 1, Len(hand[w])))]
  /\ hand' = [hand EXCEPT ![w] = <<>>]
  /\ UNCHANGED <<primVars, secVars, fetchVars, memVars, taking, wedged, putting>>

(* The frees of one transmit call, one put after the other.                *)
Put(w, m) ==
  /\ m \in frees[w] /\ putting[w] = {}
  /\ frees' = [frees EXCEPT ![w] = @ \ {m}]
  /\ \/ CountedOut(m) /\ UNCHANGED putting
     \/ CountedIn(m) /\ putting' = [putting EXCEPT ![w] = {m}]
  /\ UNCHANGED <<primVars, secVars, fetchVars, memVars, nic, hand, taking, wedged>>

PutDone(w, m) ==
  /\ m \in putting[w]
  /\ EndPut(m, \/ rx[PortOf(m)] = "put"
               \/ \E v \in Worker \ {w} : \E o \in putting[v] : PortOf(o) = PortOf(m))
  /\ putting' = [putting EXCEPT ![w] = {}]
  /\ UNCHANGED <<primVars, secVars, fetchVars, nic, hand, taking, wedged, frees>>

-----------------------------------------------------------------------------
BringUp == \/ ReserveZone \/ CreateFifo \/ PrimReady
           \/ \E p \in Ports : CountPort(p) \/ StartRx(p)

Bursts(p) == UNION {[1 .. n -> Mbuf(p)] : n \in 1 .. RxBurst}
Handle(p) == Offer(p) \/ FreeOffered(p) \/ RxPutDone(p)
Fetch(p)  == (\E ms \in Bursts(p) : Receive(p, ms)) \/ Handle(p)

Launching == (\E w \in Worker : Launch(w)) \/ NextNode \/ SecReady

Sending(w) == \E n \in 0 .. WorkBurst, completed \in BOOLEAN : Transmit(w, n, completed)
Freeing(w) == \E m \in AllMbufs : Put(w, m) \/ PutDone(w, m)
WorkOn(w)  == Begin(w) \/ Take(w) \/ Taken(w) \/ Sending(w) \/ Freeing(w)

Next == \/ BringUp \/ (\E p \in Ports : Fetch(p))
        \/ SecStart \/ Launching \/ SecCrash
        \/ \E w \in Worker : WorkOn(w)

(* Every lcore loops for ever; starting the secondary is up to the user.   *)
Fairness == /\ WF_vars(BringUp) /\ \A p \in Ports : WF_vars(Handle(p))
            /\ WF_vars(Launching) /\ \A w \in Worker : WF_vars(WorkOn(w))

Spec == Init /\ [][Next]_vars /\ Fairness

-----------------------------------------------------------------------------
(* Since the fetching lcore frees what it has queued, too, no mbuf is lost *)
(* with the burst of a secondary that crashes: what is not in its pool, or *)
(* being put there, is in the hands of the lcore that received it.  Only a *)
(* pool that two processes put into at the same time, or that a crash      *)
(* caught in a put, may lose some.                                         *)
NothingLeaks == \A p \in Ports \ spoiled :
                  pool[p] \cup Range(bufs[p]) \cup BeingPut(p) = Mbuf(p)

(* A burst is transmitted whole on the port of its first frame: that is    *)
(* right, since a worker only ever takes the frames of one port, even if   *)
(* it began on the ring of another worker or after a restart.              *)
OnePortBursts == \A w \in Worker : \A k \in 1 .. Len(hand[w]) :
                   /\ PortOf(hand[w][k]) = PortOf(hand[w][1])
                   /\ work[w] = RxFifo(PortOf(hand[w][k]))

(* What the README promises, that the secondary consumes the primary's     *)
(* traffic, needs every frame of a burst to be one of its own.  The code   *)
(* frees an mbuf it has just queued: the next frame may be received into   *)
(* it and queued behind it, so that a burst has one frame twice and        *)
(* another not at all.                                                     *)
FramesAreTakenOnce == \A w \in Worker : IsInjective(hand[w])

(* A secondary ends by itself only when it was started before the primary  *)
(* had created the FIFOs, or on a machine with ports off node 0 or too few *)
(* lcores; however late the workers read their index.                      *)
Suitable == (\A p \in Fast : layout[p] = 0) /\ CoreCount[0] >= Count(Fast) + 1
                /\ (\E w \in Worker : SocketOf[w] = 0)
EndsOnlyIfEarly == sec = "exit" => early \/ ~Suitable

(* When the traffic stops (in the model after MaxRx frames), a FIFO that a *)
(* worker serves runs empty, a crashed secondary's leftovers included,     *)
(* unless the crash was in the middle of a dequeue and wedged the ring.    *)
ServedFifosDrain ==
  \A k \in Ports :
    []<>((\E w \in Worker : work[w] = <<0, k>>)
           => fifo[<<0, k>>] = <<>> \/ <<0, k>> \in wedged)

=============================================================================
