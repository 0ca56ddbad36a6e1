-------------------------- MODULE LcoreLaunchProofs --------------------------
(***************************************************************************)
(* Theorems about the bring-up of the work distributor, for any machine of *)
(* up to 31 lcores and eight ports, any link speeds and any argument: the  *)
(* types, that every FIFO has one worker before an RX lcore may use it,    *)
(* and that no launch meets a busy lcore.                                  *)
(***************************************************************************)
EXTENDS LcoreLaunch, FiniteSetTheorems, TLAPS

(* While main is inside a node, the lcores of the node up to wlcore are    *)
(* those launched, and they are as many as the loops have counted.         *)
InNode == mpc \in {"worker", "delay", "port", "bump"}
Behind == {l \in CoreMap(node) : l <= wlcore}

Launches ==
  (IF mpc \in {"port", "bump"} THEN fifoWrk ELSE 0)
    + j + (IF mpc \in {"delay", "bump"} THEN 1 ELSE 0)

Loops ==
  /\ InNode => node <= 1 /\ EnoughCores(node) /\ Cardinality(Behind) = Launches
  /\ mpc = "worker" => j <= fifoWrk
  /\ mpc = "delay" => j < fifoWrk
  /\ mpc = "port" => j <= RxPorts(node) /\ argPort <= 32 * j
  /\ mpc = "bump" => j < RxPorts(node) /\ argPort <= 32 * j + 31

(* The lcores main has not come to yet have no job.                        *)
Ahead(l) == \/ LcoreNode[l] > node
            \/ LcoreNode[l] = node /\ (mpc = "node" \/ (InNode /\ l > wlcore))
Vacant == \A l \in Lcore : Ahead(l) => job[l].fn = "none"

(* The one worker that may not have read its number is the one main waits  *)
(* for, and j still is that number.                                        *)
Readers ==
  /\ \A l \in Lcore : job[l].fn = "worker" =>
       \/ job[l].got = job[l].said
       \/ job[l].got = Unread /\ mpc = "delay" /\ l = wlcore
  /\ mpc = "delay" => /\ wlcore \in CoreMap(node)
                      /\ job[wlcore].fn = "worker" /\ job[wlcore].said = j

(* The workers of node n are meant for the FIFOs below k, one for each.    *)
MeantFor(n, f) == {l \in CoreMap(n) : job[l].fn = "worker" /\ job[l].said = f}
Numbered(n, k) ==
  \A f \in Nat : /\ f < k => \E l \in Lcore : MeantFor(n, f) = {l}
                 /\ f >= k => MeantFor(n, f) = {}
Ready(n) == FifosOf(n) \subseteq fifos /\ Numbered(n, fifoWrk)

Workers ==
  /\ mpc \in {"worker", "delay"} => FifosOf(node) \subseteq fifos /\ Numbered(node, Launches)
  /\ mpc \in {"port", "bump"} => Ready(node)
  /\ \A l \in Lcore : job[l].fn = "rx" =>
       /\ LcoreNode[l] < node \/ (LcoreNode[l] = node /\ mpc \in {"port", "bump"})
       /\ Ready(LcoreNode[l])

BringUp == Loops /\ Vacant /\ Readers /\ Workers
Underway == TypeOK /\ BringUp /\ mpc # "panic"

(* A panic of an RX lcore ends it all, and leaves what was brought up.     *)
LInv == TypeOK /\ OneWorkerPerFifo /\ (mpc = "panic" \/ Underway)
-----------------------------------------------------------------------------
(* Ports and lcores                                                        *)

LEMMA MinIn ==
  ASSUME NEW S, NEW a \in Int, S \subseteq a .. a + 31, S # {}
  PROVE  Min(S) \in S /\ \A y \in S : Min(S) <= y
<1>1. S \subseteq Int
  OBVIOUS
<1>2. \E x \in S : \A y \in S : x <= y
  <2>1. SUFFICES ASSUME \A x \in S : \E y \in S : y < x
                 PROVE  FALSE
    BY <1>1
  <2>2. \A x \in S : \E y \in S : y <= x - 2
    BY <1>1, <2>1
  <2>3. \A x \in S : \E y \in S : y <= x - 4
    BY <1>1, <2>2
  <2>4. \A x \in S : \E y \in S : y <= x - 8
    BY <1>1, <2>3
  <2>5. \A x \in S : \E y \in S : y <= x - 16
    BY <1>1, <2>4
  <2>6. \A x \in S : \E y \in S : y <= x - 32
    BY <1>1, <2>5
  <2>7. PICK x \in S, y \in S : y <= x - 32
    BY <2>6
  <2>8. x \in a .. a + 31 /\ y \in a .. a + 31
    BY <2>7
  <2>9. QED
    BY <2>7, <2>8
<1>3. QED
  BY <1>2 DEF Min

LEMMA Machine ==
  /\ \A n : IsFiniteSet(CoreMap(n)) /\ CoreMap(n) \subseteq Lcore
  /\ Lcore \subseteq 0 .. 30 /\ Port \subseteq 0 .. 7
  /\ \A l \in Lcore : LcoreNode[l] \in 0 .. 1
<1>1. IsFiniteSet(0 .. 30)
  <2>1. 0 \in Int /\ 30 \in Int
    OBVIOUS
  <2>2. QED
    BY <2>1, FS_Interval
<1>2. ASSUME NEW n PROVE IsFiniteSet(CoreMap(n)) /\ CoreMap(n) \subseteq Lcore
  <2>1. CoreMap(n) \subseteq Lcore /\ Lcore \subseteq 0 .. 30
    BY LaunchAssumption DEF CoreMap
  <2>2. QED
    BY <1>1, <2>1, FS_Subset
<1>3. QED
  BY <1>2, LaunchAssumption

LEMMA PortCounts ==
  ASSUME NEW n
  PROVE  /\ PortCount("40G", n) \in Nat /\ PortCount("10G", n) \in Nat
         /\ RxPorts(n) \in Nat /\ RxPorts(n) <= 8
         /\ PortCount("40G", n) > 0 => PortMap("40G", n) # {}
<1> DEFINE A == PortMap("40G", n)
           B == PortMap("10G", n)
<1>1. IsFiniteSet(0 .. 7) /\ Cardinality(0 .. 7) = 8
  <2>1. 0 \in Int /\ 7 \in Int
    OBVIOUS
  <2>2. IsFiniteSet(0 .. 7) /\ Cardinality(0 .. 7) = IF 0 > 7 THEN 0 ELSE 7 - 0 + 1
    BY <2>1, FS_Interval
  <2>3. QED
    BY <2>2
<1>2. A \in SUBSET (0 .. 7) /\ B \in SUBSET (0 .. 7) /\ A \cup B \in SUBSET (0 .. 7)
      /\ A \cap B = {}
  BY Machine DEF PortMap
<1>3. /\ IsFiniteSet(A) /\ IsFiniteSet(B)
      /\ IsFiniteSet(A \cup B) /\ Cardinality(A \cup B) <= 8
  BY <1>1, <1>2, FS_Subset
<1>4. Cardinality(A) \in Nat /\ Cardinality(B) \in Nat
  BY <1>3, FS_CardinalityType
<1>5. Cardinality({}) = 0
  BY FS_EmptySet
<1>6. Cardinality(A \cup B) = Cardinality(A) + Cardinality(B) - Cardinality(A \cap B)
  BY <1>3, FS_Union
<1>7. Cardinality(A) + Cardinality(B) <= 8
  <2>1. Cardinality(A \cup B) = Cardinality(A) + Cardinality(B) - 0
    BY <1>2, <1>5, <1>6
  <2> HIDE DEF A, B
  <2>2. QED
    BY <2>1, <1>3, <1>4
<1>8. Cardinality(A) > 0 => A # {}
  BY <1>5
<1>9. QED
  BY <1>4, <1>7, <1>8 DEF PortCount, RxPorts

(* The mask of a node with ports is never empty, so that the search for    *)
(* the next port ends within one turn of the shift.                        *)
LEMMA NextPort ==
  ASSUME NEW n, RxPorts(n) > 0, NEW a \in Nat
  PROVE  FirstPortFrom(PortMask(n), a) \in a .. a + 31
<1> DEFINE mask == PortMask(n)
           S == {b \in a .. a + 31 : b % 32 \in mask}
<1>1. \E b \in 0 .. 7 : b \in mask
  <2>1. CASE PortCount("40G", n) > 0
    <3>1. PICK p \in PortMap("40G", n) : TRUE
      BY <2>1, PortCounts
    <3>2. p \in 0 .. 7
      BY <3>1, Machine DEF PortMap
    <3>3. QED
      BY <3>1, <3>2 DEF PortMask
  <2>2. CASE ~(PortCount("40G", n) > 0)
    <3>1. PortCount("10G", n) \in 1 .. 8
      BY <2>2, PortCounts DEF RxPorts
    <3>2. PICK k \in 1 .. 8 : k = PortCount("10G", n)
      BY <3>1
    <3>3. \E b \in 0 .. 7 : b \in BitsOf(k)
      <4>1. (k \div 2 ^ 0) % 2 = 1 \/ (k \div 2 ^ 1) % 2 = 1
            \/ (k \div 2 ^ 2) % 2 = 1 \/ (k \div 2 ^ 3) % 2 = 1
        BY <3>2
      <4>2. QED
        BY <4>1 DEF BitsOf
    <3>4. QED
      BY <3>2, <3>3 DEF PortMask
  <2>3. QED
    BY <2>1, <2>2
<1>2. PICK b \in 0 .. 7 : b \in mask
  BY <1>1
<1>3. \E c \in a .. a + 31 : c % 32 = b
  <2>1. PICK q \in 0 .. 31 : q = a % 32
    OBVIOUS
  <2>2. CASE b >= q
    <3>1. a + (b - q) \in a .. a + 31
      BY <2>2
    <3>2. (a + (b - q)) % 32 = b
      BY <2>1, <2>2
    <3>3. QED
      BY <3>1, <3>2
  <2>3. CASE b < q
    <3>1. a + (32 + b - q) \in a .. a + 31
      BY <2>3
    <3>2. (a + (32 + b - q)) % 32 = b
      BY <2>1, <2>3
    <3>3. QED
      BY <3>1, <3>2
  <2>4. QED
    BY <2>2, <2>3
<1>4. S # {} /\ S \subseteq a .. a + 31
  BY <1>2, <1>3
<1>5. Min(S) \in S
  <2>1. a \in Int
    OBVIOUS
  <2> HIDE DEF S
  <2>2. QED
    BY <1>4, <2>1, MinIn
<1>6. QED
  BY <1>5 DEF FirstPortFrom
(* As long as there are launches left, an lcore is left: the core count    *)
(* check asks for one lcore more than there are launches.                  *)
LEMMA NextLcore ==
  ASSUME TypeOK, InNode, Loops, NEW c, c = NextCore(node, wlcore),
         Launches < RxPorts(node) + fifoWrk
  PROVE  /\ c \in CoreMap(node) /\ c \in Lcore /\ LcoreNode[c] = node /\ c > wlcore
         /\ c \in -1 .. 30
         /\ \A l \in CoreMap(node) : l <= c <=> l <= wlcore \/ l = c
         /\ Cardinality({l \in CoreMap(node) : l <= c}) = Launches + 1
<1> DEFINE S == {l \in CoreMap(node) : l > wlcore}
<1>1. IsFiniteSet(CoreMap(node)) /\ CoreMap(node) \subseteq Lcore /\ Lcore \subseteq 0 .. 30
  BY Machine
<1>2. wlcore \in Int /\ RxPorts(node) \in Nat /\ fifoWrk \in Nat /\ j \in Nat
      /\ Launches \in Nat
  BY PortCounts DEF TypeOK, Launches
<1>3. Behind \subseteq CoreMap(node) /\ IsFiniteSet(Behind)
      /\ IsFiniteSet(CoreMap(node)) /\ Cardinality(CoreMap(node)) \in Nat
  <2>1. Behind \subseteq CoreMap(node)
    BY DEF Behind
  <2>2. QED
    BY <1>1, <2>1, FS_Subset, FS_CardinalityType
<1>4. Cardinality(Behind) = Launches /\ Cardinality(CoreMap(node)) > Launches
  BY <1>2, <1>3 DEF Loops, EnoughCores
<1>5. Behind # CoreMap(node)
  BY <1>2, <1>4
<1>6. /\ S # {} /\ S \subseteq 0 .. 0 + 31
      /\ \A l \in CoreMap(node) : l \in Int
  <2>1. 0 .. 30 \subseteq 0 .. 0 + 31 /\ \A l \in 0 .. 30 : l \in Int
    OBVIOUS
  <2>2. PICK l \in CoreMap(node) : l \notin Behind
    BY <1>3, <1>5
  <2>3. l \in Int /\ ~(l <= wlcore)
    BY <1>1, <2>1, <2>2 DEF Behind
  <2>4. l > wlcore
    BY <1>2, <2>3
  <2>5. QED
    BY <1>1, <2>1, <2>2, <2>4
<1>7. c \in S /\ \A y \in S : c <= y
  <2>1. 0 \in Int /\ c = Min(S)
    BY DEF NextCore
  <2> HIDE DEF S
  <2>2. QED
    BY <1>6, <2>1, MinIn
<1>8. \A l \in CoreMap(node) : l <= c <=> l <= wlcore \/ l = c
  BY <1>2, <1>6, <1>7
<1>9. Cardinality({l \in CoreMap(node) : l <= c}) = Launches + 1
  <2>1. {l \in CoreMap(node) : l <= c} = Behind \cup {c} /\ c \notin Behind
    BY <1>2, <1>6, <1>7, <1>8 DEF Behind
  <2>2. Cardinality(Behind \cup {c}) = IF c \in Behind THEN Cardinality(Behind)
                                        ELSE Cardinality(Behind) + 1
    BY <1>3, FS_AddElement
  <2>3. QED
    BY <2>1, <2>2, <1>4
<1>10. QED
  BY <1>1, <1>7, <1>8, <1>9 DEF CoreMap

-----------------------------------------------------------------------------
(* What steps do to the workers of a node                                  *)

LEMMA SameWorkers ==
  ASSUME NEW n, fifoWrk' = fifoWrk, fifos \subseteq fifos',
         \A l \in CoreMap(n) :
           /\ (job[l].fn)' = "worker" <=> job[l].fn = "worker"
           /\ job[l].fn = "worker" => (job[l].said)' = job[l].said
  PROVE  /\ \A k : Numbered(n, k) => Numbered(n, k)'
         /\ Ready(n) => Ready(n)'
<1>1. \A f : MeantFor(n, f)' = MeantFor(n, f)
  BY DEF MeantFor, CoreMap
<1>2. \A k : Numbered(n, k) => Numbered(n, k)'
  BY <1>1 DEF Numbered
<1>3. QED
  BY <1>2 DEF Ready, FifosOf

(* A FIFO whose workers are ready has one worker that reads its number.    *)
LEMMA ReadyIsServed ==
  ASSUME TypeOK, Readers, NEW n \in 0 .. 1, Ready(n), n # node \/ mpc # "delay",
         NEW f \in 0 .. fifoWrk - 1
  PROVE  <<n, f>> \in fifos /\ Cardinality(ServedBy(n, f)) = 1
<1>1. f \in Nat /\ f < fifoWrk /\ f # Unread
  BY DEF TypeOK, Unread
<1>2. \A l \in CoreMap(n) : job[l].fn = "worker" => job[l].got = job[l].said
  BY DEF Readers, CoreMap
<1>3. ServedBy(n, f) = MeantFor(n, f)
  BY <1>2 DEF ServedBy, MeantFor
<1>4. PICK l : MeantFor(n, f) = {l}
  BY <1>1 DEF Ready, Numbered
<1>5. QED
  BY <1>3, <1>4, FS_Singleton DEF Ready, FifosOf

LEMMA ServedWhenUsed == TypeOK /\ BringUp => OneWorkerPerFifo
<1> SUFFICES ASSUME TypeOK, BringUp, NEW l \in Lcore, job[l].fn = "rx",
                    NEW f \in 0 .. fifoWrk - 1
             PROVE  /\ <<LcoreNode[l], f>> \in fifos
                    /\ Cardinality(ServedBy(LcoreNode[l], f)) = 1
  BY DEF OneWorkerPerFifo
<1>1. LcoreNode[l] \in 0 .. 1 /\ node \in Int
  BY Machine DEF TypeOK
<1>2. Ready(LcoreNode[l]) /\ (LcoreNode[l] # node \/ mpc # "delay")
  BY <1>1 DEF BringUp, Workers
<1>3. QED
  BY <1>1, <1>2, ReadyIsServed DEF BringUp
-----------------------------------------------------------------------------
(* The steps of main                                                       *)

LEMMA InitBringsUp == Init => Underway
<1> SUFFICES ASSUME Init PROVE Underway
  OBVIOUS
<1>1. fifoWrk \in 1 .. 255 /\ arg \in FifoArgs
  <2>1. CASE arg = NoArg
    BY <2>1, LaunchAssumption DEF Init, ParseFifo
  <2>2. CASE arg # NoArg
    <3>1. arg \in 1 .. 512
      BY <2>2, LaunchAssumption DEF Init
    <3>2. Masked(arg) \in 0 .. 254
      BY <3>1 DEF Masked
    <3>3. QED
      BY <2>2, <3>2, LaunchAssumption DEF Init, ParseFifo
  <2>3. QED
    BY <2>1, <2>2
<1>2. \A l \in Lcore : job[l] = NoJob /\ NoJob.fn = "none"
  BY DEF Init, NoJob
<1>3. NoJob \in [fn : {"none", "worker", "rx"}, said : Nat, got : Int]
  BY DEF NoJob, Unread
<1>4. TypeOK
  BY <1>1, <1>3 DEF Init, TypeOK
<1>5. Loops /\ mpc # "panic"
  BY DEF Init, Loops, InNode
<1>6. Vacant /\ Readers /\ Workers
  BY <1>2 DEF Init, Vacant, Readers, Workers
<1>7. QED
  BY <1>4, <1>5, <1>6 DEF Underway, BringUp

(* A node without a worker has none of a number.                           *)
LEMMA NoWorkers ==
  ASSUME NEW n, \A l \in CoreMap(n) : job[l].fn # "worker"
  PROVE  Numbered(n, 0)
<1>1. \A f : MeantFor(n, f) = {}
  BY DEF MeantFor
<1>2. QED
  BY <1>1 DEF Numbered

LEMMA StartNodeInv == ASSUME Underway, StartNode PROVE Underway'
<1> USE DEF Underway, BringUp
<1>1. /\ node \in 0 .. 1 /\ fifoWrk \in 1 .. 255
      /\ UNCHANGED <<arg, fifoWrk, speed, node, job>>
  BY DEF StartNode, TypeOK, setup
<1>2. CASE EnoughCores(node) /\ mpc' = "worker" /\ fifos' = fifos \cup FifosOf(node)
           /\ argPort' = fifoWrk - 1 /\ wlcore' = -1 /\ j' = 0
  <2>1. FifosOf(node) \subseteq (0 .. 1) \X (0 .. 254)
    BY <1>1 DEF FifosOf
  <2>2. TypeOK'
    BY <1>1, <1>2, <2>1 DEF TypeOK
  <2>3. Cardinality({}) = 0 /\ Behind' = {}
    <3>1. \A l \in CoreMap(node) : ~(l <= -1)
      <4>1. \A l \in 0 .. 30 : ~(l <= -1)
        OBVIOUS
      <4>2. QED
        BY <4>1, Machine
    <3>2. QED
      BY <1>1, <1>2, <3>1, FS_EmptySet DEF Behind, CoreMap
  <2>4. Loops'
    BY <1>1, <1>2, <2>3 DEF Loops, InNode, Launches, EnoughCores, RxPorts, CoreMap,
       PortCount, PortMap
  <2>5. mpc = "node" /\ mpc' # "panic"
    BY <1>2 DEF StartNode
  <2>6. Vacant'
    BY <1>1, <1>2, <2>5 DEF Vacant, Ahead, InNode
  <2>7. Readers'
    BY <1>1, <1>2, <2>5 DEF Readers
  <2>8. \A l \in CoreMap(node) : job[l].fn # "worker"
    BY <2>5 DEF Vacant, Ahead, CoreMap
  <2>9. Numbered(node, 0)'
    BY <2>8, <1>1, <1>2, NoWorkers, SameWorkers
  <2>10. \A n : Ready(n) => Ready(n)'
    BY <1>1, <1>2, SameWorkers
  <2>11. Workers'
    <3>1. (FifosOf(node) \subseteq fifos /\ Numbered(node, Launches))'
      <4>1. Launches' = 0
        BY <1>2 DEF Launches
      <4>2. QED
        BY <1>1, <1>2, <2>9, <4>1 DEF FifosOf, Numbered, MeantFor, CoreMap
    <3>2. ASSUME NEW l \in Lcore, (job[l].fn)' = "rx"
          PROVE  (LcoreNode[l] < node)' /\ Ready(LcoreNode[l])'
      BY <1>1, <2>5, <2>10, <3>2 DEF Workers
    <3>3. QED
      BY <1>2, <3>1, <3>2 DEF Workers
  <2>12. QED
    BY <2>2, <2>4, <2>5, <2>6, <2>7, <2>11
<1>3. CASE mpc' = "exit" /\ UNCHANGED <<fifos, argPort, wlcore, j>>
  <2>1. TypeOK' /\ mpc = "node" /\ mpc' # "panic"
    BY <1>1, <1>3 DEF TypeOK, StartNode
  <2>2. Loops' /\ Vacant'
    BY <1>1, <1>3, <2>1 DEF Loops, InNode, Vacant, Ahead
  <2>3. Readers'
    BY <1>1, <1>3, <2>1 DEF Readers
  <2>4. \A n : Ready(n) => Ready(n)'
    BY <1>1, <1>3, SameWorkers
  <2>5. Workers'
    BY <1>1, <1>3, <2>1, <2>4 DEF Workers
  <2>6. QED
    BY <2>1, <2>2, <2>3, <2>5
<1>4. QED
  BY <1>2, <1>3 DEF StartNode

LEMMA SkipNodeInv == ASSUME Underway, SkipNode PROVE Underway'
<1> USE DEF Underway, BringUp
<1>1. /\ node \in 0 .. 1 /\ node' = node + 1 /\ mpc = "node" /\ mpc' = "node"
      /\ UNCHANGED <<arg, fifoWrk, speed, j, argPort, wlcore, fifos, job>>
  BY DEF SkipNode, TypeOK, setup
<1>2. TypeOK'
  BY <1>1 DEF TypeOK
<1>3. \A l \in Lcore : LcoreNode[l] \in Int
  BY Machine
<1>4. Loops' /\ Vacant' /\ Readers'
  BY <1>1, <1>3 DEF Loops, InNode, Vacant, Ahead, Readers
<1>5. \A n : Ready(n) => Ready(n)'
  BY <1>1, SameWorkers
<1>6. Workers'
  BY <1>1, <1>3, <1>5 DEF Workers
<1>7. QED
  BY <1>1, <1>2, <1>4, <1>6
(* A launch: the next lcore is idle, so that it gets the job, and only the *)
(* lcore counts of the node move on.                                       *)
LEMMA Launching ==
  ASSUME Underway, mpc \in {"worker", "port"}, Launches < RxPorts(node) + fifoWrk,
         wlcore' = NextCore(node, wlcore), UNCHANGED <<setup, node, fifos>>,
         NEW fn \in {"worker", "rx"}, NEW said \in Nat, NEW next,
         Launch(wlcore', fn, said, next)
  PROVE  /\ job[wlcore'].fn = "none"
         /\ job' = [job EXCEPT ![wlcore'] = [fn |-> fn, said |-> said, got |-> Unread]]
         /\ mpc' = next
         /\ wlcore' \in Lcore /\ LcoreNode[wlcore'] = node /\ wlcore' > wlcore
         /\ wlcore' \in CoreMap(node) /\ wlcore' \in -1 .. 30
         /\ node \in 0 .. 1
         /\ job' \in [Lcore -> [fn : {"none", "worker", "rx"}, said : Nat, got : Int]]
         /\ Cardinality(Behind)' = Launches + 1
         /\ \A l \in Lcore : l # wlcore' => job'[l] = job[l]
         /\ job'[wlcore'] = [fn |-> fn, said |-> said, got |-> Unread]
<1> USE DEF Underway, BringUp
<1>1. InNode /\ node \in 0 .. 1
  BY DEF InNode, Loops, TypeOK
<1>2. PICK c : c = NextCore(node, wlcore)
  OBVIOUS
<1>3. /\ c \in CoreMap(node) /\ c \in Lcore /\ LcoreNode[c] = node /\ c > wlcore
      /\ c \in -1 .. 30
      /\ Cardinality({l \in CoreMap(node) : l <= c}) = Launches + 1
  BY <1>1, <1>2, NextLcore
<1>4. job[c].fn = "none"
  BY <1>1, <1>3 DEF Vacant, Ahead
<1>5. job' = [job EXCEPT ![c] = [fn |-> fn, said |-> said, got |-> Unread]] /\ mpc' = next
  BY <1>2, <1>4 DEF Launch
<1>6. [fn |-> fn, said |-> said, got |-> Unread]
        \in [fn : {"none", "worker", "rx"}, said : Nat, got : Int]
  BY DEF Unread
<1>7. job' \in [Lcore -> [fn : {"none", "worker", "rx"}, said : Nat, got : Int]]
  BY <1>5, <1>6 DEF TypeOK
<1>8. /\ \A l \in Lcore : l # c => job'[l] = job[l]
      /\ job'[c] = [fn |-> fn, said |-> said, got |-> Unread]
  BY <1>3, <1>5 DEF TypeOK
<1>9. Cardinality(Behind)' = Launches + 1
  BY <1>2, <1>3 DEF Behind, CoreMap
<1>10. QED
  BY <1>1, <1>2, <1>3, <1>4, <1>5, <1>7, <1>8, <1>9

(* What is ahead of main after a launch was ahead of it before.            *)
LEMMA LaunchVacant ==
  ASSUME TypeOK, Vacant, InNode, node' = node, InNode', mpc # "node", mpc' # "node",
         wlcore' \in Lcore, LcoreNode[wlcore'] = node, wlcore' > wlcore,
         \A l \in Lcore : l # wlcore' => job'[l] = job[l]
  PROVE  Vacant'
<1> SUFFICES ASSUME NEW l \in Lcore, Ahead(l)' PROVE (job[l].fn)' = "none"
  BY DEF Vacant
<1>1. wlcore \in Int /\ wlcore' \in Int /\ l \in Int
  <2>1. \A k \in 0 .. 30 : k \in Int
    OBVIOUS
  <2>2. wlcore \in Int
    BY DEF TypeOK
  <2>3. QED
    BY <2>1, <2>2, Machine
<1>2. l # wlcore' /\ Ahead(l)
  <2>1. CASE LcoreNode[l] > node
    BY <2>1, Machine DEF Ahead, TypeOK
  <2>2. CASE LcoreNode[l] = node /\ l > wlcore'
    BY <1>1, <2>2 DEF Ahead
  <2>3. QED
    BY <2>1, <2>2 DEF Ahead
<1>3. QED
  BY <1>2 DEF Vacant
(* A launch on an idle lcore leaves the workers of other nodes alone.      *)
LEMMA LaunchElsewhere ==
  ASSUME NEW c \in Lcore, fifoWrk' = fifoWrk, fifos' = fifos,
         \A l \in Lcore : l # c => job'[l] = job[l],
         job[c].fn = "none",
         NEW n, LcoreNode[c] # n \/ job'[c].fn # "worker"
  PROVE  Ready(n) => Ready(n)'
<1>1. \A l \in CoreMap(n) :
        /\ (job[l].fn)' = "worker" <=> job[l].fn = "worker"
        /\ job[l].fn = "worker" => (job[l].said)' = job[l].said
  BY DEF CoreMap
<1>2. QED
  BY <1>1, SameWorkers

LEMMA LaunchWorkerInv == ASSUME Underway, LaunchWorker PROVE Underway'
<1> USE DEF Underway, BringUp
<1>1. mpc = "worker" /\ j < fifoWrk /\ Launches = j
      /\ UNCHANGED <<arg, fifoWrk, speed, node, j, argPort, fifos>>
  BY DEF LaunchWorker, setup, Launches, TypeOK
<1>2. j \in Nat /\ fifoWrk \in 1 .. 255 /\ RxPorts(node) \in Nat
  BY PortCounts DEF TypeOK
<1>3. Launches < RxPorts(node) + fifoWrk
  BY <1>1, <1>2
<1>4. Launch(wlcore', "worker", j, "delay") /\ wlcore' = NextCore(node, wlcore)
  BY DEF LaunchWorker
<1>5. PICK c : c = wlcore'
  OBVIOUS
<1>6. /\ job[c].fn = "none"
      /\ mpc' = "delay"
      /\ c \in Lcore /\ LcoreNode[c] = node /\ c > wlcore
      /\ c \in CoreMap(node) /\ c \in -1 .. 30 /\ node \in 0 .. 1
      /\ job' \in [Lcore -> [fn : {"none", "worker", "rx"}, said : Nat, got : Int]]
      /\ Cardinality(Behind)' = Launches + 1
      /\ \A l \in Lcore : l # c => job'[l] = job[l]
      /\ job'[c] = [fn |-> "worker", said |-> j, got |-> Unread]
  BY <1>1, <1>2, <1>3, <1>4, <1>5, Launching DEF setup
<1>7. TypeOK'
  BY <1>1, <1>5, <1>6 DEF TypeOK
<1>8. Loops'
  <2>1. Launches' = Launches + 1
    BY <1>1, <1>2, <1>6 DEF Launches
  <2>2. node <= 1 /\ EnoughCores(node) /\ EnoughCores(node)'
    BY <1>1 DEF Loops, InNode, EnoughCores, RxPorts, CoreMap, PortCount, PortMap
  <2>3. QED
    BY <1>1, <1>6, <2>1, <2>2 DEF Loops, InNode
<1>9. Vacant'
  BY <1>1, <1>5, <1>6, LaunchVacant DEF InNode
<1>10. Readers'
  <2>1. \A l \in Lcore : (job[l].fn)' = "worker" /\ l # c => (job[l].got)' = (job[l].said)'
    BY <1>1, <1>6 DEF Readers
  <2>2. (job[c].got)' = Unread /\ (job[c].fn)' = "worker" /\ (job[c].said)' = j
    BY <1>6
  <2>3. c \in CoreMap(node)'
    BY <1>1, <1>6 DEF CoreMap
  <2>4. QED
    BY <1>1, <1>5, <1>6, <2>1, <2>2, <2>3 DEF Readers
<1>11. (FifosOf(node) \subseteq fifos /\ Numbered(node, Launches))'
  <2>1. FifosOf(node) \subseteq fifos /\ Numbered(node, j)
    BY <1>1 DEF Workers
  <2>2. ASSUME NEW f \in Nat
        PROVE  MeantFor(node, f)' = IF f = j THEN MeantFor(node, f) \cup {c}
                                             ELSE MeantFor(node, f)
    <3>1. /\ job'[c].fn = "worker" /\ job'[c].said = j
          /\ \A l \in Lcore : l # c => job'[l].fn = job[l].fn /\ job'[l].said = job[l].said
      BY <1>6
    <3>2. MeantFor(node, f)' = {l \in CoreMap(node) : job'[l].fn = "worker" /\ job'[l].said = f}
      BY <1>1 DEF MeantFor, CoreMap
    <3>3. \A l \in CoreMap(node) : l \in Lcore
      BY DEF CoreMap
    <3>4. QED
      BY <1>6, <3>1, <3>2, <3>3 DEF MeantFor
  <2>3. MeantFor(node, j) = {}
    BY <1>2, <2>1 DEF Numbered
  <2>4. Launches' = j + 1
    BY <1>1, <1>2, <1>6 DEF Launches
  <2>5. ASSUME NEW f \in Nat
        PROVE  /\ f < j + 1 => \E l \in Lcore : MeantFor(node, f)' = {l}
               /\ f >= j + 1 => MeantFor(node, f)' = {}
    <3>1. CASE f = j
      BY <1>2, <1>6, <2>2, <2>3, <3>1
    <3>2. CASE f < j
      BY <1>2, <2>1, <2>2, <3>2 DEF Numbered
    <3>3. CASE f > j
      BY <1>2, <2>1, <2>2, <3>3 DEF Numbered
    <3>4. QED
      BY <1>2, <3>1, <3>2, <3>3
  <2>6. QED
    BY <1>1, <2>1, <2>4, <2>5 DEF Numbered, MeantFor, FifosOf, CoreMap
<1>12. Workers'
  <2>1. ASSUME NEW l \in Lcore, (job[l].fn)' = "rx"
        PROVE  (LcoreNode[l] < node)' /\ Ready(LcoreNode[l])'
    <3>1. job[l].fn = "rx" /\ l # c
      <4>1. job'[l].fn = "rx" /\ job'[c].fn = "worker"
        BY <1>6, <2>1
      <4>2. QED
        BY <1>6, <4>1
    <3>2. LcoreNode[l] < node /\ Ready(LcoreNode[l])
      BY <1>1, <3>1 DEF Workers
    <3>3. LcoreNode[c] # LcoreNode[l]
      BY <1>6, <3>2, Machine
    <3>4. QED
      BY <1>1, <1>6, <3>2, <3>3, LaunchElsewhere
  <2>2. QED
    BY <1>6, <1>11, <2>1 DEF Workers
<1>13. QED
  BY <1>6, <1>7, <1>8, <1>9, <1>10, <1>12

(* The delay ends when the worker has read its number, so j may move on.   *)
LEMMA WorkerDelayInv == ASSUME Underway, WorkerDelay PROVE Underway'
<1> USE DEF Underway, BringUp
<1>1. /\ mpc = "delay" /\ mpc' = "worker" /\ j' = j + 1 /\ job[wlcore].got # Unread
      /\ UNCHANGED <<arg, fifoWrk, speed, node, argPort, wlcore, fifos, job>>
  BY DEF WorkerDelay, setup, Started
<1>2. j \in Nat /\ fifoWrk \in 1 .. 255 /\ Launches' = Launches
  BY <1>1 DEF TypeOK, Launches
<1>3. TypeOK'
  BY <1>1 DEF TypeOK
<1>4. Behind' = Behind /\ (EnoughCores(node) => EnoughCores(node)')
  BY <1>1 DEF Behind, CoreMap, EnoughCores, RxPorts, PortCount, PortMap
<1>5. Loops' /\ Vacant'
  BY <1>1, <1>2, <1>4 DEF Loops, InNode, Vacant, Ahead
<1>6. Readers'
  BY <1>1 DEF Readers
<1>7. \A n : (\A k : Numbered(n, k) => Numbered(n, k)') /\ (Ready(n) => Ready(n)')
  BY <1>1, SameWorkers
<1>8. Numbered(node, Launches)'
  <2>1. Numbered(node, Launches)
    BY <1>1 DEF Workers
  <2>2. QED
    BY <1>1, <1>2, <1>7, <2>1 DEF Numbered, MeantFor
<1>9. Workers'
  BY <1>1, <1>7, <1>8 DEF Workers, FifosOf
<1>10. QED
  BY <1>1, <1>3, <1>5, <1>6, <1>9
LEMMA StartPortsInv == ASSUME Underway, StartPorts PROVE Underway'
<1> USE DEF Underway, BringUp
<1>1. /\ mpc = "worker" /\ j = fifoWrk /\ mpc' = "port" /\ j' = 0 /\ argPort' = 0
      /\ UNCHANGED <<arg, fifoWrk, speed, node, wlcore, fifos, job>>
  BY DEF StartPorts, setup
<1>2. fifoWrk \in Nat /\ Launches = fifoWrk /\ Launches' = fifoWrk
  BY <1>1 DEF TypeOK, Launches
<1>3. TypeOK'
  BY <1>1 DEF TypeOK
<1>4. /\ Behind' = Behind /\ (EnoughCores(node) => EnoughCores(node)')
      /\ RxPorts(node)' = RxPorts(node)
  BY <1>1 DEF Behind, CoreMap, EnoughCores, RxPorts, PortCount, PortMap
<1>5. Loops' /\ Vacant'
  BY <1>1, <1>2, <1>4, PortCounts DEF Loops, InNode, Vacant, Ahead
<1>6. Readers'
  BY <1>1 DEF Readers
<1>7. \A n : Ready(n) => Ready(n)'
  BY <1>1, SameWorkers
<1>8. Ready(node)'
  <2>1. Ready(node)
    BY <1>1, <1>2 DEF Workers, Ready
  <2>2. PICK n : n = node
    OBVIOUS
  <2>3. Ready(n)'
    BY <1>7, <2>1, <2>2
  <2>4. QED
    BY <1>1, <2>2, <2>3
<1>9. Workers'
  BY <1>1, <1>7, <1>8 DEF Workers
<1>10. QED
  BY <1>1, <1>3, <1>5, <1>6, <1>9

LEMMA LaunchPortInv == ASSUME Underway, LaunchPort PROVE Underway'
<1> USE DEF Underway, BringUp
<1>1. mpc = "port" /\ j < RxPorts(node) /\ Launches = fifoWrk + j
      /\ UNCHANGED <<arg, fifoWrk, speed, node, j, fifos>>
  BY DEF LaunchPort, setup, Launches, TypeOK
<1>2. j \in Nat /\ fifoWrk \in 1 .. 255 /\ RxPorts(node) \in Nat /\ RxPorts(node) <= 8
      /\ argPort \in Nat /\ argPort <= 32 * j
  BY <1>1, PortCounts DEF TypeOK, Loops
<1>3. Launches < RxPorts(node) + fifoWrk
  BY <1>1, <1>2
<1>4. Launch(wlcore', "rx", argPort', "bump") /\ wlcore' = NextCore(node, wlcore)
      /\ argPort' = FirstPortFrom(PortMask(node), argPort)
  BY DEF LaunchPort
<1>5. argPort' \in argPort .. argPort + 31
  <2>1. RxPorts(node) > 0
    BY <1>1, <1>2
  <2>2. QED
    BY <1>2, <1>4, <2>1, NextPort
<1>6. argPort' \in 0 .. 255 /\ argPort' \in Nat /\ argPort' <= 32 * j + 31
  BY <1>1, <1>2, <1>5
<1>7. PICK c : c = wlcore'
  OBVIOUS
<1>8. PICK a \in Nat : a = argPort'
  BY <1>6
<1>9. /\ job[c].fn = "none"
      /\ mpc' = "bump"
      /\ c \in Lcore /\ LcoreNode[c] = node /\ c > wlcore
      /\ c \in CoreMap(node) /\ c \in -1 .. 30 /\ node \in 0 .. 1
      /\ job' \in [Lcore -> [fn : {"none", "worker", "rx"}, said : Nat, got : Int]]
      /\ Cardinality(Behind)' = Launches + 1
      /\ \A l \in Lcore : l # c => job'[l] = job[l]
      /\ job'[c] = [fn |-> "rx", said |-> a, got |-> Unread]
  BY <1>1, <1>2, <1>3, <1>4, <1>7, <1>8, Launching DEF setup
<1>10. TypeOK'
  BY <1>1, <1>6, <1>7, <1>9 DEF TypeOK
<1>11. Loops'
  <2>1. Launches' = Launches + 1
    BY <1>1, <1>2, <1>9 DEF Launches
  <2>2. node <= 1 /\ EnoughCores(node) /\ EnoughCores(node)' /\ RxPorts(node)' = RxPorts(node)
    BY <1>1 DEF Loops, InNode, EnoughCores, RxPorts, CoreMap, PortCount, PortMap
  <2>3. QED
    BY <1>1, <1>6, <1>9, <2>1, <2>2 DEF Loops, InNode
<1>12. Vacant'
  BY <1>1, <1>7, <1>9, LaunchVacant DEF InNode
<1>13. Readers'
  <2>1. \A l \in Lcore : (job[l].fn)' = "worker" /\ l # c => (job[l].got)' = (job[l].said)'
    BY <1>1, <1>9 DEF Readers
  <2>2. (job[c].fn)' = "rx"
    BY <1>9
  <2>3. QED
    BY <1>1, <1>9, <2>1, <2>2 DEF Readers
<1>14. \A n : Ready(n) => Ready(n)'
  <2>1. job'[c].fn # "worker"
    BY <1>9
  <2>2. QED
    BY <1>1, <1>9, <2>1, LaunchElsewhere
<1>15. Ready(node)'
  <2>1. PICK n : n = node
    OBVIOUS
  <2>2. Ready(n)'
    BY <1>1, <1>14, <2>1 DEF Workers
  <2>3. QED
    BY <1>1, <2>1, <2>2
<1>16. Workers'
  <2>1. ASSUME NEW l \in Lcore, (job[l].fn)' = "rx"
        PROVE  (LcoreNode[l] < node \/ LcoreNode[l] = node)' /\ Ready(LcoreNode[l])'
    <3>1. CASE l = c
      BY <1>1, <1>9, <1>15, <3>1
    <3>2. CASE l # c
      <4>1. job[l].fn = "rx"
        BY <1>9, <2>1, <3>2
      <4>2. QED
        BY <1>1, <1>14, <4>1 DEF Workers
    <3>3. QED
      BY <3>1, <3>2
  <2>2. QED
    BY <1>9, <1>15, <2>1 DEF Workers
<1>17. QED
  BY <1>9, <1>10, <1>11, <1>12, <1>13, <1>16

(* Eight launches with at most 31 ports passed over each leave argPort     *)
(* within its eight bits, or bring it back to zero behind the last.        *)
LEMMA BumpPortInv == ASSUME Underway, BumpPort PROVE Underway'
<1> USE DEF Underway, BringUp
<1>1. /\ mpc = "bump" /\ mpc' = "port" /\ j' = j + 1 /\ argPort' = (argPort + 1) % 256
      /\ UNCHANGED <<arg, fifoWrk, speed, node, wlcore, fifos, job>>
  BY DEF BumpPort, setup
<1>2. j \in Nat /\ fifoWrk \in Nat /\ RxPorts(node) \in Nat /\ argPort \in 0 .. 255
      /\ Launches' = Launches
  BY <1>1, PortCounts DEF TypeOK, Launches
<1>3. argPort' \in 0 .. 255 /\ argPort' <= argPort + 1
  BY <1>1, <1>2
<1>4. TypeOK'
  BY <1>1, <1>3 DEF TypeOK
<1>5. /\ Behind' = Behind /\ (EnoughCores(node) => EnoughCores(node)')
      /\ RxPorts(node)' = RxPorts(node)
  BY <1>1 DEF Behind, CoreMap, EnoughCores, RxPorts, PortCount, PortMap
<1>6. Loops'
  <2>1. j + 1 <= RxPorts(node) /\ argPort <= 32 * j + 31
    BY <1>1, <1>2 DEF Loops
  <2>2. argPort' <= 32 * (j + 1)
    BY <1>2, <1>3, <2>1
  <2>3. QED
    BY <1>1, <1>2, <1>5, <2>1, <2>2 DEF Loops, InNode
<1>7. Vacant' /\ Readers'
  BY <1>1 DEF Vacant, Ahead, InNode, Readers
<1>8. \A n : Ready(n) => Ready(n)'
  BY <1>1, SameWorkers
<1>9. Ready(node)'
  <2>1. PICK n : n = node
    OBVIOUS
  <2>2. Ready(n)'
    BY <1>1, <1>8, <2>1 DEF Workers
  <2>3. QED
    BY <1>1, <2>1, <2>2
<1>10. Workers'
  BY <1>1, <1>8, <1>9 DEF Workers
<1>11. QED
  BY <1>1, <1>4, <1>6, <1>7, <1>10

LEMMA EndNodeInv == ASSUME Underway, EndNode PROVE Underway'
<1> USE DEF Underway, BringUp
<1>1. /\ mpc = "port" /\ mpc' = "node" /\ node' = node + 1
      /\ UNCHANGED <<arg, fifoWrk, speed, j, argPort, wlcore, fifos, job>>
  BY DEF EndNode, setup
<1>2. node \in 0 .. 1 /\ \A l \in Lcore : LcoreNode[l] \in Int
  BY <1>1, Machine DEF TypeOK, Loops, InNode
<1>3. TypeOK'
  BY <1>1, <1>2 DEF TypeOK
<1>4. Loops' /\ Vacant' /\ Readers'
  BY <1>1, <1>2 DEF Loops, InNode, Vacant, Ahead, Readers
<1>5. \A n : Ready(n) => Ready(n)'
  BY <1>1, SameWorkers
<1>6. Workers'
  BY <1>1, <1>2, <1>5 DEF Workers
<1>7. QED
  BY <1>1, <1>3, <1>4, <1>6

LEMMA DisplayInv == ASSUME Underway, Display PROVE Underway'
<1> USE DEF Underway, BringUp
<1>1. /\ mpc = "node" /\ mpc' = "display"
      /\ UNCHANGED <<arg, fifoWrk, speed, node, j, argPort, wlcore, fifos, job>>
  BY DEF Display, setup
<1>2. TypeOK' /\ Loops' /\ Vacant' /\ Readers'
  BY <1>1 DEF TypeOK, Loops, InNode, Vacant, Ahead, Readers
<1>3. \A n : Ready(n) => Ready(n)'
  BY <1>1, SameWorkers
<1>4. Workers'
  BY <1>1, <1>3 DEF Workers
<1>5. QED
  BY <1>1, <1>2, <1>4

-----------------------------------------------------------------------------
(* The steps of the lcores                                                 *)

(* Reading a number changes nothing of what an lcore was launched for.     *)
LEMMA StartStays ==
  ASSUME Underway, NEW l \in Lcore, NEW g \in Int, mpc' = mpc,
         job' = [job EXCEPT ![l].got = g],
         UNCHANGED <<setup, node, j, argPort, wlcore, fifos>>
  PROVE  TypeOK' /\ Loops' /\ Vacant' /\ Workers' /\ mpc' # "panic"
<1> USE DEF Underway, BringUp
<1>1. /\ \A k \in Lcore : job'[k].fn = job[k].fn /\ job'[k].said = job[k].said
      /\ job' \in [Lcore -> [fn : {"none", "worker", "rx"}, said : Nat, got : Int]]
  BY DEF TypeOK
<1>2. TypeOK'
  BY <1>1 DEF TypeOK, setup
<1>3. /\ Behind' = Behind /\ Launches' = Launches
      /\ (EnoughCores(node) => EnoughCores(node)') /\ RxPorts(node)' = RxPorts(node)
  BY DEF setup, Behind, Launches, EnoughCores, RxPorts, PortCount, PortMap, CoreMap
<1>4. Loops' /\ Vacant'
  <2>1. Loops'
    BY <1>3 DEF Loops, InNode, setup
  <2>2. Vacant'
    BY <1>1 DEF Vacant, Ahead, InNode
  <2>3. QED
    BY <2>1, <2>2
<1>5. \A n : (\A k : Numbered(n, k) => Numbered(n, k)') /\ (Ready(n) => Ready(n)')
  BY <1>1, SameWorkers DEF setup, CoreMap
<1>6. PICK n, k : n = node /\ k = Launches
  OBVIOUS
<1>7. (Numbered(n, k) => Numbered(n, k)') /\ (Ready(n) => Ready(n)')
  BY <1>5
<1>8. (Ready(node) => Ready(node)') /\ (Numbered(node, Launches) => Numbered(node, Launches)')
      /\ FifosOf(node)' = FifosOf(node)
  <2>1. Ready(node)' <=> Ready(n)'
    BY <1>6 DEF Ready, FifosOf, Numbered, MeantFor, setup
  <2>2. Numbered(node, Launches)' <=> Numbered(n, k)'
    BY <1>3, <1>6 DEF Numbered, MeantFor
  <2>3. QED
    BY <1>6, <1>7, <2>1, <2>2 DEF FifosOf, setup
<1>9. Workers'
  BY <1>1, <1>5, <1>8 DEF Workers
<1>10. QED
  BY <1>2, <1>4, <1>9
(* The one worker that has not read its number finds it unchanged, and a   *)
(* FIFO behind it: a worker never panics.                                  *)
LEMMA WorkerStartsInv ==
  ASSUME Underway, NEW l \in Lcore, WorkerStarts(l)
  PROVE  Underway' /\ job' # job
<1> USE DEF Underway, BringUp
<1>1. /\ job[l].fn = "worker" /\ job[l].got = Unread /\ job' = [job EXCEPT ![l].got = j]
      /\ UNCHANGED <<arg, fifoWrk, speed, node, j, argPort, wlcore, fifos>>
      /\ j \in Int /\ job[l].said \in Nat /\ j # Unread
  BY DEF WorkerStarts, setup, TypeOK, Unread
<1>2. mpc = "delay" /\ l = wlcore /\ job[l].said = j /\ LcoreNode[l] = node
  BY <1>1 DEF Readers, Unread, CoreMap
<1>3. <<LcoreNode[l], j>> \in fifos
  <2>1. FifosOf(node) \subseteq fifos /\ j < fifoWrk /\ j \in Nat /\ fifoWrk \in Nat
    BY <1>2 DEF Workers, Loops, TypeOK
  <2>2. <<node, j>> \in FifosOf(node)
    BY <2>1 DEF FifosOf
  <2>3. QED
    BY <1>2, <2>1, <2>2
<1>4. mpc' = mpc
  BY <1>3 DEF WorkerStarts
<1>5. TypeOK' /\ Loops' /\ Vacant' /\ Workers' /\ mpc' # "panic"
  BY <1>1, <1>4, StartStays DEF setup
<1>6. /\ \A k \in Lcore : job'[k].fn = job[k].fn /\ job'[k].said = job[k].said
                          /\ (k # l => job'[k].got = job[k].got)
      /\ job'[l].got = j
  BY <1>1 DEF TypeOK
<1>7. Readers'
  BY <1>1, <1>2, <1>4, <1>6 DEF Readers, CoreMap
<1>8. QED
  BY <1>1, <1>5, <1>6, <1>7

LEMMA RxStartsInv ==
  ASSUME Underway, OneWorkerPerFifo, NEW l \in Lcore, RxStarts(l)
  PROVE  TypeOK' /\ OneWorkerPerFifo' /\ (mpc' = "panic" \/ Underway') /\ job' # job
<1> USE DEF Underway, BringUp
<1>1. /\ job[l].fn = "rx" /\ job[l].got = Unread /\ job' = [job EXCEPT ![l].got = argPort]
      /\ UNCHANGED <<arg, fifoWrk, speed, node, j, argPort, wlcore, fifos>>
      /\ argPort \in Int /\ argPort # Unread
      /\ mpc' = mpc \/ mpc' = "panic"
  BY DEF RxStarts, setup, TypeOK, Unread
<1>2. /\ \A k \in Lcore : job'[k].fn = job[k].fn /\ job'[k].said = job[k].said
                          /\ (k # l => job'[k].got = job[k].got)
      /\ job'[l].got = argPort
      /\ job' \in [Lcore -> [fn : {"none", "worker", "rx"}, said : Nat, got : Int]]
  BY <1>1 DEF TypeOK
<1>3. TypeOK'
  BY <1>1, <1>2 DEF TypeOK
<1>4. OneWorkerPerFifo'
  <2>1. \A n, f : ServedBy(n, f)' = ServedBy(n, f)
    <3>1. \A k \in Lcore : \A f : (job'[k].fn = "worker" /\ job'[k].got = f)
                                <=> (job[k].fn = "worker" /\ job[k].got = f)
      BY <1>1, <1>2
    <3>2. QED
      BY <3>1 DEF ServedBy, CoreMap
  <2>2. QED
    BY <1>1, <1>2, <2>1 DEF OneWorkerPerFifo
<1>5. ASSUME mpc' = mpc PROVE Underway'
  <2>1. Loops' /\ Vacant' /\ Workers' /\ mpc' # "panic"
    BY <1>1, <1>5, StartStays DEF setup
  <2>2. Readers'
    BY <1>1, <1>2, <1>5 DEF Readers, CoreMap
  <2>3. QED
    BY <1>3, <2>1, <2>2
<1>6. QED
  BY <1>1, <1>2, <1>3, <1>4, <1>5

-----------------------------------------------------------------------------
(* The theorems                                                            *)

LEMMA MainStep ==
  ASSUME Underway,
         StartNode \/ SkipNode \/ LaunchWorker \/ WorkerDelay \/ StartPorts
           \/ LaunchPort \/ BumpPort \/ EndNode \/ Display
  PROVE  Underway'
  BY StartNodeInv, SkipNodeInv, LaunchWorkerInv, WorkerDelayInv, StartPortsInv,
     LaunchPortInv, BumpPortInv, EndNodeInv, DisplayInv

LEMMA LInvStep == LInv /\ [Next]_vars => LInv'
<1> SUFFICES ASSUME LInv, [Next]_vars PROVE LInv'
  OBVIOUS
<1>1. CASE mpc # "panic" /\ Next
  <2>1. Underway
    BY <1>1 DEF LInv
  <2>2. ASSUME Underway' PROVE LInv'
    BY <2>2, ServedWhenUsed, PTL DEF LInv, Underway
  <2>3. CASE \E l \in Lcore : WorkerStarts(l) \/ RxStarts(l)
    BY <2>1, <2>2, <2>3, WorkerStartsInv, RxStartsInv DEF LInv
  <2>4. QED
    BY <1>1, <2>1, <2>2, <2>3, MainStep DEF Next
<1>2. CASE mpc = "panic" /\ Next
  BY <1>2 DEF Next, StartNode, SkipNode, LaunchWorker, WorkerDelay, StartPorts,
     LaunchPort, BumpPort, EndNode, Display, WorkerStarts, RxStarts
<1>3. CASE UNCHANGED vars
  <2>1. TypeOK' /\ OneWorkerPerFifo' /\ (mpc = "panic" => mpc' = "panic")
    BY <1>3 DEF LInv, vars, TypeOK, OneWorkerPerFifo, ServedBy, CoreMap
  <2>2. ASSUME Underway PROVE Underway'
    <3>1. Loops' /\ Vacant'
      BY <1>3, <2>2 DEF vars, Underway, BringUp, Loops, InNode, Behind, Launches, EnoughCores,
         RxPorts, PortCount, PortMap, CoreMap, Vacant, Ahead
    <3>2. Readers' /\ Workers'
      BY <1>3, <2>2 DEF vars, Underway, BringUp, Readers, CoreMap, Workers, Ready, FifosOf,
         Numbered, MeantFor, Launches
    <3>3. QED
      BY <1>3, <2>1, <2>2, <3>1, <3>2 DEF Underway, BringUp, vars
  <2>3. QED
    BY <2>1, <2>2 DEF LInv
<1>4. QED
  BY <1>1, <1>2, <1>3

LEMMA LInvAlways == Spec => []LInv
<1>1. Init => LInv
  BY InitBringsUp, ServedWhenUsed DEF LInv, Underway
<1>2. QED
  BY <1>1, LInvStep, PTL DEF Spec

(* Main's variables keep their types; argPort in particular keeps to its   *)
(* eight bits although the search for the next port has no bound.          *)
THEOREM LaunchTypes == Spec => []TypeOK
<1>1. LInv => TypeOK
  BY DEF LInv
<1>2. QED
  BY <1>1, LInvAlways, PTL

(* Every FIFO exists and has one worker before an RX lcore of its node is  *)
(* launched, although all workers of a node are pointed to the same j.     *)
THEOREM FifosHaveOneWorker == Spec => []OneWorkerPerFifo
<1>1. LInv => OneWorkerPerFifo
  BY DEF LInv
<1>2. QED
  BY <1>1, LInvAlways, PTL

(* The core count check suffices: main never launches a busy lcore.        *)
THEOREM LaunchesAreOnIdleLcores == Spec => LaunchesFindIdleLcores
<1>1. LInv /\ [Next]_vars => [mpc' = "panic" => mpc \notin {"worker", "port"} \/ job' # job]_vars
  <2> SUFFICES ASSUME LInv, Next, mpc' = "panic"
               PROVE  mpc \notin {"worker", "port"} \/ job' # job
    OBVIOUS
  <2>1. CASE mpc = "panic"
    BY <2>1
  <2>2. CASE mpc # "panic"
    <3>1. Underway /\ OneWorkerPerFifo
      BY <2>2 DEF LInv
    <3>2. \E l \in Lcore : WorkerStarts(l) \/ RxStarts(l)
      BY <3>1, MainStep DEF Next, Underway
    <3>3. QED
      BY <3>1, <3>2, WorkerStartsInv, RxStartsInv
  <2>3. QED
    BY <2>1, <2>2
<1>2. QED
  BY <1>1, LInvAlways, PTL DEF Spec, LaunchesFindIdleLcores

=============================================================================
