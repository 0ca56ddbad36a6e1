---------------------------- MODULE LcoreLaunch ----------------------------
(***************************************************************************)
(* How the master lcore of workdistributor-noeventdev brings the program   *)
(* up (main, parse_args, populateNodeInfo): it sorts ports and lcores by   *)
(* NUMA node, creates the FIFOs, and launches a worker per FIFO and an RX  *)
(* lcore per port.  The launched function gets a POINTER to a variable of  *)
(* main (j or argPort) that main goes on changing, and reads it when it    *)
(* comes to run: rte_eal_remote_launch does not wait for that.             *)
(* A delay is modelled by what its author counts on: that the lcores       *)
(* launched before it have started when it ends.                           *)
(***************************************************************************)
EXTENDS Integers, FiniteSets, FiniteSetsExt

CONSTANTS
  Lcore,        (* the slave lcores the EAL enabled: numbers                  *)
  LcoreNode,    (* rte_lcore_to_socket_id: 0 or 1                             *)
  Port,         (* the ports rte_eth_dev_count counts: 0 .. n - 1             *)
  PortNode,     (* devInfo.pci_dev->numa_node, -1 when unknown                *)
  Speeds,       (* the link speeds a port may report: of "40G","10G","1G"     *)
  FifoArgs,     (* the values of -f, NoArg for none                           *)
  NoArg,
  DefaultFifo   (* the initial fifoWrk: 8                                     *)

ASSUME LaunchAssumption ==
  /\ Lcore \subseteq 0 .. 30 /\ LcoreNode \in [Lcore -> 0 .. 1]
  /\ Port \subseteq 0 .. 7 /\ PortNode \in [Port -> -1 .. 1]
  /\ FifoArgs \subseteq (1 .. 512) \cup {NoArg} /\ NoArg \notin 1 .. 512
  /\ DefaultFifo \in 1 .. 254

VARIABLES
  arg,       (* the -f argument                                               *)
  fifoWrk,   (* what parse_args made of it                                    *)
  speed,     (* link speed of each port                                       *)
  mpc,       (* where the master is in main                                   *)
  node,      (* its loop variable index                                       *)
  j,         (* its loop variable j, which workers are pointed to             *)
  argPort,   (* its variable argPort, which RX lcores are pointed to          *)
  wlcore,    (* the lcore launched last                                       *)
  fifos,     (* the FIFOs created: <<node, number>>                           *)
  job        (* per lcore: function, number logged for it, number it read     *)

vars == <<arg, fifoWrk, speed, mpc, node, j, argPort, wlcore, fifos, job>>
setup == <<arg, fifoWrk, speed>>

-----------------------------------------------------------------------------
Unread == -1
NoJob  == [fn |-> "none", said |-> 0, got |-> Unread]

TypeOK ==
  /\ arg \in FifoArgs /\ fifoWrk \in 1 .. 255
  /\ speed \in [Port -> Speeds]
  /\ mpc \in {"node", "worker", "delay", "port", "bump", "settle",
              "display", "exit", "panic"}
  /\ node \in 0 .. 2 /\ j \in Nat /\ argPort \in 0 .. 255
  /\ wlcore \in -1 .. 30
  /\ fifos \subseteq (0 .. 1) \X (0 .. 254)
  /\ job \in [Lcore -> [fn : {"none", "worker", "rx"}, said : Nat, got : Int]]

(* "fifoWrk = (uint8_t)((pm & 0xfe) == 0)?fifoWrk:(pm & 0xfe)": the cast    *)
(* binds to the comparison, and the low bit of pm is dropped.              *)
Masked(pm) == ((pm \div 2) % 128) * 2
ParseAsIs(pm) ==   (* mutant: zero is accepted *)
  IF pm = NoArg THEN DefaultFifo ELSE Masked(pm)
ParseFifo(pm) == IF pm = NoArg \/ Masked(pm) = 0 THEN DefaultFifo ELSE Masked(pm)

(* populateNodeInfo: lcores and ports of a node by link speed; a port of   *)
(* unknown node counts for node 0.                                         *)
CoreMap(n) == {l \in Lcore : LcoreNode[l] = n}
NodeOfPort(p) == IF PortNode[p] = -1 THEN 0 ELSE PortNode[p]
PortMap(s, n) == {p \in Port : speed[p] = s /\ NodeOfPort(p) = n}
PortCount(s, n) == Cardinality(PortMap(s, n))
RxPorts(n) == PortCount("40G", n) + PortCount("10G", n)

(* Bit masks are sets of bit positions.  tempPortMask joins the map of the *)
(* 40G ports with the COUNT of the 10G ports.                              *)
BitsOf(k) == {b \in 0 .. 7 : (k \div 2 ^ b) % 2 = 1}
PortMask(n) == PortMap("40G", n) \cup BitsOf(PortCount("10G", n))

(* "while ((tempPortMask & (1 << argPort)) == 0) argPort += 1", with the   *)
(* shift taken modulo 32 as the processor does.                            *)
FirstPortFrom(mask, a) == Min({b \in a .. a + 31 : b % 32 \in mask})

(* wlcore += 1; while ((tempCoreMask & (1 << wlcore)) == 0) wlcore += 1    *)
SameCore(n, c) ==   (* mutant: the search starts at the lcore used last *)
  Min({l \in CoreMap(n) : l >= c})
NextCore(n, c) == Min({l \in CoreMap(n) : l > c})

(* Without a 40G or 10G port on any node main exits before it starts.      *)
NoPorts == \A k \in 0 .. 1 : RxPorts(k) = 0

Init ==
  /\ arg \in FifoArgs /\ fifoWrk = ParseFifo(arg)
  /\ speed \in [Port -> Speeds]
  /\ mpc = IF NoPorts THEN "exit" ELSE "node"
  /\ node = 0 /\ j = 0 /\ argPort = 0 /\ wlcore = -1
  /\ fifos = {} /\ job = [l \in Lcore |-> NoJob]

-----------------------------------------------------------------------------
(* The master *)

(* A node with 40G or 10G ports needs an lcore for each of them and each   *)
(* worker, and one more.                                                   *)
EnoughCores(n) == Cardinality(CoreMap(n)) >= RxPorts(n) + fifoWrk + 1

(* fifo_init for every FIFO of the node; argPort serves as the counter.    *)
FifosOf(n) == {n} \X (0 .. fifoWrk - 1)

StartNode ==
  /\ mpc = "node" /\ node <= 1
  /\ RxPorts(node) > 0
  /\ \/ /\ EnoughCores(node)
        /\ fifos' = fifos \cup FifosOf(node)
        /\ argPort' = fifoWrk - 1
        /\ wlcore' = -1 /\ j' = 0
        /\ mpc' = "worker"
     \/ /\ ~EnoughCores(node)
        /\ mpc' = "exit"
        /\ UNCHANGED <<fifos, argPort, wlcore, j>>
  /\ UNCHANGED <<setup, node, job>>

SkipWithoutNext ==   (* mutant: the loop variable stays *)
  /\ mpc = "node" /\ node <= 1
  /\ RxPorts(node) = 0
  /\ UNCHANGED vars

SkipNode ==
  /\ mpc = "node" /\ node <= 1
  /\ RxPorts(node) = 0
  /\ node' = node + 1
  /\ UNCHANGED <<setup, mpc, j, argPort, wlcore, fifos, job>>

(* rte_eal_remote_launch fails on an lcore that has a job.                 *)
Launch(l, fn, said, next) ==
  \/ /\ job[l].fn = "none"
     /\ job' = [job EXCEPT ![l] = [fn |-> fn, said |-> said, got |-> Unread]]
     /\ mpc' = next
  \/ /\ job[l].fn # "none"
     /\ mpc' = "panic"
     /\ UNCHANGED job

LaunchWorker ==
  /\ mpc = "worker" /\ j < fifoWrk
  /\ wlcore' = NextCore(node, wlcore)
  /\ Launch(wlcore', "worker", j, "delay")
  /\ UNCHANGED <<setup, node, j, argPort, fifos>>

(* rte_delay_ms(2000), then j++                                            *)
NoDelay == TRUE   (* mutant: the delay is left out *)
Started == job[wlcore].got # Unread

WorkerDelay ==
  /\ mpc = "delay" /\ Started
  /\ j' = j + 1
  /\ mpc' = "worker"
  /\ UNCHANGED <<setup, node, argPort, wlcore, fifos, job>>

(* All workers are launched; the loop over the ports begins.               *)
StartPorts ==
  /\ mpc = "worker" /\ j = fifoWrk
  /\ argPort' = 0 /\ j' = 0
  /\ mpc' = "port"
  /\ UNCHANGED <<setup, node, wlcore, fifos, job>>

LaunchPort ==
  /\ mpc = "port" /\ j < RxPorts(node)
  /\ argPort' = FirstPortFrom(PortMask(node), argPort)
  /\ wlcore' = NextCore(node, wlcore)
  /\ Launch(wlcore', "rx", argPort', "bump")
  /\ UNCHANGED <<setup, node, j, fifos>>

(* argPort += 1, without a delay after the launch                          *)
BumpPort ==
  /\ mpc = "bump"
  /\ argPort' = (argPort + 1) % 256
  /\ j' = j + 1
  /\ mpc' = "port"
  /\ UNCHANGED <<setup, node, wlcore, fifos, job>>

(* rte_delay_us(3500) after the last port, then the next node              *)
EndNode ==
  /\ mpc = "port" /\ j = RxPorts(node)
  /\ \A l \in Lcore : job[l].fn # "none" => job[l].got # Unread
  /\ node' = node + 1
  /\ mpc' = "node"
  /\ UNCHANGED <<setup, j, argPort, wlcore, fifos, job>>

Display ==
  /\ mpc = "node" /\ node = 2
  /\ mpc' = "display"
  /\ UNCHANGED <<setup, node, j, argPort, wlcore, fifos, job>>

-----------------------------------------------------------------------------
(* The slaves *)

(* The worker reads the variable it points to and looks its FIFO up.       *)
WorkerStarts(l) ==
  /\ mpc # "panic" /\ job[l].fn = "worker" /\ job[l].got = Unread
  /\ job' = [job EXCEPT ![l].got = j]
  /\ mpc' = IF <<LcoreNode[l], j>> \in fifos THEN mpc ELSE "panic"
  /\ UNCHANGED <<setup, node, j, argPort, wlcore, fifos>>

(* The RX lcore reads its port, and panics if the link is down by now.     *)
(* For a port that does not exist rte_eth_link_get leaves rxLink as it     *)
(* finds it on the stack, so that the panic may or may not strike either.  *)
RxStarts(l) ==
  /\ mpc # "panic" /\ job[l].fn = "rx" /\ job[l].got = Unread
  /\ job' = [job EXCEPT ![l].got = argPort]
  /\ mpc' \in {mpc, "panic"}
  /\ UNCHANGED <<setup, node, j, argPort, wlcore, fifos>>

Next ==
  \/ StartNode \/ SkipNode \/ LaunchWorker \/ WorkerDelay
  \/ StartPorts \/ LaunchPort \/ BumpPort \/ EndNode \/ Display
  \/ \E l \in Lcore : WorkerStarts(l) \/ RxStarts(l)

Fairness ==
  /\ WF_vars(StartNode \/ SkipNode \/ LaunchWorker \/ WorkerDelay \/ StartPorts
             \/ LaunchPort \/ BumpPort \/ EndNode \/ Display)
  /\ \A l \in Lcore : WF_vars(WorkerStarts(l) \/ RxStarts(l))

Spec == Init /\ [][Next]_vars /\ Fairness

-----------------------------------------------------------------------------
(* The worker lcores that serve FIFO f of node n.                          *)
ServedBy(n, f) ==
  {l \in CoreMap(n) : job[l].fn = "worker" /\ job[l].got = f}

(* Whoever looks a FIFO up finds it with exactly one worker behind it:     *)
(* when the first RX lcore of a node may run, each FIFO of the node exists *)
(* and is drained by one lcore, although all workers were pointed to one   *)
(* variable that main kept counting up.                                    *)
OneWorkerPerFifo ==
  \A l \in Lcore : job[l].fn = "rx" =>
    \A f \in 0 .. fifoWrk - 1 :
      /\ <<LcoreNode[l], f>> \in fifos
      /\ Cardinality(ServedBy(LcoreNode[l], f)) = 1

(* The core count check of main is enough: the search for a free lcore     *)
(* never comes back to an lcore that has a job, and a launch fails never.  *)
LaunchesFindIdleLcores ==
  [][mpc' = "panic" => mpc \notin {"worker", "port"} \/ job' # job]_vars

(* Bring-up ends: main reaches its display loop, or one of its error exits. *)
BringUpEnds == <>(mpc \in {"display", "exit", "panic"})

(* "Initialized lcore %d with port %d": the lcore polls the port that main *)
(* logs for it.                                                            *)
PortAsLogged ==
  \A l \in Lcore : job[l].fn = "rx" /\ job[l].got # Unread => job[l].got = job[l].said

=============================================================================
