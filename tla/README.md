# Verification of the DPDK application samples

This directory holds TLA+ models of the programs in this repository, the TLC
configurations that check them on small instances, and proofs, checked by
TLAPS, that hold for instances of every size. Each module is translated from
the C source; `PROJECT.json` gives, for every definition, the lines it stands
for.

    tlc -workers 2 -config MCWorkDistAtomic.cfg MCWorkDistAtomic    # one run
    tlapm LcoreLaunchProofs.tla                                     # one module of proofs

## 1. The system

The repository is a collection of DPDK programs. They share a few idioms (an
lcore polls a port in an endless loop, packets travel in mbufs whose address is
handed over through a ring, counters are shared without locks, a master lcore
launches the others and then displays counters) and are otherwise independent.

### 1.1 Work distributor (`workdistributor-noeventdev/`)

| | |
|---|---|
| State | mempools (one per port), FIFOs `SW-FIFO-<node>-<n>`, the burst an RX lcore is working on, the packets a worker holds, TX queues, per-node counters (`prtPktStats`), in the directed variant a hash table per node, which is never created |
| Operations | `lcore_pktFetch` (one RX lcore per port): receive a burst, free what is not IPv4, choose a FIFO, enqueue or free and count. `lcore_fifoTransmit` (one worker lcore per FIFO): dequeue a burst, transmit packets one by one on the port they came from, free what is refused. `main`, `parse_args`, `populateNodeInfo`: sort ports and lcores by NUMA node, create FIFOs, launch lcores |
| Interaction | RX lcore to worker through a multi-producer ring; every lcore frees into pools created as single-producer; counters by unlocked read-modify-write; `main` hands a launched lcore a *pointer* to its loop variable |
| Hard | two lcores inside a put into one single-producer pool; who owns an mbuf while `rte_pktmbuf_free`, a ring and a TX queue are all involved; reading `m->pkt_len` after the mbuf was given away; lost counter increments; the room of a FIFO vanishing between `rte_ring_full` and the enqueue;  a launched lcore reading its argument late |
| Correct when | an mbuf is in one place, once, or the damage stays in the pool whose puts overlapped; a flow leaves in the order it came; counters never claim more than happened; a drop is charged to the right FIFO; every FIFO has one worker; the search for room and the bring-up end |

The three programs differ in how a packet finds its FIFO: a hash of its
addresses (`main_atomic_nosqm.c`), the position of its flow in a table
(`main_directed_nosqm.c`), or the first FIFO with room, starting from the port's
own (`main_unordered_nosqm.c`). As the directed one is written it steers nothing:
the creation of the tables (675-685) is under `#if 0`, `ipv4_hash_table` stays NULL
(69), and what comes behind a lookup that finds or misses a flow, the add at 406
included, is never reached. `stats.c` prints the counters.

### 1.2 Split control and data plane (`split-control-dataplane/`)

| Part | State | Operations | Hard, and what makes it correct |
|---|---|---|---|
| Control module: rule tables and CLI actions (`CM/api.c`, `CM/action.c`) | per protocol and IP version ten rules, their results, `..._rule_cnt`, a static `i` in each add function; totals; port maps, port actions, mode | rule add, rule del, lists, details, info, port map, port action, mode | adds and deletes count in different variables; per-protocol copies of the same code differ in a bound, a field, or the counter they read. A list shows the rules added and not deleted, in order; what is shown is what was answered |
| Command line parser (`CM/cparser_tree.c`, libraries) | parse tree | generated | third-party, not modelled |
| Data plane: ACL tables (`DP/dptables.c`, `DP/dpapi.c`) | ACL context, `ruleIpv4`, slots `aclIpv4Result`, `aclIpv4_index`, counters | `updateAcl_*`, add, build, look up, destroy | a rule must point to a slot with its own result; the table has a limit; the trie is built once |
| Data plane: frames (`DP/frameparser.c`, `DP/l?parser.c`, `DP/userRoutine.c`, `DP/main.c`) | port map, port actions, sticky per-port metadata, ring buffers to two user threads, metadata pool | receive, parse, look up, drop or hand over; user threads free | three lcores and the CLI share all of it without locks; metadata is handed over by a stack address. A packet ends in exactly one of: freed, handed over |

The two halves are one process: a TCP rule added at the command line calls
`updateAcl_ipv4Tcp` of the data plane. The port maps and port actions do not get
there: the control module writes variables of its own, and the data plane
decides by the initial values of its own (`DP/dpcommon.c:10-12`).

### 1.3 Primary and secondary process (`primary-secondary/`)

The primary writes the inventory to a memzone, creates rings and pools, starts
the ports and receives; the secondary (or, in the work-share variant, the same
binary in the other role) looks memzone and rings up in shared memory and
transmits. State: the shared rings, pools and memzone; the burst of each side.
Hard: start order and the two-second delays that stand for it, a secondary that
restarts with rings half full, one that dies between the head and the tail of a
dequeue or inside a put, single-producer pools into which both processes put, a
link that is down, the result of the enqueue tested the wrong way round. Correct
when no mbuf is forgotten but by a pool so damaged, a burst goes to the port of
all its packets, each of its frames once, and the secondary keeps running on a
suitable machine.

### 1.4 Event pipelines (`ebpf-debug/eventenqdeq-trace/`)

Workers take events from an event device, one or a burst at a time, steer each to its
next queue and enqueue it, or transmit; a service lcore runs the adapters and, for a
software device, the scheduler; a spare lcore, if there is one, shows a menu. Ten
worker loops are chosen from by the capabilities of the device and the number of
stages. State: queues, the device's rings, the burst of each worker, `done`. Hard: an
enqueue takes part of a burst, or of several queues; a signal stops the service lcore
and the device while workers still wait for room, and the handler waits for the menu,
too. Correct when an event is neither lost nor doubled, has been through all stages of
its own pipeline before it is transmitted, and a signal ends the program.

### 1.5 Smaller programs

| Part | State and operations | Hard |
|---|---|---|
| `malloc-monitor` | lcores record allocations in a shared `rte_fbarray`; a secondary walks it | find-free and set-used are two calls; the reader races the writers |
| `memzone-monitor` | up to MAX_MONITOR regions, a checksum per cache line, a timer each; a menu in an alarm callback | the slot counter at its end; monitored memory changes under the reader |
| `primary-secondary-messaging` | greeting, "Ok" and "Done!" messages and a periodic broadcast | who answers what; replies to messages that were not requests |
| `pktmbuf-rellaoc` | replaces a port's pool on a signal | the old pool is freed while the NIC may hold its mbufs |
| `nogdb-threadtrace` | thread ids in `tid[]`, signals to each thread | registration racing the signal |
| `test/` timers, link status | timers re-armed from their callbacks; a display handler | expiry against stop |
| `ebpf-debug/ethrxtx-trace` | one loop of receive and transmit, traced by eBPF programs | - |
| `gtpparser`, `ipfilter-hyperscan`, `rsshash-debug` | packet classification | header lengths |
| `custom-pktgen`, `statistics`, `memcpy`, root-level snippets, `common_library` | send loops, display of library counters, benchmarks, copies of shared files | - |

`PROJECT.json` lists each of these under `components`, with its status.

## 2. Modules

| Module | Models | Extends |
|---|---|---|
| `OrderedFlows` | what a distributor that keeps flows in order promises (abstract): per flow a set of frames inside, the oldest of which may leave and any of which may be discarded | - |
| `WorkDist` | mempools, mbufs, RX lcores up to the choice of a FIFO, counters, workers, TX queues; the mapping to `OrderedFlows` (`Flight`) | - |
| `WorkDistAtomic` | `main_atomic_nosqm.c` | `WorkDist`; implements `OrderedFlows` |
| `WorkDistDirected` | `main_directed_nosqm.c`, which ends at the lookup | `WorkDist` |
| `WorkDistUnordered` | `main_unordered_nosqm.c` | `WorkDist` |
| `LcoreLaunch` | bring-up: arguments, inventory, launches | - |
| `AclTables` | ACL slots, context, index, rule counter | - |
| `RuleStore` | the rule tables and the commands on them, for any protocol | `AclTables` |
| `ControlModule` | the whole command line, function by function, and what it shows | `RuleStore`; implements it |
| `FrameDecode` | the parse functions, their counters and the sticky metadata | - |
| `FramePath` | receive loop, lookups, verdicts, user threads, command line beside them | `AclTables`, `FrameDecode` |
| `WorkShare` | primary and secondary, start order, crash and restart | - |
| `EventSteering` | where each worker loop sends an event | - |
| `EventPipeline` | workers, device, service lcore, menu, signal handler | `EventSteering` |
| `WorkDistProofs` | lemmas on the steps the distributors share | `WorkDist`, `TLAPS` |
| `WorkDistAtomicUnorderedProofs` | theorems on the atomic and the unordered distributor (`UNext`, `USpec`, `UTypeOK` in `WorkDistUnordered` are named apart from those of `WorkDistAtomic`) | the modules it is named for, `WorkDistProofs` |
| `LcoreLaunchProofs`, `FramePathProofs`, `WorkShareProofs`, `EventPipelineProofs` | theorems on the module they are named for | it, `TLAPS` |
| `ControlModuleProofs` | theorems on `RuleStore` and on `ControlModule` | `ControlModule`, `TLAPS` |
| `MC...` | constants for TLC | the module they are named for |

### 2.1 `WorkDist` and its variants against the code

An mbuf is an identity; `pkt[m]` is what its buffer holds, and stays there after
the free, as memory does. `bufs[p]` is the array `bufs` from the current index
on, `ring[f]` a FIFO, `ptr[f]` the worker's array, `txq[f]` the descriptors of
transmit queue `f` of every port. `Place` and `At` list the places an mbuf can
be in.

* `RxBurstOf` is `rte_eth_rx_burst`; `DropNonIp`, `Fetch` (atomic), `LookupRefused`,
  `LookupFaults` (directed), `StartSearch`, `Probe`, `Offer`, `NoSuchFifo` (unordered)
  are the steps of `lcore_pktFetch` between two accesses to shared memory. The main
  loop and the remainder loop behind it contain the same code and are one set of
  actions.
* `rte_pktmbuf_free` takes two steps (`StartFree`, then `RxFreed`, or `WrkFreed`
  for a worker), since the pools are created with `MEMPOOL_F_SP_PUT`
  (`main_atomic_nosqm.c:134`) although every lcore frees into them. They have no
  cache in front of the ring either: the argument meant for its size is 0, and
  `MBUF_CACHE_SIZE` stands where the size of an element goes. When two puts into one
  pool overlap (`FinishPut`, `Contended`), the second may publish the tail over a slot
  the first has not written, both may write one slot, or the tail may go back. From
  then on the pool is in `spoiled`: it may hand out any mbuf that was ever in it,
  also one that is in a FIFO, with a worker or in a transmit queue, and the same one
  twice in a burst (`BurstMBufs`), which then holds the later frame or the earlier
  (`Filled`). An mbuf it never hands out again is lost. Whether a transmit
  queue with an mbuf posted twice has a descriptor left is not known either
  (`Transmit`). What a spoiled pool does is so wide that the model needs no account
  of slots. One outcome has no step: before the ring has gone round once, an
  unwritten slot reads as a null pointer, and the receive ends the program.
* `queue_rx_add[..] += 1` and its siblings are `LoadCounter` and `StoreCounter`.
  `rxPkts` and `rxBytes`, bumped along with it, are represented by it; the length
  added to `rxBytes` is read by then from an mbuf that belongs to somebody else,
  which is what `LateReadIsStable` is about. Counters only one lcore writes are
  bumped with the step they belong to; `non_ip` at the start of the free,
  although the code bumps it after the call, as no other lcore writes it.
* `FetchBurst`, `Transmit` and `WrkFreed` are `lcore_fifoTransmit`. A transmit
  call reclaims any subset of the finished descriptors, then takes the packet
  or refuses it.
* A lookup in a hash table that is not there returns `-EINVAL` in a build of
  `rte_hash` with parameter checks, which the code answers at 414-419 with "invalid
  params" and a free (`LookupRefused`), and faults without (`LookupFaults`).

`main` of this program includes `stats-nosqm.c` in its Makefile, a file the
repository does not contain; `stats.h` and the use in the code give the shape
of the counters.

### 2.2 `LcoreLaunch` against the code

`arg`, `fifoWrk` are the `-f` argument before and after `parse_args`; `mpc`, `node`,
`j`, `argPort`, `wlcore` the place of the master in `main` and its variables; `mpc`
starts at "exit" when no port is 40G or 10G (`NoPorts`, 642-644); the program calls
`getCount40gPorts` there without its argument, and `getCount10gPorts` is defined
nowhere in it: they are modelled as their names say. `job[l]` the function lcore `l`
was launched with, the number the master meant, and the number the lcore read through
the pointer (`got`). `rte_eal_remote_launch` returns before the lcore runs, so
`WorkerStarts` and `RxStarts` are separate actions. A delay is modelled by what its
author counts on: `WorkerDelay` and `EndNode` wait until the lcores launched before
have read their argument. There is no delay between two RX launches, so `argPort` may
have moved on by then; and an RX lcore that finds the link of its port down panics. The searches
`while ((tempPortMask & (1 << argPort)) == 0)` and `while ((tempCoreMask & (1 <<
wlcore)) == 0)` are `FirstPortFrom` and `NextCore`; the shift of the first counts
modulo 32, as the processor's does, so that a mask of one bit is met every 32 numbers.

### 2.3 `AclTables` and `RuleStore` against the code

`rule[t]` is the array of table `t`, with action, source and the rest of a rule
(the direction is left out: it is compared like the ports). `i[t]` is the static
variable of its add function, `rule_cnt[t]` the count its list and its deletion
use, `total` the two counters of `action.c`. `AddRule` is the command with the
add function it calls, including, for `tcp_ipv4`, the whole `updateAcl_ipv4Tcp`;
`Delete` is `rule del` with `del_ipv4_rule` or `del_ipv6_rule`. The add
functions are one text up to names, except that of `tcp_ipv4`; the deletions
differ in a bound (UDP), a missing field (DCERPC) and a missing check (IPv4),
each a constant set of tables. `want` and `added` are not in the code: they
remember what was asked for. An add to a full array, and a scan behind it, is
where the model stops, since C leaves open what happens.

`ControlModule` gives every protocol's functions their own names: the 28 adds the
commands call (`smb2` can be listed but not added), the deletions by version, and
beside them the port map, the port actions and the mode. `work` is the set of tables
one user works on, chosen at the start: tables only meet through the totals and the
counters their displays read, and the commands on ports not at all. `Details`, `List`,
`Info`, `PortShown` and `PactLines` are what the show commands print, `PactLines` with
the name each line has: the line of the ACL action speaks of fragment drop
(`api.c:2085`). `mapped`, `told` and `wrong` are not in the code: they keep what the
user was answered.

### 2.4 `FrameDecode` and `FramePath` against the code

`FrameDecode(p, f)` is `frameDecode` with the parsers it reaches through the
tables of function pointers: `ParseDummy` is the entry of every protocol that has
no parser, `prev_proto` the field by which the next parser chooses a counter,
`l4_proto` the global the IPv6 parser reads without writing it. `pc` is the place
of the parser in `frameParseSetup`: `ReadDrop`, `ReadReject`, `ReadPass` and
`ReadNext` are the four reads of one slot, between any two of which `CliStart` and
`CliFinish`, the two field writes of `updateAcl_ipv4Tcp`, may come. `GetMeta` and
`Enqueue` are `userFrameProcess`, `UserPoll` the body of `userThread`.

What the code does is kept: nothing writes `pmap`, so that the inverted drop
test never skips a port; metadata of a port is never cleared; fragments are not
parsed; the trie holds the test rule only and its field array has unset elements
(`dptables.c:239-242`), so that a lookup may hit or miss, while the rules added at
the command line after the build are never found; the ring is given the
mbuf where it wants its address, so that the user thread gets the first word of
the mbuf, which is the address of its buffer, finds no userdata there and frees
nothing that the model knows of.

### 2.5 `WorkShare` against the code

`layout` is the machine: the node of each fast port. `pc` walks the primary
through `main`; `known` is the memzone, written port by port, `fifo` the rings by
name. As in the code, every FIFO is created under node 0, where `index` still
stands, so that a port of another node finds none and the primary panics.
`Receive`, `Offer`, `FreeOffered` and `RxPutDone` are `lcore_pktFetch`: whether the
ring took the mbuf or was full, it is freed. `Launch`, `NextNode` and `SecReady` are the
launch loop of the secondary with its `argPort`; `Begin` reads the number through the
pointer, at any later time; `Take` and `Taken` (a dequeue), `Transmit`, `Put` and
`PutDone` (its frees) are `lcore_fifoTransmit`.

* A dequeue from a shared ring (flags 0, several consumers) claims its entries by the
  head and gives their slots free by the tail, in that order of the consumers: `Take`
  waits for the dequeues begun before it (`Passable`). `SecCrash` between the two leaves
  the tail behind for ever: the ring is `wedged`.
* A free of an mbuf whose reference count is zero puts nothing (`CountedOut`), one that
  finds it in use puts (`CountedIn`), in two steps. In the DPDK releases this code can be
  compiled with (up to 17.02, for the three arguments of `rte_ring_dequeue_burst`) two
  lcores that read the count at the same time both put. The pools are single-producer
  without a cache (`main.c:104-110`) and both processes put into them (402-410,
  282-290): where two puts overlap, or a crash is in the middle of one, the pool is
  `spoiled` and may hand out any of its mbufs, in use or not and twice.
* `SecCrash` can happen between any two of these steps. A crash inside the driver's
  transmit call is one before it or behind it; rings, pools and transmit queues stay
  as they are.

`main_primary.c` and `main_secondary.c` of the sample model are the same text,
split by role.

### 2.6 `EventSteering` and `EventPipeline` against the code

`EventSteering` has one operator for each way a worker changes an event (`Generic`,
`Single`, `SingleAtq`, `Multi`, `MultiAtq`), and `Steered` is the choice
`get_worker_...` makes. `EventPipeline` runs them: `Dequeue` and `Steer` or `Transmit`
for each event of the burst, then `Enqueue` of what is left, as often as it takes;
`GiveUp` exists in `worker_generic_burst` only. The event device is external and
modelled from how the code uses it: `Schedule` moves an event from a worker's ring to
its queue, run by the service lcore for a software device and by hardware otherwise. A
burst may mix queues: as long as a worker has not looked at its burst, `Dequeue` may
add events of another queue to it. `FirstSignal`, `StopDevices` and `Close` are
`signal_handler`; a second signal ends the process wherever it is (`SecondSignal`).
`Close` waits for the service lcore, the workers and, when a spare lcore runs
`display()` (`main.c:553-557`), for the menu: that ends when its user quits
(`DisplayQuits`), or by `stopApp`, which is called behind the wait (`main.c:428`).
`visits` counts how often a worker has had an event and is not in the code.

## 3. Runs

| Run | Bounds | Shows |
|---|---|---|
| `MCWorkDistAtomic` | 2 ports, 2 FIFOs of 2, 1 descriptor, bursts of 2, 3 mbufs and 4 frames for port 0, 1 and 1 for port 1, 2 flows on different FIFOs | what overlapping puts damage and what they do not, stable late read, counters, flow order (as a refinement of `OrderedFlows`) |
| `MCWorkDistUnordered` | 3 ports (one without a FIFO of its number), 2 FIFOs of 1, 4 mbufs, 2, 2 and 1 frames | the search visits each FIFO once, charges a drop to the port's own FIFO, ends even when workers stall; the program panics only for a port whose number is no FIFO's; workers that poll drain the FIFOs |
| `MCWorkDistDirected` (violation) | 2 ports, 2 FIFOs of 1, 2 frames per port | no IPv4 packet gets past the lookup |
| `MCLcoreLaunch` | 2 nodes, 10 lcores, 3 ports of any speed, five `-f` values | one worker per FIFO before RX runs, no launch on a busy lcore, bring-up ends |
| `MCLcoreLaunchPort` (violation) | the same, one speed | an RX lcore polls another port than the one logged for it |
| `MCRuleStore` | tables of 3 for fourteen protocol pairs and triples (all 28 tables occur), ACL of 4 with the test rule in slot 2, 4 stored rules; or 3 commands on ports and mode with five numbers | lists keep rules and order, one rule leaves per deletion, ACL slots hold what their rules asked for, show commands display what was answered, up to the exceptions `ShownAsAnswered` names |
| `MCRuleStoreExist` (violation) | the same | "Rule already exist" of a rule that was deleted |
| `MCFramePath` | 3 ports (one that drops, two with ACL), 3 frames of 4 kinds in bursts of 2, rings of 1 element, 2 metadata objects, ACL of 2 | the fate of a frame is that of one value of its slot, counters count every frame once, pools add up, bursts and rings end |
| `MCWorkShare` | 3 machines of 2 ports and 2 nodes, rings of 1, 1 mbuf per port, 3 frames, 2 workers, 2 starts of the secondary | no mbuf leaks through crashes but from a damaged pool, bursts have one port, when the secondary ends by itself, served FIFOs drain unless wedged |
| `MCWorkShareTwice` (violation) | the same, rings of 2 | a burst has one frame twice and another not at all |
| `MCEventPipeline` | each of the ten worker loops, those for several stages with atomic and with ordered queues, 2 workers, 2 events, bursts of 2, rings of 1, with and without the menu, 2 signals | no event lost or doubled, all stages before transmission, when a signal ends the program |
| `MCEventPipelinePair` (violation) | 2 ports, 2 stages, ordered queues, 1 event | a frame leaves the pipeline of its port |

Why the bounds are enough: with two ports and two FIFOs every pair of roles
meets (two producers of one FIFO, two workers freeing into one pool, an RX lcore
and a worker on one pool, two stale counters). Two puts into one pool overlap only
if a third mbuf of it holds the descriptor or the FIFO's place, for want of which the
others are freed, so port 0 has three; its fourth frame is the first that can be
received into an mbuf somebody else holds, and does: without `Intact`, `Ownership`
is violated in this run. Port 1 shows that the damage stays where it is. FIFOs of
one or two packets and a single descriptor are full most of the time, so that every
drop path runs. In the unordered run the pools are too small for puts to overlap;
that this variant does no other damage than the atomic one is proved
(`UnorderedMBufsAreOwned`), not run. The rule tables of three entries allow an add
after a delete in the middle, the case in which `i` and `rule_cnt` differ. An ACL of
four rules becomes full, and slot 2 is reached both by the test rule and by a rule of
the control module. The sets of tables pair those whose displays read each other's
counters. The entries 255 and 257 are a port map and a number that eight bits make 1.

Three frames on three ports give one frame the flags another left, and another
port none; a ring of one element fills and empties, two metadata objects run out,
and the one command that rewrites the slot of the trie meets every read of it. The
machines of `WorkShare` are a right one, one with a gap between its port numbers
and one with a port on node 1; a ring of one fills, and holds what a crashed
secondary's successor finds; two starts are one crash and one restart. Bursts of more
than one frame from such a ring occur in `MCWorkShareTwice` only: that
they, too, have one port is proved (`BurstsAreOfOnePort`). Two events in rings of
one make an enqueue of a burst of two go in parts, while the other worker takes the
first.

Runs disable the deadlock check where the model's own bound ends a behaviour:
the NIC delivers at most `MaxRx` frames, `MaxAdd` rules are stored, bring-up
ends, `rte_panic` ends a process, a signal stops the pipelines. Symmetry is used in
`MCWorkDistAtomic` only, for the three mbufs of port 0: its properties are invariants
and a step property, and no definition tells these mbufs apart.

### Fairness

The lcores of the distributor poll in endless loops, each on a core of its own, so
weak fairness of each lcore's own steps is what the code provides. None is assumed of
the NIC: it delivers frames or does not. The specification of the unordered variant
assumes fairness of RX lcores only, so that `EveryFrameLeaves` holds even if workers
stall; `EveryFifoDrains` has the fairness of the workers (`WorkerFairness`) as a
hypothesis of its own. Workers of the atomic variant are the same actions, so that it
is stated once. In `LcoreLaunch` the master and each launched lcore run on cores of
their own. The parser and the user threads of `FramePath` loop on three lcores;
nothing is assumed of the user at the command line. In `WorkShare` the bring-up, the
fetching lcores once they have a burst, the launch loop and each worker are fair; a
start or a crash of the secondary is not. In `EventPipeline` every worker loops, the
device serves every ring as long as it is served at all, and the signal handler goes
on once it runs; that a signal comes is not assumed, nor that the user of the menu
ever quits. That a FIFO is empty again and again (`EveryFifoDrains`,
`ServedFifosDrain`) is a statement about traffic that stops, which the bound `MaxRx`
makes it do; under traffic without end the code promises only that each packet is
taken. The control module states no liveness.

## 4. What the models say about the code

Each property is checked as stated in its module; where the code departs from
what its text says, the run shows it and `findings` lists it:

* `main_directed_nosqm.c:675`: the hash tables are created under `#if 0`, so that
  `ipv4_hash_table` stays NULL and every IPv4 packet is dropped as "invalid params", or
  the lookup faults (`PacketsAreDirected`). What is behind the lookup is not modelled. By
  its text it has a slip of its own: `0 < ret` at 407 takes a position for an error.
* `main_atomic_nosqm.c:733-738`: RX lcores read `argPort` through a pointer.
* `pipeline_worker_tx.c:232`: the stage is the queue modulo the number of stages,
  although a pipeline has one queue more. With ordered queues, an event in the last
  queue of the first port counts as in stage 0 and goes on to the second port's.
* `CM/api.c:216`: scans go up to the static `i`, which no deletion turns back.
* `workshare/main.c:402`: the primary frees what it has just queued, so that the next
  frame is received into the mbuf that waits in the ring (`FramesAreTakenOnce`).

Further behaviour the models reproduce as the code has it:

* `main_atomic_nosqm.c:134`: the pools are created for one producer, and the RX lcore
  (442) and every worker (298, and inside the transmit call) put into them.
  Overlapping puts lose mbufs or hand out some that are in use; `Ownership` says that
  nothing else does, and that the mbufs of other pools stay owned once. In `workshare`
  the two producers are two processes.
* `main_atomic_nosqm.c:678` joins a port *mask* with a port *count* (`|`);
  `594` masks the `-f` argument so that `-f 1` gives eight workers, while `562`
  promises the range 1-255.
* `main_unordered_nosqm.c:399` starts at the FIFO with the port's number and
  panics at 405 when there is none.
* `CM/api.c:200-211`: `!strcmp(..) == 0` is true of every *other* action, so
  `alert` becomes DROP in the ACL and all others ALRT.
* UDP lists show blank lines and DCERPC lists rules made of two; `del_ipv4_rule`
  deletes the last rule when given a number too high.
* A refused duplicate has already gone into the ACL (`api.c:214`).
* Slot 10 belongs to the test rule of `DP/main.c:75` and to the tenth rule of
  the control module. No rule ever points to the last slot: the test rule's place
  in the context makes it full one rule earlier.
* `show rule details` of GTP goes by the counts of GRE (`action.c:1753-1775`), that
  of HTTP over IPv6 by the count of ICMP; `show rule info` adds ICMP to SSL and DNS
  to SMB (`api.c:803`, `811`); `show port` shows the last port only when mapped
  to 1 or 255 (`api.c:986`); `show pact` calls the ACL "Fragment drop" (`api.c:2083-2090`,
  2117, 2151, 2185), so that it prints two such lines, which may contradict each other.
  `ShownAsAnswered` says what the displays it covers (rule details and info, port map,
  port actions) show for any commands: what was answered, up to these exceptions.
* An action entry is cut to eight bits and stored before it is tested, so that 257
  means 1 and an entry answered as wrong replaces the one before.
* `userRoutine.c:128-134`: no metadata object and no frame handed to a user thread
  ever comes back; `PoolsAddUp` says exactly where they are. When the pools are used
  up nothing is received any more.
* `frameparser.c:66` and `l3parser.c:46` act on what earlier frames left: a frame that
  is not IP is looked up once its port has seen IPv4 (`LookupsFollowIpv4`), and an
  IPv6 frame is counted by the protocol of the last IPv4 frame of any port.
* `main_primary.c:402` and its copy free what the ring took. That is why no mbuf is
  lost with what a crashed secondary had taken: its pool has it before the worker does
  (`NothingLeaks`). Only a pool that both processes put into at the same time, or that a
  crash caught in a put, may lose some.
* A secondary that dies between the head and the tail of a dequeue wedges the shared ring:
  the one started after it waits for that tail for ever (`ServedFifosDrain`).
* A signal ends the program unless (`SignalEndsProgram`) nobody quits the menu on the
  spare lcore, or a worker loop that does not look at `done` waits: for room in a ring
  nobody empties any more, for a stopped device to take a packet, or for a queue that
  does not exist to take its event. The last is where the loops for several stages end
  up with ordered queues and one port, and needs no signal. A second signal ends it
  always.

## 5. Proofs

All theorems are checked by TLAPS to the last leaf. They hold for every value of the
constants that satisfies the assumption named with the constants
(`WorkDistAssumption`, `HashAssumption` and so on): any number of ports (finitely many),
FIFOs, mbufs, flows, tables, rules, any size of rings, queues and bursts. The
invariants below were checked by TLC on the instances of section 3 before they were
proved.

### 5.1 The atomic and the unordered distributor

Their steps are the same but for the way a packet finds its FIFO. `WorkDistProofs`
proves about each shared step what it keeps true, for any set `Pc` of places an RX
lcore can be in, and puts it together as

    BaseInv(Pc) == TypeOKWith(Pc) /\ CounterChosen /\ OwnInv /\ LateInv /\ AddsInv

* `CounterChosen`: a counter about to be loaded or stored is "add" or "drp". Without it
  the types are not inductive.
* `OwnInv` joins the types of the memory variables, `Ownership` itself and `PutIdle` (an
  RX lcore that is not inside a free holds nothing in `putRx`; otherwise a new free
  would overwrite a pending one). `Ownership` is about the mbufs of `Intact` pools, so the
  proof is that no step but a receive moves an mbuf it does not own, that a receive
  touches its own port's pool only, and that `spoiled` never shrinks. The argument is
  the same for every action:
  `Frame` covers steps that leave all places alone, `Move` those that carry a set of
  mbufs from one place to another, `Redistribute` those that share out the contents
  of several places anew (a transmit call moves descriptors and a packet at once).
* `LateInv`: a burst holds mbufs of the port's own pool. So the mbuf an RX lcore has
  given away can only be received into again by that same lcore, which is busy
  reading its length: this, and not any lock, is why the late read is stable.
* `AddsInv`: a value loaded and not yet stored, plus all increments still to come,
  claims no more than what reached the FIFO. `AddsNeverOvercount` alone says
  nothing of the stale values other lcores will write back.

Each variant adds the steps of its own and what its steering needs:

| Theorem | States | From |
|---|---|---|
| `TypeCorrect`, `UnorderedTypes` | `TypeOK`, `UTypeOK` | `BaseInv` |
| `MBufsAreOwned`, `UnorderedMBufsAreOwned` | `Ownership` | `BaseInv` |
| `LateReadsAreStable`, `AddsAreReal`, `UnorderedReadsAreStable` | `LateReadIsStable`, `AddsNeverOvercount` | `BaseInv` |
| `StatisticsAddUp` | `StatsAccountForAll` | it is inductive beside `BaseInv` |
| `SearchVisitsAll`, `DropsAreChargedHome`, `PanicsOnlyFarOut` | `SearchIsARound`, `DropIsChargedHome`, `PanicsOnlyAtAFarPort` | `SearchInv`: the FIFO tried and the tries left add up to the port's number, or to that and one round (`Round`), which spares the proof the modulo |
| `AtomicKeepsFlowOrder` | `KeepsFlowOrder` | see below |

Late reads and counters do not depend on who owns an mbuf: they hold with spoiled pools
as without.

*Flow order as a refinement.* `KeepsFlowOrder` is `Ordered!Spec`: under `Flight`,
which maps bursts, FIFOs and the packets of workers to the set of arrival numbers
inside per flow, the initial states are initial and every step is an `Arrive`,
`Deliver` or `Discard` or leaves `flight` and `last` alone, as long as no puts into a
pool have overlapped; from then on `OrderedFlows` is `broken` and allows anything
(`InitRefines`, `SharedRxRefines`, `WorkerRefines`, `EnqueueRefines`,
`StartFreeRefines`). That a transmission is a `Deliver` means that the packet is the
oldest of its flow inside. It rests on three invariants: `OrderInv` (bursts and FIFOs
are in order of arrival, what a worker holds is older than what its FIFO holds, and
both are older than the burst), `LastInv` (what left last is older than what is
inside) and `OneFifo` (queued frames of a flow are in one FIFO). `OneFifo` follows
from `Steered`: a queued packet is in the FIFO its hash names.

### 5.2 Bring-up

`LcoreLaunchProofs`, for any machine of up to 31 lcores and eight ports, any link speeds
and any `-f` argument:

* `FifosHaveOneWorker == Spec => []OneWorkerPerFifo`, `LaunchTypes == Spec =>
  []TypeOK` and `LaunchesAreOnIdleLcores == Spec => LaunchesFindIdleLcores`, from
  `LInv`. Its parts: `Loops` (as many lcores of the node are behind `wlcore` as the
  loops have counted, so that by the core count check one is left for each launch),
  `Vacant` (the lcores ahead have no job), `Readers` (at most the worker launched last
  has not read its number, and `j` still is that number), `Workers` (the workers of a
  node are meant for the FIFOs counted so far, one each, and a node with an RX lcore
  is complete). So neither a worker nor a launch ever panics; an RX lcore may, and
  `LInv` says of the state it leaves that what was brought up stays.
* `TypeOK` contains that `argPort` does not leave its eight bits: eight launches that
  pass over at most 31 numbers each end at 255 at the latest (`NextPort`, `Loops`). The
  proof showed that `FirstPortFrom` has to look further than one turn of the
  shift: with eight 10G ports the mask is the count 8, a single bit, and the
  search meets it at 3, 35, 67, ... 227.

### 5.3 Rule tables and command line

For any tables, array sizes, rules and ACL size that satisfy `StoreAssumption`
and `AclAssumption` (`ControlModuleProofs`; the theorems on `RuleStore` do not use what
`ControlModule` assumes of its tables):

* `StoreTypes == Spec => []TypeOK`,
  `ListsShowAddedRules == Spec => []ListedRulesWereAdded`,
  `SlotsAreTrue == Spec => []SlotsMatchRules` and
  `AddsLeaveTheList == Spec => AddsKeepTheList`, all from one inductive invariant,
  `StoreInv`: the types, `Lists` (the list of a table, of length `rule_cnt`, never
  outgrows the part of the array below `i`; that part holds entries that were
  added, with the exceptions of UDP and DCERPC, and what is behind it was never
  written) and `Slots` (`aclIpv4_index` is the length of the context, and the
  n-th rule points to slot n - 1, whose result is its own). Without `Lists` the
  claim about the lists is not inductive: a deletion copies from behind the list,
  and an add at `i` makes entries between `rule_cnt` and `i` visible again.
* `AclHasStoredRules == Spec => []StoredRulesReachAcl`: an update takes no rule out of the
  context, and a context that refuses one rule refuses all later ones
  (`UpdateReaches`), so that the update an accepted add made before its scan is still
  there, or the ACL is full for good.
* `DeletionsTakeOne == Spec => DeletesTakeOne`: `Shifted` moves the entries behind the
  deleted one up by one place, which on the list is `RemoveAt` (`RemoveAtFacts`,
  `SameList`).

The command line implements that store, for any set of entries and any tables a user
works on:

* `CommandLineImplementsStore == CMSpec => Spec`: every command with the function
  it calls is a step of `RuleStore` or leaves its variables alone, so that these six
  theorems hold whatever is entered.
* `ShowCommandsAreTrue == CMSpec => []ShownAsAnswered`, from `StoreInv` and `ConfInv`: a
  port map is the last one answered, and an action is the one last answered or,
  after a wrong entry, neither 0 nor 1. The theorem says what each display shows, the
  slips of `show port`, `show pact` and `show rule` included.

### 5.4 Frame path

The frame path (`FramePathProofs`, for any ports, port actions, frames, bursts,
pools and rings that satisfy `PathAssumption`): every safety property its run
checks.

* `FramePathTypes == Spec => []TypeOK` and `PoolsAreAccountedFor == Spec => []PoolsAddUp`
  hold jointly or not at all: that a pool is not overfilled follows from the account
  of its mbufs, and the account needs the types.
* `EveryFrameIsCounted == Spec => []FramesCountOnce` and
  `LookupsNeedIpv4 == Spec => LookupsFollowIpv4`, from `CountInv`. The lemmas go along
  the dispatch: `DummyFacts`, `ParseL4Facts`, `ParseEthFacts` and `DecodedFacts` say of
  each parser by how much it raises the sum of the counters and which flags it
  sets, whatever the protocol remembered from an earlier frame.
* `VerdictIsOneValue == Spec => VerdictFromSlot`, from `SlotInv`: a command writes the
  action first, so the action is always that of the value being given, and only
  `next` can be old; but no value that reaches the slot of the trie has a `next` of
  zero, so that the old one decides nothing. Past the first read, one of the
  values seen was not a drop, which the remaining reads only confirm.

### 5.5 Two processes

Primary and secondary (`WorkShareProofs`, for any machine, rings, bursts and number of
restarts that satisfy `ShareAssumption`): `WorkShareTypes == Spec => []TypeOK`,
`NoMbufLeaks == Spec => []NothingLeaks` (an mbuf of a pool that is not spoiled is in
its pool, being put there, or in the burst of the lcore that received it) and
`BurstsAreOfOnePort == Spec => []OnePortBursts`, from `ShareInv`: the types, `Rings`
(the rings there are have the numbers from 0 on), `Polled` (a polled port has its
ring), `RingsOfPorts` (a ring holds frames of the port it is named for), `Hands` and
`Launched` (an lcore that is not launched holds no burst, so that a launch or a late
read of the index gives nobody's burst another ring).

`SecondaryStays == Spec => []EndsOnlyIfEarly` takes two more invariants: `BuiltInv`
(once the FIFOs are built, every port is known and has one) and `OnTime` (for a
secondary started in time on a suitable machine, `argPort` names a FIFO at every
moment a worker may read it, and the launch loop cannot be over without a launch).

### 5.6 Event pipelines

For any ports, workers, rings, bursts and configurations that satisfy `SteeringAssumption`
and `PipelineAssumption` (`EventPipelineProofs`):

* `PipelineTypes == Spec => []TypeOK` and `EventsStayOnce == Spec => []EachEventOnce`,
  from `EInv`: the types, `Homed` (an event waits in the queue it names), `Bound` (a
  ring holds events for queues that exist), `HandOf` (a worker has a burst only while
  it works on it, and has released nothing it has not come to) and `AllOnce`. That one
  is about numbers only: a `Layout` gives each place the sequence of event numbers it
  holds, with -1 for a released event, and every number below `received` stands at one
  position of one place (`Once`). Four lemmas say how a layout may change: a prefix
  moves from one place to the end of another (`ShiftOnce`: dequeue, schedule, enqueue
  in parts, abandon), a number is taken from the middle (`TakeOnce`: transmission in a
  burst), a released event goes (`DropOnce`) or a new number comes (`NewOnce`). The
  proof of each action names the places it is about. `TakesIs` shows that an enqueue
  which takes as many events as there is room for has a well-defined result.
* `SentPassAllStages == Spec => [](StagesFit(cdata) => SentAfterAllStages)`, from
  `CourseInv`: an event at rest has been with a worker once per stage behind it and
  once more in the extra round (`OnCourse`), one just dequeued once more than that
  (`InRound`). The stage is the queue or the sub-event type, depending on the loop
  (`Stage`), and is less than `num_stages`, so that the modulo of the loops leaves it
  alone (`StageIs`). The hypothesis `StagesFit` excludes what the violation run
  `MCEventPipelinePair` shows: with a queue per stage, several stages and more than
  one port or queues that are not atomic, the loops mistake the stage. Of the
  configurations of `MCEventPipeline` all but the ordered ones with several stages and
  a queue per stage satisfy it.

### 5.7 What is only model-checked, and why

* Liveness (`EveryFifoDrains`, `EveryFrameLeaves`, `BringUpEnds`, `BurstsEnd`,
  `ServedFifosDrain`, `SignalEndsProgram`): weak fairness is stated with `ENABLED`,
  about which the installed provers cannot reason.
* The properties of the violation runs: they do not hold.

## 6. Plan

1. *Done*: the models of sections 1.1 to 1.4.
2. *Done*: every invariant and action property that a passing run checks, as a theorem.
3. A rule list as a plain sequence, implemented by tables without deletions; a
   hand-over between two processes as a bag of packets.
4. An abstract event device, per frame the rounds it has made, implemented by
   `EventPipeline` under `StagesFit`.

## 7. Not modelled

Device, mempool and EAL set-up beyond its result; formatting and display, except
where a display reads the wrong variable. Packet contents are reduced to what
steering and rules compare. The delays of bring-up are taken to suffice in the
work distributor (section 2.2). Memory behind an array is not modelled. Calls of
the ring and event libraries are atomic where they guarantee it; a put into a
single-producer pool has two steps everywhere, and a dequeue two steps where its
process may die in between (`WorkShare`). What is behind the lookup of the directed
distributor is left out, since nothing reaches it.

Programs without a module, and why:

* `CM/cparser_tree.c`, `CM/inc`, `CM/lib`: a generated parse tree and a library of a
  third party. With the copies of library headers under `ebpf-debug` they are a sixth of
  the implementation's lines.
* Copies: three texts of `stats.c` and `node.c`, `main_org.c` of the thread trace, the
  `_bkp` and `_1708` files, and the sample model, whose text is that of
  `workshare/main.c`. What a model says of one text it says of its copy, but
  `map` names one place only.
* `malloc-monitor`: the two calls at `main.c:55` are the one race in it; two lcores may
  write the same element. `memzone-monitor`: a slot counter that goes one too far
  (`main.c:119`), and a monitor that compares checksums it never renews.
* `primary-secondary-messaging`, `test/` timers: the library does the waiting,
  matching and expiry; the programs print and re-arm.
* `nogdb-threadtrace`: reads registers and stacks of its threads in a signal
  handler, below what TLA+ sees.
* `gtpparser`, `ipfilter-hyperscan`, `rsshash-debug`, packet generators,
  `statistics`, `memcpy`, the snippets at the root: stateless classification by
  libraries, loops that send or print, benchmarks.

For these reasons the modules account for the programs with state and
concurrency, and for about a sixth of all lines of the repository.
