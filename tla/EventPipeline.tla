---------------------------- MODULE EventPipeline ----------------------------
(***************************************************************************)
(* The event pipelines of ebpf-debug/eventenqdeq-trace at work: workers    *)
(* dequeue events, steer and enqueue or transmit them, a service lcore     *)
(* runs the adapters and the scheduler of a software event device, and a   *)
(* signal stops it all.                                                    *)
(*                                                                         *)
(* The event device is external: each worker's port has a ring the         *)
(* scheduler empties into the queues, and an enqueue takes no more events  *)
(* than the ring has room for.  Of an enqueue to a queue that does not     *)
(* exist nothing is taken.  The rings of workers that transmit are emptied *)
(* by the hardware, software service or not: their loops never call        *)
(* schedule_devices.  The master lcore, which handles the signal, does no  *)
(* work here.  A spare lcore, if there is one, shows the menu of the eBPF  *)
(* tracing until its user quits; the tracing itself is left out.           *)
(***************************************************************************)
EXTENDS EventSteering, Sequences, FiniteSets

CONSTANTS
  Worker,      (* worker_core: the lcores that work, each with a port         *)
  BatchSize,   (* BATCH_SIZE: 16                                              *)
  RingRoom,    (* enqueue_depth: 64                                           *)
  MaxEvents    (* bound of the model: frames received                         *)

ASSUME PipelineAssumption ==
  BatchSize \in Nat \ {0} /\ RingRoom \in Nat \ {0} /\ MaxEvents \in Nat

VARIABLES
  cdata,       (* the configuration of this run                               *)
  queue,       (* per queue, the events to be dequeued                        *)
  ring,        (* per worker, what its port hands to the scheduler            *)
  at,          (* per worker, its place in the loop                           *)
  events, n,   (* per worker, the burst it has, and how far it is with it     *)
  service,     (* the lcore that runs adapters and scheduler: up or down      *)
  done,        (* fdata->done                                                 *)
  handler,     (* signal_handler: idle, stopping, waiting, closed, or the     *)
               (* program exited                                              *)
  menu,        (* display: shown, quit, or none for want of an lcore          *)
  started,     (* adapters and Ethernet devices are started                   *)
  received, sent, left   (* not in the code: frames received, events          *)
                         (* transmitted, events left behind by a worker       *)

vars == <<cdata, queue, ring, at, events, n, service, done, handler, menu, started,
          received, sent, left>>
control == <<service, done, handler, menu, started>>

Queue    == 0 .. nb_queues(cdata) - 1
MaxBatch == IF cdata.burst THEN BatchSize ELSE 1
TxQueue  == cdata.num_stages

TypeOK ==
  /\ cdata \in Config
  /\ queue \in [Queue -> Seq(Event)]
  /\ ring \in [Worker -> Seq(Event)]
  /\ \A w \in Worker : Len(ring[w]) <= RingRoom
  /\ at \in [Worker -> {"loop", "each", "enqueue", "stopped"}]
  /\ events \in [Worker -> Seq(Event)]
  /\ n \in [Worker -> Nat] /\ \A w \in Worker : n[w] <= Len(events[w])
  /\ service \in {"up", "down"} /\ done \in BOOLEAN /\ started \in BOOLEAN
  /\ handler \in {"idle", "stopping", "waiting", "closed", "exited"}
  /\ menu \in {"none", "shown", "quit"}
  /\ received \in 0 .. MaxEvents /\ sent \in Seq(Event) /\ left \in Seq(Event)

Init ==
  /\ cdata \in Config
  /\ queue = [k \in Queue |-> <<>>]
  /\ ring = [w \in Worker |-> <<>>]
  /\ at = [w \in Worker |-> "loop"]
  /\ events = [w \in Worker |-> <<>>] /\ n = [w \in Worker |-> 0]
  /\ service = "up" /\ done = FALSE /\ handler = "idle" /\ started = TRUE
  /\ menu \in {"none", "shown"}
  /\ received = 0 /\ sent = <<>> /\ left = <<>>

-----------------------------------------------------------------------------
(* schedule_devices, on the service lcore, and what hardware does itself.  *)
Runs   == handler # "exited"
Served == Runs /\ (service = "up" \/ cdata.pipeline = "tx")

Receive(p) ==
  /\ Served /\ started /\ received < MaxEvents
  /\ LET e == Injected(cdata, received, p)
     IN queue' = [queue EXCEPT ![e.queue_id] = Append(@, e)]
  /\ received' = received + 1
  /\ UNCHANGED <<cdata, ring, at, events, n, sent, left, control>>

(* A released event leaves the device.                                     *)
Schedule(w) ==
  /\ Served /\ ring[w] # <<>>
  /\ ring' = [ring EXCEPT ![w] = Tail(@)]
  /\ LET e == Head(ring[w]) IN
     \/ e.op = "RELEASE" /\ UNCHANGED queue
     \/ e.op # "RELEASE" /\ queue' = [queue EXCEPT ![e.queue_id] = Append(@, e)]
  /\ UNCHANGED <<cdata, at, events, n, received, sent, left, control>>

TxAdapter ==
  /\ cdata.pipeline = "generic" /\ Served /\ started
  /\ queue[TxQueue] # <<>>
  /\ sent' = Append(sent, Head(queue[TxQueue]))
  /\ queue' = [queue EXCEPT ![TxQueue] = Tail(@)]
  /\ UNCHANGED <<cdata, ring, at, events, n, received, left, control>>

ServiceEnds ==
  /\ Runs /\ service = "up" /\ done
  /\ service' = "down"
  /\ UNCHANGED <<cdata, queue, ring, at, events, n, done, handler, menu, started,
                 received, sent, left>>

-----------------------------------------------------------------------------
(* The worker loops.                                                       *)

Visited(es) == [j \in 1 .. Len(es) |-> [es[j] EXCEPT !.visits = @ + 1]]

(* One dequeue may bring events of several queues: as long as the worker   *)
(* has not looked at its burst, more of another queue can be in it.        *)
Dequeuing(w) == at[w] = "loop" \/ (at[w] = "each" /\ n[w] = 0)

Dequeue(w, k, m) ==
  /\ Dequeuing(w) /\ ~done
  /\ k \in LinkedToWorkers(cdata) /\ m <= Len(queue[k])
  /\ m \in 1 .. MaxBatch - Len(events[w])
  /\ events' = [events EXCEPT ![w] = @ \o Visited(SubSeq(queue[k], 1, m))]
  /\ queue' = [queue EXCEPT ![k] = SubSeq(@, m + 1, Len(@))]
  /\ at' = [at EXCEPT ![w] = "each"]
  /\ n' = [n EXCEPT ![w] = 0]
  /\ UNCHANGED <<cdata, ring, received, sent, left, control>>

WorkerEnds(w) ==
  /\ at[w] = "loop" /\ done
  /\ at' = [at EXCEPT ![w] = "stopped"]
  /\ UNCHANGED <<cdata, queue, ring, events, n, received, sent, left, control>>

(* The next event of the burst is steered, or transmitted; worker_tx_pkt   *)
(* tries until the event is taken.  In a burst it is released then.        *)
Current(w) == events[w][n[w] + 1]
EachDone(w) == n[w] + 1 = Len(events[w])
Goto(w) == IF EachDone(w) THEN "enqueue" ELSE "each"
Counter(w) == IF EachDone(w) THEN 0 ELSE n[w] + 1

Steer(w) ==
  /\ at[w] = "each" /\ ~Transmits(cdata, Current(w))
  /\ events' = [events EXCEPT ![w][n[w] + 1] = Steered(cdata, @)]
  /\ at' = [at EXCEPT ![w] = Goto(w)]
  /\ n' = [n EXCEPT ![w] = Counter(w)]
  /\ UNCHANGED <<cdata, queue, ring, received, sent, left, control>>

TransmitBurst(w) ==
  /\ cdata.burst
  /\ events' = [events EXCEPT ![w][n[w] + 1].op = "RELEASE"]
  /\ at' = [at EXCEPT ![w] = Goto(w)]
  /\ n' = [n EXCEPT ![w] = Counter(w)]

(* The single-event loops go on to the next dequeue, which releases.       *)
TransmitOne(w) ==
  /\ ~cdata.burst
  /\ events' = [events EXCEPT ![w] = <<>>]
  /\ at' = [at EXCEPT ![w] = "loop"]
  /\ UNCHANGED n

Transmit(w) ==
  /\ at[w] = "each" /\ Transmits(cdata, Current(w))
  /\ started
  /\ sent' = Append(sent, Current(w))
  /\ TransmitBurst(w) \/ TransmitOne(w)
  /\ UNCHANGED <<cdata, queue, ring, received, left, control>>

(* rte_event_enqueue_burst of what is left, until all is taken.  Only      *)
(* worker_generic_burst looks at done between two attempts.                *)
OneMore(w) == RingRoom + 1 - Len(ring[w])   (* mutant: off by one *)
Room(w)  == RingRoom - Len(ring[w])
Rest(w)  == SubSeq(events[w], n[w] + 1, Len(events[w]))
Takes(w) == CHOOSE m \in 0 .. Len(Rest(w)) :
              /\ m <= Room(w) /\ \A j \in 1 .. m : Rest(w)[j].queue_id \in Queue
              /\ \/ m = Len(Rest(w)) \/ m = Room(w)
                 \/ Rest(w)[m + 1].queue_id \notin Queue

EnqueueAllAgain(w) ==   (* mutant: the next attempt starts over *)
  /\ at[w] = "enqueue" /\ Takes(w) > 0
  /\ ring' = [ring EXCEPT ![w] = @ \o SubSeq(Rest(w), 1, Takes(w))]
  /\ \/ /\ Takes(w) = Len(Rest(w))
        /\ events' = [events EXCEPT ![w] = <<>>]
        /\ n' = [n EXCEPT ![w] = 0] /\ at' = [at EXCEPT ![w] = "loop"]
     \/ Takes(w) < Len(Rest(w)) /\ UNCHANGED <<n, events, at>>
  /\ UNCHANGED <<cdata, queue, received, sent, left, control>>
Enqueue(w) ==
  /\ at[w] = "enqueue" /\ Takes(w) > 0
  /\ ring' = [ring EXCEPT ![w] = @ \o SubSeq(Rest(w), 1, Takes(w))]
  /\ \/ /\ Takes(w) = Len(Rest(w))
        /\ events' = [events EXCEPT ![w] = <<>>]
        /\ n' = [n EXCEPT ![w] = 0] /\ at' = [at EXCEPT ![w] = "loop"]
     \/ /\ Takes(w) < Len(Rest(w))
        /\ n' = [n EXCEPT ![w] = @ + Takes(w)]
        /\ UNCHANGED <<events, at>>
  /\ UNCHANGED <<cdata, queue, received, sent, left, control>>

GivesUp == cdata.pipeline = "generic" /\ cdata.burst

NeverGivesUp(w) == FALSE   (* mutant: done is not looked at *)
GiveUp(w) ==
  /\ GivesUp /\ done
  /\ at[w] = "enqueue" /\ Takes(w) = 0
  /\ left' = left \o Rest(w)
  /\ events' = [events EXCEPT ![w] = <<>>]
  /\ n' = [n EXCEPT ![w] = 0] /\ at' = [at EXCEPT ![w] = "loop"]
  /\ UNCHANGED <<cdata, queue, ring, received, sent, control>>

-----------------------------------------------------------------------------
(* signal_handler.  A second signal ends the program at once (rte_exit),   *)
(* wherever the lcores are.                                                *)

FirstSignal ==
  /\ handler = "idle" /\ ~done
  /\ done' = TRUE /\ handler' = "stopping"
  /\ UNCHANGED <<cdata, queue, ring, at, events, n, service, menu, started, received,
                 sent, left>>

SecondSignal ==
  /\ Runs /\ done
  /\ handler' = "exited"
  /\ UNCHANGED <<cdata, queue, ring, at, events, n, service, done, menu, started,
                 received, sent, left>>

(* What the user does is not for the program to decide: no fairness.       *)
DisplayQuits ==
  /\ Runs /\ menu = "shown"
  /\ menu' = "quit"
  /\ UNCHANGED <<cdata, queue, ring, at, events, n, service, done, handler, started,
                 received, sent, left>>

StopDevices ==
  /\ handler = "stopping"
  /\ started' = FALSE /\ handler' = "waiting"
  /\ UNCHANGED <<cdata, queue, ring, at, events, n, service, done, menu, received,
                 sent, left>>

(* rte_eal_mp_wait_lcore, for the menu too, then everything is closed.     *)
(* stopApp, which would end the menu, is only called here.                 *)
Close ==
  /\ handler = "waiting"
  /\ service = "down" /\ menu # "shown" /\ \A w \in Worker : at[w] = "stopped"
  /\ handler' = "closed"
  /\ UNCHANGED <<cdata, queue, ring, at, events, n, service, done, menu, started,
                 received, sent, left>>

-----------------------------------------------------------------------------
Works(w) ==
  /\ Runs
  /\ \/ \E k \in Queue, m \in 1 .. BatchSize : Dequeue(w, k, m)
     \/ WorkerEnds(w) \/ Steer(w) \/ Transmit(w) \/ Enqueue(w) \/ GiveUp(w)

Services == TxAdapter \/ ServiceEnds \/ \E w \in Worker : Schedule(w)
Handles  == StopDevices \/ Close

Next == \/ \E p \in EthPort : Receive(p)
        \/ Services \/ FirstSignal \/ SecondSignal \/ DisplayQuits \/ Handles
        \/ \E w \in Worker : Works(w)

(* Every lcore loops, the signal handler goes on once it runs, and the     *)
(* event device serves every ring; whether signals come is open.           *)
Fairness ==
  /\ \A w \in Worker : WF_vars(Works(w)) /\ WF_vars(Schedule(w))
  /\ WF_vars(TxAdapter) /\ WF_vars(ServiceEnds) /\ WF_vars(Handles)

Spec == Init /\ [][Next]_vars /\ Fairness

-----------------------------------------------------------------------------
(* The places an event can be: in a queue, on its way to the scheduler, in *)
(* a burst (but not what of it is enqueued, nor what is released), sent,   *)
(* or left behind.                                                         *)
InHand(w) == IF at[w] = "enqueue" THEN Rest(w) ELSE events[w]

Place == {<<"queue", k>> : k \in Queue} \cup ({"ring", "hand"} \X Worker)
           \cup {<<"sent", 0>>, <<"left", 0>>}

At(p) == CASE p[1] = "queue" -> queue[p[2]]
           [] p[1] = "ring"  -> ring[p[2]]
           [] p[1] = "hand"  -> InHand(p[2])
           [] p[1] = "sent"  -> sent
           [] p[1] = "left"  -> left

Live(id, s) == {j \in 1 .. Len(s) : s[j].id = id /\ s[j].op # "RELEASE"}
Spots(id)   == UNION {{p} \X Live(id, At(p)) : p \in Place}

(* Through bursts that are taken in parts, transmitted in the middle and   *)
(* abandoned, an event is neither lost nor doubled: only                   *)
(* worker_generic_burst leaves events behind, and only when it is stopped. *)
EachEventOnce ==
  /\ \A id \in 0 .. received - 1 : Cardinality(Spots(id)) = 1
  /\ left # <<>> => GivesUp /\ done

(* Every frame transmitted has been through all stages, and through the    *)
(* atomic context that restores its order.                                 *)
SentAfterAllStages == \A j \in 1 .. Len(sent) : sent[j].visits = Rounds(cdata)

(* A signal ends the program, unless nobody quits the menu, or a worker    *)
(* that does not look at done waits for room in a ring nobody empties any  *)
(* more, for a queue that does not exist to take its event, or for a       *)
(* device that is stopped; worker_generic_burst never does.                *)
Stranded(w) == \/ /\ at[w] = "enqueue" /\ Takes(w) = 0
                  /\ ~Served \/ Rest(w)[1].queue_id \notin Queue
               \/ at[w] = "each" /\ Transmits(cdata, Current(w)) /\ ~started
Ended == handler \in {"closed", "exited"}
SignalEndsProgram ==
  done ~> Ended \/ menu = "shown" \/ (~GivesUp /\ \E w \in Worker : Stranded(w))

(* A comment of the set-up: with two stages and two Ethernet ports, "This  *)
(* forms two set of queue pipelines 0->1->2->tx and 3->4->5->tx".          *)
PipelinesSeparate ==
  \A k \in Queue : \A j \in 1 .. Len(queue[k]) :
    (cdata.pipeline = "tx" /\ ~cdata.all_type_queues) =>
       k \in queue[k][j].port * rx_stride(cdata) .. queue[k][j].port * rx_stride(cdata) + cdata.num_stages

=============================================================================
