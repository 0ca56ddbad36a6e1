---------------------------- MODULE EventSteering ----------------------------
(***************************************************************************)
(* Where the workers of the event pipelines (ebpf-debug/eventenqdeq-trace) *)
(* send an event: the queues the two set-up functions create, and what     *)
(* each kind of worker loop makes of an event it has dequeued.             *)
(*                                                                         *)
(* An event is what steering reads: the Ethernet port it came from, queue, *)
(* sub-event type, schedule type, operation, and the number of times a     *)
(* worker has had it (visits, which is not in the code).  Flows and        *)
(* priorities are left out: no property is about them.                     *)
(***************************************************************************)
EXTENDS Integers

CONSTANTS
  NumPorts,   (* rte_eth_dev_count_avail                                      *)
  Config      (* cdata and the capabilities of the devices                    *)

Sched == {"ATOMIC", "ORDERED", "PARALLEL"}

ASSUME SteeringAssumption ==
  /\ NumPorts \in Nat \ {0}
  /\ Config \subseteq [pipeline : {"generic", "tx"}, burst : BOOLEAN,
                       all_type_queues : BOOLEAN, num_stages : Nat \ {0},
                       queue_type : Sched]

EthPort == 0 .. NumPorts - 1
Event == [id : Nat, port : EthPort, queue_id : Nat, sub_event_type : Nat,
          sched_type : Sched, op : {"NEW", "FORWARD", "RELEASE"}, visits : Nat]

-----------------------------------------------------------------------------
(* The queues: one per stage and one for the TX adapter, or, for workers   *)
(* that transmit themselves, one per port of all types, or a pipeline of   *)
(* stages and a transmit slot per port.                                    *)
nb_queues(c) ==
  IF c.pipeline = "generic" THEN c.num_stages + 1
  ELSE IF c.all_type_queues THEN NumPorts
  ELSE NumPorts * c.num_stages + NumPorts

rx_stride(c) == IF c.pipeline = "generic" THEN 0
                ELSE IF c.all_type_queues THEN 1 ELSE c.num_stages + 1

next_qid(k) == k + 1

(* init_adapters: what the RX adapter injects for a frame of port p.       *)
Injected(c, n, p) ==
  [id |-> n, port |-> p, queue_id |-> p * rx_stride(c), sub_event_type |-> 0,
   sched_type |-> c.queue_type, op |-> "NEW", visits |-> 0]

(* The queues a worker's port is linked to: all but the TX adapter's.      *)
LinkedToWorkers(c) ==
  0 .. (IF c.pipeline = "generic" THEN c.num_stages - 1 ELSE nb_queues(c) - 1)

-----------------------------------------------------------------------------
(* worker_fwd_event *)
Forward(e, sched) == [e EXCEPT !.sched_type = sched, !.op = "FORWARD"]

(* worker_generic, worker_generic_burst: never transmits.                  *)
SameStage(c, e) ==   (* mutant: the queue is not advanced *)
  Forward(e, c.queue_type)
Generic(c, e) == [Forward(e, c.queue_type) EXCEPT !.queue_id = next_qid(e.queue_id)]

(* worker_do_tx_single and its variants.                                   *)
Single(e)    == [Forward(e, "ATOMIC") EXCEPT !.queue_id = @ + 1]
SingleAtq(e) == Forward(e, "ATOMIC")

(* worker_do_tx, worker_do_tx_burst: the stage is the queue modulo the     *)
(* number of stages, though a pipeline has one queue more than stages.     *)
lst_qid(c) == c.num_stages - 1
cq_id(c, e) == e.queue_id % c.num_stages

Multi(c, e) ==
  IF cq_id(c, e) >= lst_qid(c)
  THEN [Forward(e, "ATOMIC") EXCEPT !.queue_id = next_qid(@)]
  ELSE [Forward(e, c.queue_type) EXCEPT !.queue_id = next_qid(@)]

(* worker_do_tx_atq, worker_do_tx_burst_atq: one queue, the stage is the   *)
(* sub-event type.                                                         *)
SubStage(c, e) == e.sub_event_type % c.num_stages

MultiAtq(c, e) ==
  IF SubStage(c, e) = lst_qid(c)
  THEN Forward(e, "ATOMIC")
  ELSE [Forward(e, c.queue_type) EXCEPT !.sub_event_type = @ + 1]

(* The loop get_worker_single_stage or get_worker_multi_stage returns.     *)
AtLastStage(c, e) ==
  \/ c.num_stages = 1
  \/ c.all_type_queues /\ SubStage(c, e) = lst_qid(c)
  \/ ~c.all_type_queues /\ cq_id(c, e) >= lst_qid(c)

TransmitsEarly(c, e) ==   (* mutant: an event of the last stage is sent whatever its type *)
  c.pipeline = "tx" /\ AtLastStage(c, e)
Transmits(c, e) ==
  c.pipeline = "tx" /\ AtLastStage(c, e) /\ e.sched_type = "ATOMIC"

Steered(c, e) ==
  IF c.pipeline = "generic" THEN Generic(c, e)
  ELSE IF c.num_stages = 1
       THEN IF c.all_type_queues THEN SingleAtq(e) ELSE Single(e)
       ELSE IF c.all_type_queues THEN MultiAtq(c, e) ELSE Multi(c, e)

(* How often workers have an event from port to port: once per stage, and  *)
(* once more to put it in an atomic context before it is transmitted.      *)
Rounds(c) ==
  c.num_stages + (IF c.pipeline = "tx" /\ c.queue_type # "ATOMIC" THEN 1 ELSE 0)

(* The configurations in which an event's stage is what the loops take for *)
(* it: not those with a queue per stage, several stages and more than one  *)
(* port or an extra round in an atomic context.                            *)
StagesFit(c) ==
  \/ c.pipeline = "generic" \/ c.num_stages = 1 \/ c.all_type_queues
  \/ NumPorts = 1 /\ c.queue_type = "ATOMIC"

=============================================================================
