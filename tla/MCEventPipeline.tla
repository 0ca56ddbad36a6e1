--------------------------- MODULE MCEventPipeline ---------------------------
(* A small instance of EventPipeline: each of the ten worker loops, those  *)
(* for several stages with a queue per stage with atomic queues, for which *)
(* they go right with one port, and with ordered ones, with which they     *)
(* offer events to a queue that does not exist.                            *)
EXTENDS EventPipeline

CONSTANTS w1, w2

Of(pipeline, burst, atq, stages, type) ==
  [pipeline |-> pipeline, burst |-> burst, all_type_queues |-> atq,
   num_stages |-> stages, queue_type |-> type]

MCWorker == {w1, w2}
MCConfig == UNION {{Of("generic", b, FALSE, 2, "ORDERED"), Of("tx", b, FALSE, 1, "ORDERED"),
                    Of("tx", b, TRUE, 1, "ORDERED"), Of("tx", b, TRUE, 2, "ORDERED"),
                    Of("tx", b, FALSE, 2, "ATOMIC"),
                    Of("tx", b, FALSE, 2, "ORDERED")} : b \in BOOLEAN}

(* Two ports, two stages, ordered queues.                                  *)
MCPairConfig == {Of("tx", FALSE, FALSE, 2, "ORDERED")}

=============================================================================
