----------------------------- MODULE MCWorkShare -----------------------------
(* A small instance of WorkShare: two ports on node 0; the same with a     *)
(* slow port between them; and one of them on node 1.                      *)
EXTENDS WorkShare, TLC

CONSTANTS w1, w2
MCLayout == {0 :> 0 @@ 1 :> 0, 0 :> 0 @@ 2 :> 0, 0 :> 0 @@ 1 :> 1}
MCCoreCount == [n \in Node |-> IF n = 0 THEN 3 ELSE 1]
MCWorker == {w1, w2}
MCMaxRx == [p \in Ports |-> IF p = 0 THEN 2 ELSE 1]
MCSocketOf == [w \in Worker |-> 0]

=============================================================================
