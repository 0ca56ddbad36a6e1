--------------------------- MODULE MCLcoreLaunch ---------------------------
(* Small machines for LcoreLaunch: two nodes, lcore 0 being the master.    *)
EXTENDS LcoreLaunch

(* Lcores alternate between the nodes; node 0 has six, node 1 four.        *)
MCLcoreNode == [l \in Lcore |-> IF l \in {2, 4, 6, 8} THEN 1 ELSE 0]

MCPortNode == [p \in Port |-> IF p = 2 THEN 1 ELSE IF p = 1 THEN -1 ELSE 0]

=============================================================================
