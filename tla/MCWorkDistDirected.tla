------------------------- MODULE MCWorkDistDirected -------------------------
(* A small instance of WorkDistDirected: one pool per port.                *)
EXTENDS WorkDistDirected

CONSTANTS a1, a2, b1, fl1

MCHome == [m \in MBuf |-> IF m = b1 THEN 1 ELSE 0]
MCMaxRx == [p \in Port |-> 2]

=============================================================================
