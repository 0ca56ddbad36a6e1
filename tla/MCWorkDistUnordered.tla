------------------------ MODULE MCWorkDistUnordered ------------------------
(* A small instance of WorkDistUnordered: one pool per port.               *)
EXTENDS WorkDistUnordered

CONSTANTS a1, a2, b1, c1, fl1

(* Three ports, of which number 2 has no FIFO of its number.               *)
MCHome == [m \in MBuf |-> CASE m = b1 -> 1 [] m = c1 -> 2 [] OTHER -> 0]
MCMaxRx == [p \in Port |-> IF p = 2 THEN 1 ELSE 2]

=============================================================================
