-------------------------- MODULE MCWorkDistAtomic --------------------------
(* A small instance of WorkDistAtomic: two ports with private pools.       *)
EXTENDS WorkDistAtomic, TLC

CONSTANTS a1, a2, a3, b1, fl1, fl2

MCHome == [m \in MBuf |-> IF m = b1 THEN 1 ELSE 0]

MCMaxRx == [p \in Port |-> IF p = 0 THEN 4 ELSE 1]

(* The two flows meet in different FIFOs.                                  *)
MCHash == [fl \in Flow |-> IF fl = fl1 THEN 4 ELSE 7]

(* The mbufs of port 0 are interchangeable.                                *)
StalePool == Permutations({a1, a2, a3})

=============================================================================
