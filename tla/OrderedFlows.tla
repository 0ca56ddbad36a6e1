---------------------------- MODULE OrderedFlows ----------------------------
(***************************************************************************)
(* What a work distributor that keeps flows in order promises, with no     *)
(* FIFO, lcore or mbuf in sight: the frames of a flow leave in the order   *)
(* they came in, and any of them may be discarded on the way.  The promise *)
(* ends when the memory the frames are in breaks.                          *)
(***************************************************************************)
EXTENDS Naturals

CONSTANTS Flows   (* (port, source, destination) triples                   *)

VARIABLES
  flight,   (* per flow: arrival numbers of the frames inside                 *)
  last,     (* per flow: number of the frame delivered last                   *)
  broken    (* the promise has ended                                          *)

vars == <<flight, last, broken>>

Init ==
  /\ flight = [x \in Flows |-> {}]
  /\ last = [x \in Flows |-> 0]
  /\ broken = FALSE

(* A burst brings new frames to any of the flows: a new frame's number is  *)
(* above those of the frames it may not overtake.                          *)
Arrive ==
  /\ flight' \in [Flows -> SUBSET Nat]
  /\ \A x \in Flows :
       /\ flight[x] \subseteq flight'[x]
       /\ \A n \in flight'[x] \ flight[x] : \A k \in flight[x] \cup {last[x]} : k < n
  /\ UNCHANGED last

(* The oldest frame of a flow leaves.                                      *)
Deliver(x) ==
  \E n \in flight[x] :
    /\ \A k \in flight[x] : n <= k
    /\ last' = [last EXCEPT ![x] = n]
    /\ flight' = [flight EXCEPT ![x] = @ \ {n}]

Discard(x) ==
  /\ \E n \in flight[x] : flight' = [flight EXCEPT ![x] = @ \ {n}]
  /\ UNCHANGED last

Ordinary ==
  /\ ~broken /\ ~broken'
  /\ Arrive \/ \E x \in Flows : Deliver(x) \/ Discard(x)

Next == Ordinary \/ broken'

Spec == Init /\ [][Next]_vars

=============================================================================
