--------------------------- MODULE WorkDistAtomic ---------------------------
(***************************************************************************)
(* main_atomic_nosqm.c: the FIFO of a packet is a hash of its IPv4 source  *)
(* and destination, so all packets of a flow meet the same worker.         *)
(***************************************************************************)
EXTENDS WorkDist

CONSTANTS
  Hash   (* flow -> what jhash and the xor fold of its four bytes leave      *)

ASSUME HashAssumption == Hash \in [Flow -> Nat]

SteerToIdle(fl) ==   (* mutant: an empty FIFO is preferred *)
  IF \E f \in Fifo : ring[f] = <<>>
  THEN CHOOSE f \in Fifo : ring[f] = <<>>
  ELSE Hash[fl] % FifoWrk
Steer(fl) == Hash[fl] % FifoWrk

TypeOK == TypeOKWith(SharedPc)

(* An IPv4 packet is counted, steered by its hash and enqueued; when the   *)
(* FIFO is full it is freed and then counted as dropped.                   *)
Fetch(p) ==
  LET fl == pkt[Head(bufs[p])].flow
      f  == Steer(fl)
  IN
  /\ pc[p] = "next" /\ bufs[p] # <<>>
  /\ fl # NonIp
  /\ rxStat' = [rxStat EXCEPT ![p].ipv4 = @ + 1]
  /\ \/ /\ Enqueue(p, f)
        /\ UNCHANGED putRx
     \/ /\ Len(ring[f]) >= RingCap
        /\ StartFree(p, "drp", f)
        /\ UNCHANGED ring
  /\ UNCHANGED <<memVars, pkt, arrived, wrkVars, putWrk, rxQueue, wrkStat, last>>

Next ==
  \/ \E p \in Port : SharedRx(p) \/ Fetch(p)
  \/ \E f \in Fifo : Worker(f)

Spec == Init /\ [][Next]_vars

=============================================================================
