-------------------------- MODULE WorkDistDirected --------------------------
(***************************************************************************)
(* main_directed_nosqm.c as it is built: a hash table of the node is to    *)
(* remember which FIFO a flow goes to, but the rte_hash_create of the      *)
(* tables is under "#if 0" and ipv4_hash_table stays NULL.  What a lookup  *)
(* in a table that is not there does depends on the build of rte_hash:     *)
(* with its parameter checks it returns -EINVAL, without them it faults.   *)
(* Neither a known flow nor an unknown one (-ENOENT) is ever found, so     *)
(* that the FIFOs behind the lookup, and the workers, get no packet.       *)
(***************************************************************************)
EXTENDS WorkDist

VARIABLES
  faulted   (* a lookup has ended the process                                *)

dvars == <<vars, faulted>>

DInit == Init /\ faulted = FALSE

(* An IPv4 packet at hand: it is counted, and looked up.                   *)
LooksUp(p) ==
  /\ pc[p] = "next" /\ bufs[p] # <<>>
  /\ pkt[Head(bufs[p])].flow # NonIp

(* "ERROR: invalid params"                                                 *)
LookupRefused(p) ==
  /\ LooksUp(p)
  /\ rxStat' = [rxStat EXCEPT ![p].ipv4 = @ + 1, ![p].dropped = @ + 1]
  /\ StartFree(p, "none", 0)
  /\ UNCHANGED <<memVars, pkt, arrived, ring, wrkVars, putWrk, rxQueue,
                 wrkStat, last, faulted>>

LookupFaults(p) ==
  /\ LooksUp(p)
  /\ faulted' = TRUE
  /\ UNCHANGED vars

DNext ==
  /\ ~faulted
  /\ \/ \E p \in Port : SharedRx(p) /\ UNCHANGED faulted
     \/ \E p \in Port : LookupRefused(p) \/ LookupFaults(p)
     \/ \E f \in Fifo : Worker(f) /\ UNCHANGED faulted

DSpec == DInit /\ [][DNext]_dvars

-----------------------------------------------------------------------------
(* "queue the pkts to fifo based on hash result": an IPv4 packet leaves    *)
(* its burst into a FIFO, or because a FIFO is full, and no lookup ends    *)
(* the process.                                                            *)
PacketsAreDirected ==
  [][/\ ~faulted'
     /\ \A p \in Port : LooksUp(p) /\ bufs'[p] # bufs[p] =>
          \E f \in Fifo : \/ Len(ring[f]) >= RingCap
                         \/ ring'[f] = Append(ring[f], Head(bufs[p]))]_dvars

=============================================================================
