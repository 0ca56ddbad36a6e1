------------------------------ MODULE AclTables ------------------------------
(***************************************************************************)
(* The tables of the data plane that hold its ACL rules (dptables.c,       *)
(* dpapi.c): the context of the rte_acl library, the array of results a    *)
(* rule points into with its userdata, and the counters of rules.  main    *)
(* puts one rule there itself before the control module runs.              *)
(***************************************************************************)
EXTENDS Naturals, Sequences, Functions

CONSTANTS
  MaxRule,   (* MAX_RULE_COUNT: rules of the context, slots, and ruleIpv4     *)
  TestSlot,  (* userData of main's test rule: 10                              *)
  Match,     (* what a rule matches on: addresses and ports                   *)
  TestMatch  (* what the test rule matches on                                 *)

ASSUME AclAssumption ==
  /\ MaxRule \in Nat \ {0}
  /\ TestSlot \in 1 .. MaxRule
  /\ TestMatch \notin Match

VARIABLES
  aclIpv4_index,   (* the slot the next rule gets, counted from 1             *)
  aclIpv4Result,   (* the slots: action and next                              *)
  ctxIpv4,         (* the rules in the context; want is not in the code: the  *)
                   (* result the rule was added with                          *)
  tcp              (* ruleCnt.tcp, a uint8_t                                  *)

aclVars == <<aclIpv4_index, aclIpv4Result, ctxIpv4, tcp>>

-----------------------------------------------------------------------------
Verdict == {"PASS", "DROP", "RJCT", "ALRT", "none"}
Result  == [action : Verdict, next : {0, 1, 255}]

Unset      == [action |-> "none", next |-> 0]
TestForward == [action |-> "PASS", next |-> 0]   (* mutant: no next step *)
TestResult  == [action |-> "PASS", next |-> 1]

AclTypeOK ==
  /\ aclIpv4_index \in 1 .. MaxRule + 1
  /\ aclIpv4Result \in [1 .. MaxRule -> Result]
  /\ ctxIpv4 \in Seq([match : Match \cup {TestMatch}, userdata : 1 .. MaxRule,
                      want : Result])
  /\ Len(ctxIpv4) \in 1 .. MaxRule
  /\ tcp \in 0 .. 255

(* tableLookupCreate, then main writes the result of its test rule and     *)
(* adds that rule, without going through aclIpv4_index.                    *)
AclInit ==
  /\ aclIpv4_index = 1
  /\ aclIpv4Result = [s \in 1 .. MaxRule |-> IF s = TestSlot THEN TestResult ELSE Unset]
  /\ ctxIpv4 = <<[match |-> TestMatch, userdata |-> TestSlot, want |-> TestResult]>>
  /\ tcp = 0

(* tableLookupAddIpv4Rule: the library refuses a rule beyond max_rule_num. *)
AddRefused == Len(ctxIpv4) >= MaxRule

AddToCtx(m, res) ==
  ctxIpv4' = Append(ctxIpv4, [match |-> m, userdata |-> aclIpv4_index, want |-> res])

(* updateAcl_ipv4Tcp writes the slot first, and moves on to the next slot  *)
(* only when the context has taken the rule.                               *)
UpdateInPlace(m, res) ==   (* mutant: the index stays *)
  \/ /\ aclIpv4_index > MaxRule
     /\ UNCHANGED aclVars
  \/ /\ aclIpv4_index <= MaxRule
     /\ aclIpv4Result' = [aclIpv4Result EXCEPT ![aclIpv4_index] = res]
     /\ \/ /\ AddRefused
           /\ UNCHANGED <<ctxIpv4, aclIpv4_index, tcp>>
        \/ /\ ~AddRefused
           /\ AddToCtx(m, res)
           /\ UNCHANGED aclIpv4_index
           /\ tcp' = (tcp + 1) % 256

UpdateIfUnset(m, res) ==   (* mutant: a slot in use is left alone *)
  \/ /\ aclIpv4_index > MaxRule \/ aclIpv4Result[aclIpv4_index] # Unset
     /\ UNCHANGED aclVars
  \/ /\ aclIpv4_index <= MaxRule
     /\ aclIpv4Result[aclIpv4_index] = Unset
     /\ aclIpv4Result' = [aclIpv4Result EXCEPT ![aclIpv4_index] = res]
     /\ \/ /\ AddRefused
           /\ UNCHANGED <<ctxIpv4, aclIpv4_index, tcp>>
        \/ /\ ~AddRefused
           /\ AddToCtx(m, res)
           /\ aclIpv4_index' = aclIpv4_index + 1
           /\ tcp' = (tcp + 1) % 256

UpdateAcl(m, res) ==
  \/ /\ aclIpv4_index > MaxRule
     /\ UNCHANGED aclVars
  \/ /\ aclIpv4_index <= MaxRule
     /\ aclIpv4Result' = [aclIpv4Result EXCEPT ![aclIpv4_index] = res]
     /\ \/ /\ AddRefused
           /\ UNCHANGED <<ctxIpv4, aclIpv4_index, tcp>>
        \/ /\ ~AddRefused
           /\ AddToCtx(m, res)
           /\ aclIpv4_index' = aclIpv4_index + 1
           /\ tcp' = (tcp + 1) % 256

=============================================================================
