------------------------------ MODULE RuleStore ------------------------------
(***************************************************************************)
(* The control module's rule tables (CM/api.c) under the commands of its   *)
(* command line (CM/action.c), with the data plane's ACL tables behind the *)
(* TCP table.  Each protocol and IP version has an array of ten rules, a   *)
(* count of the rules listed (..._rule_cnt) and a static variable i of its *)
(* add function: the place of the next rule, which no deletion turns back. *)
(*                                                                         *)
(* The commands run one after another on the master lcore.  An add beyond  *)
(* the last entry of an array, and a scan that reads behind it, is where   *)
(* the model stops: C leaves open what happens.                            *)
(***************************************************************************)
EXTENDS AclTables, Integers, SequencesExt, FiniteSets

CONSTANTS
  Table,       (* the pairs of protocol and version that have an array        *)
  Ipv4Table,   (* those of version ipv4                                       *)
  AclTable,    (* tcp_ipv4: its add function updates the ACL                  *)
  UdpTable,    (* udp_ipv4, udp_ipv6: their deletion copies one entry more    *)
  DcerpcTable, (* dcerpc: its deletion does not copy sipaddr                  *)
  Size,        (* entries of an array: 10                                     *)
  Act,         (* the actions: "alert", "pass", "drop", "reject"              *)
  Source,      (* source addresses                                            *)
  BadSource,   (* those that validate_ip refuses                              *)
  Rest,        (* destination and ports; the direction is left out            *)
  RuleNum,     (* numbers a user may give to "rule del"                       *)
  MaxAdd       (* bound of the model: rules stored in all                     *)

ASSUME StoreAssumption ==
  /\ Ipv4Table \subseteq Table /\ AclTable \subseteq Ipv4Table
  /\ UdpTable \subseteq Table /\ DcerpcTable \subseteq Table \ UdpTable
  /\ Size \in Nat \ {0}
  /\ Act \subseteq {"alert", "pass", "drop", "reject"}
  /\ BadSource \subseteq Source
  /\ Match = Source \X Rest
  /\ RuleNum \subseteq Nat
  /\ MaxAdd \in Nat

VARIABLES
  rule,      (* per table: its array                                          *)
  i,         (* per table: the place of the next rule                         *)
  rule_cnt,  (* per table: rules listed                                       *)
  total,     (* ipv4_rule_cnt and ipv6_rule_cnt of action.c                   *)
  refused,   (* the rule the last command was told to be there already        *)
  added      (* not in the code: per table, the rules whose add was accepted  *)

storeVars == <<rule, i, rule_cnt, total, refused, added>>
vars == <<storeVars, aclVars>>

Entry == 0 .. Size - 1
Rule  == [act : Act, src : Source, rest : Rest]

(* An entry nobody wrote: zeroes, which no command can match.              *)
Blank == [act |-> "", src |-> "", rest |-> ""]

(* What an entry may hold: with the source of one rule and the rest of     *)
(* another once a deletion has copied it.                                  *)
Content == Rule \cup {Blank}

Nothing == [table |-> <<>>, rule |-> Blank]

TypeOK ==
  /\ AclTypeOK
  /\ rule \in [Table -> [Entry -> Content]]
  /\ i \in [Table -> 0 .. Size] /\ rule_cnt \in [Table -> 0 .. Size]
  /\ total \in [{4, 6} -> Nat]
  /\ refused \in [table : Table \cup {<<>>}, rule : Content]
  /\ added \in [Table -> SUBSET Rule]

Init ==
  /\ AclInit
  /\ rule = [t \in Table |-> [k \in Entry |-> Blank]]
  /\ i = [t \in Table |-> 0] /\ rule_cnt = [t \in Table |-> 0]
  /\ total = [v \in {4, 6} |-> 0]
  /\ refused = Nothing
  /\ added = [t \in Table |-> {}]

-----------------------------------------------------------------------------
(* rule add *)

VersionOf(t) == IF t \in Ipv4Table THEN 4 ELSE 6

(* "!strcmp("alert", action) == 0" holds of every action but alert, so     *)
(* that the tests of the three actions after it have no effect but one.    *)
ResultOf(act) ==
  [action |-> IF act # "alert" THEN "ALRT" ELSE "DROP", next |-> 255]

(* The rule is in the array, at one of the places the scan visits: up to   *)
(* and including the place of the next rule.                               *)
Stored(t, r) == \E k \in 0 .. i[t] : rule[t][k] = r

(* validate_ip and validate_port are asked about IPv4 rules only.          *)
Accepted(t, r) == VersionOf(t) = 4 => r.src \notin BadSource

(* The add functions.  That of TCP updates the ACL before it looks whether *)
(* it has the rule, and does not look at what the update returned.         *)
PlaceBefore(t) == IF i[t] = 0 THEN 0 ELSE i[t] - 1   (* mutant: off by one *)
PlaceOf(t)     == i[t]

AddRule(t, r) ==
  /\ Accepted(t, r)
  /\ i[t] < Size
  /\ total[4] + total[6] < MaxAdd
  /\ IF t \in AclTable
     THEN UpdateAcl(<<r.src, r.rest>>, ResultOf(r.act))
     ELSE UNCHANGED aclVars
  /\ \/ /\ Stored(t, r)
        /\ refused' = [table |-> t, rule |-> r]
        /\ UNCHANGED <<rule, i, rule_cnt, total, added>>
     \/ /\ ~Stored(t, r)
        /\ rule' = [rule EXCEPT ![t][PlaceOf(t)] = r]
        /\ i' = [i EXCEPT ![t] = @ + 1]
        /\ rule_cnt' = [rule_cnt EXCEPT ![t] = i[t] + 1]
        /\ total' = [total EXCEPT ![VersionOf(t)] = @ + 1]
        /\ added' = [added EXCEPT ![t] = @ \cup {r}]
        /\ refused' = Nothing

-----------------------------------------------------------------------------
(* rule del *)

NeverEmpty(t) == FALSE   (* mutant: the test for an empty array is gone *)
IsEmpty(t)    == rule_cnt[t] = 0

(* The last entry that takes over the one after it, and what it takes.     *)
LastShiftedUdp(t) == rule_cnt[t] - 1   (* mutant: "<=" in every table *)
LastShifted(t) == IF t \in UdpTable THEN rule_cnt[t] - 1 ELSE rule_cnt[t] - 2

Copied(t, old, k) == IF t \in DcerpcTable
                     THEN [old[k + 1] EXCEPT !.src = old[k].src]
                     ELSE old[k + 1]

ShiftLate(t, n) ==   (* mutant: starts with the entry after n *)
  [k \in Entry |-> IF k \in n .. LastShifted(t) THEN Copied(t, rule[t], k)
                   ELSE rule[t][k]]
Shifted(t, n) ==
  [k \in Entry |-> IF k \in n - 1 .. LastShifted(t) THEN Copied(t, rule[t], k)
                   ELSE rule[t][k]]

(* Number 0, an empty array and, in del_ipv6_rule only, a number too high  *)
(* are refused; del_ipv4_rule takes the last rule off the list for it.     *)
Delete(t, n) ==
  /\ n > 0 /\ ~IsEmpty(t)
  /\ VersionOf(t) = 6 => n <= rule_cnt[t]
  /\ LastShifted(t) + 1 \in Entry \/ n > rule_cnt[t]
  /\ rule' = [rule EXCEPT ![t] = Shifted(t, n)]
  /\ rule_cnt' = [rule_cnt EXCEPT ![t] = @ - 1]
  /\ refused' = Nothing
  /\ UNCHANGED <<i, total, added, aclVars>>

Next ==
  \E t \in Table : \/ \E r \in Rule : AddRule(t, r)
                   \/ \E n \in RuleNum : Delete(t, n)

Spec == Init /\ [][Next]_vars

-----------------------------------------------------------------------------
(* What "rule lst" shows of a table.                                       *)
Listed(t) == [k \in 1 .. rule_cnt[t] |-> rule[t][k - 1]]

(* Whatever was deleted and added in between, the list of a table shows    *)
(* only rules that were added to it, except that a UDP table may show      *)
(* blank lines and a DCERPC table rules put together from two.             *)
ListedRulesWereAdded ==
  \A t \in Table : \A k \in 1 .. rule_cnt[t] :
    \/ Listed(t)[k] \in added[t]
    \/ t \in UdpTable /\ Listed(t)[k] = Blank
    \/ t \in DcerpcTable /\ \E q, r \in added[t] :
         Listed(t)[k] = [r EXCEPT !.src = q.src]

(* A deletion takes the rule of the given number off the list and keeps    *)
(* the others in order; a number too high takes the last one (IPv4 only).  *)
(* DCERPC tables, whose deletion copies half a rule, are excepted.         *)
DeletesTakeOne ==
  [][\A t \in Table \ DcerpcTable : \A n \in RuleNum : Delete(t, n) =>
       Listed(t)' = RemoveAt(Listed(t), Min({n, rule_cnt[t]}))]_vars

(* An accepted add leaves every rule listed before in its place, although  *)
(* the add function and the deletions keep count in different variables.   *)
AddsKeepTheList ==
  [][\A t \in Table : rule_cnt'[t] > rule_cnt[t] => IsPrefix(Listed(t), Listed(t)')]_vars

(* A rule the control module put into the ACL points to a slot of its own  *)
(* that holds the result it was added with; only slot TestSlot is shared,  *)
(* with the test rule of main.                                             *)
SlotsMatchRules ==
  \A a, b \in DOMAIN ctxIpv4 :
    /\ a > 1 => aclIpv4Result[ctxIpv4[a].userdata] = ctxIpv4[a].want
    /\ ctxIpv4[a].userdata = ctxIpv4[b].userdata
         => a = b \/ (1 \in {a, b} /\ ctxIpv4[a].userdata = TestSlot)

(* A TCP rule the command line calls added is in the ACL with the result   *)
(* of its action, unless the ACL was full: the add function ignores what   *)
(* updateAcl_ipv4Tcp returns.                                              *)
StoredRulesReachAcl ==
  \A t \in AclTable : \A r \in added[t] :
    \/ \E a \in DOMAIN ctxIpv4 : /\ ctxIpv4[a].match = <<r.src, r.rest>>
                                 /\ ctxIpv4[a].want = ResultOf(r.act)
    \/ AddRefused

(* "Rule already exist": the rule refused with this answer is one of those *)
(* the tables list.                                                        *)
RefusedRulesAreListed ==
  refused # Nothing =>
    \E k \in 1 .. rule_cnt[refused.table] : Listed(refused.table)[k] = refused.rule

=============================================================================
