------------------------ MODULE ControlModuleProofs ------------------------
(***************************************************************************)
(* Theorems about the control module.  First the rule tables and the ACL   *)
(* slots behind them, RuleStore's Spec, for any tables, sizes and rules:   *)
(* no proof there uses what ControlModule says of its tables.  Then the    *)
(* command line, CMSpec: it does nothing to the rule tables that RuleStore *)
(* does not allow, so that what is proved of them holds under all its      *)
(* commands, and its show commands display what it answered.               *)
(***************************************************************************)
EXTENDS ControlModule, TLAPS

-----------------------------------------------------------------------------
(* The rule tables *)

(* Rule r with the source of rule q.                                       *)
Joined(q, r) == [r EXCEPT !.src = q.src]

(* What a place of table t that was given to a rule may hold when the      *)
(* rules of S were added to t.                                             *)
Good(t, S, c) ==
  \/ c \in S
  \/ t \in UdpTable /\ c = Blank
  \/ t \in DcerpcTable /\ \E q, r \in S : c = Joined(q, r)

(* A list is no longer than the part of the array that was ever given to   *)
(* rules; that part holds good entries, and the part behind it none.       *)
Lists ==
  \A t \in Table :
    /\ rule_cnt[t] <= i[t]
    /\ \A k \in Entry : /\ k < i[t] => Good(t, added[t], rule[t][k])
                        /\ k >= i[t] => rule[t][k] = Blank

(* Every rule of the context but the first got the slot one below its      *)
(* place, and the next rule gets the slot of the last place.               *)
Slots ==
  /\ aclIpv4_index = Len(ctxIpv4)
  /\ ctxIpv4[1].userdata = TestSlot
  /\ \A a \in 2 .. Len(ctxIpv4) :
       /\ ctxIpv4[a].userdata = a - 1
       /\ aclIpv4Result[a - 1] = ctxIpv4[a].want

StoreInv == TypeOK /\ Lists /\ Slots

CtxRule == [match : Match \cup {TestMatch}, userdata : 1 .. MaxRule, want : Result]

-----------------------------------------------------------------------------
(* The slots *)

LEMMA ResultType == \A act : ResultOf(act) \in Result
  BY DEF ResultOf, Result, Verdict

(* An update keeps the tables typed and the slots matched.                 *)
LEMMA UpdateStep ==
  ASSUME AclTypeOK, Slots,
         NEW m \in Match, NEW res \in Result, UpdateAcl(m, res)
  PROVE  AclTypeOK' /\ Slots'
<1> USE AclAssumption DEF AclTypeOK
<1> DEFINE x == [match |-> m, userdata |-> aclIpv4_index, want |-> res]
<1>1. CASE UNCHANGED aclVars
  BY <1>1 DEF aclVars, Slots
<1>2. CASE /\ aclIpv4_index <= MaxRule
           /\ aclIpv4Result' = [aclIpv4Result EXCEPT ![aclIpv4_index] = res]
           /\ AddRefused
           /\ UNCHANGED <<ctxIpv4, aclIpv4_index, tcp>>
  <2>1. AclTypeOK'
    BY <1>2
  <2>2. Slots'
    BY <1>2 DEF Slots
  <2>3. QED
    BY <2>1, <2>2
<1>3. CASE /\ aclIpv4_index <= MaxRule
           /\ aclIpv4Result' = [aclIpv4Result EXCEPT ![aclIpv4_index] = res]
           /\ ~AddRefused
           /\ AddToCtx(m, res)
           /\ aclIpv4_index' = aclIpv4_index + 1
           /\ tcp' = (tcp + 1) % 256
  <2>1. x \in CtxRule
    BY <1>3 DEF CtxRule
  <2>2. ctxIpv4 \in Seq(CtxRule) /\ ctxIpv4' = Append(ctxIpv4, x)
    BY <1>3 DEF AddToCtx, CtxRule
  <2> HIDE DEF x
  <2>3. /\ ctxIpv4' \in Seq(CtxRule)
        /\ Len(ctxIpv4') = Len(ctxIpv4) + 1
        /\ \A a \in 1 .. Len(ctxIpv4) : ctxIpv4'[a] = ctxIpv4[a]
        /\ ctxIpv4'[Len(ctxIpv4) + 1] = x
    BY <2>1, <2>2
  <2>4. AclTypeOK'
    <3>1. aclIpv4_index' \in 1 .. MaxRule + 1 /\ tcp' \in 0 .. 255
      BY <1>3
    <3>2. aclIpv4Result' \in [1 .. MaxRule -> Result]
      BY <1>3
    <3>3. Len(ctxIpv4') \in 1 .. MaxRule
      BY <1>3, <2>2, <2>3 DEF AddRefused
    <3>4. QED
      BY <2>3, <3>1, <3>2, <3>3 DEF CtxRule
  <2>5. x.userdata = aclIpv4_index /\ x.want = res
    BY DEF x
  <2>6. Slots'
    <3>1. aclIpv4_index' = Len(ctxIpv4')
      BY <1>3, <2>3 DEF Slots
    <3>2. ctxIpv4'[1].userdata = TestSlot
      BY <2>3 DEF Slots
    <3>3. ASSUME NEW a \in 2 .. Len(ctxIpv4')
          PROVE  /\ ctxIpv4'[a].userdata = a - 1
                 /\ aclIpv4Result'[a - 1] = ctxIpv4'[a].want
      <4>1. CASE a = Len(ctxIpv4) + 1
        BY <1>3, <2>3, <2>5, <4>1 DEF Slots
      <4>2. CASE a \in 2 .. Len(ctxIpv4)
        BY <1>3, <2>3, <4>2 DEF Slots
      <4>3. QED
        BY <2>3, <4>1, <4>2
    <3>4. QED
      BY <3>1, <3>2, <3>3 DEF Slots
  <2>7. QED
    BY <2>4, <2>6
<1>4. QED
  BY <1>1, <1>2, <1>3 DEF UpdateAcl

-----------------------------------------------------------------------------
(* The lists *)

LEMMA JoinedRule ==
  ASSUME NEW q \in Rule, NEW r \in Rule
  PROVE  /\ Joined(q, r) \in Rule
         /\ Joined(q, r).src = q.src
         /\ Joined(r, r) = r
         /\ \A s \in Rule : [Joined(s, r) EXCEPT !.src = q.src] = Joined(q, r)
  BY DEF Rule, Joined

LEMMA GoodGrows ==
  ASSUME NEW t, NEW S, NEW T, S \subseteq T, NEW c, Good(t, S, c)
  PROVE  Good(t, T, c)
  BY DEF Good

(* In a DCERPC table a good entry is one rule with the source of another.  *)
LEMMA DcerpcEntry ==
  ASSUME TypeOK, NEW t \in DcerpcTable, NEW c, Good(t, added[t], c)
  PROVE  c \in Rule /\ \E q, r \in added[t] : c = Joined(q, r)
<1>1. t \in Table /\ t \notin UdpTable /\ added[t] \subseteq Rule
  BY StoreAssumption DEF TypeOK
<1>2. CASE c \in added[t]
  BY <1>1, <1>2, JoinedRule
<1>3. CASE \E q, r \in added[t] : c = Joined(q, r)
  BY <1>1, <1>3, JoinedRule
<1>4. QED
  BY <1>1, <1>2, <1>3 DEF Good

(* What a deletion copies is good if what it copies from is.               *)
LEMMA CopiedIsGood ==
  ASSUME TypeOK, NEW t \in Table, NEW old, NEW k \in Nat,
         Good(t, added[t], old[k]), Good(t, added[t], old[k + 1])
  PROVE  Good(t, added[t], Copied(t, old, k))
<1>1. CASE t \notin DcerpcTable
  BY <1>1 DEF Copied
<1>2. CASE t \in DcerpcTable
  <2>1. PICK q1, r1 \in added[t] : old[k] = Joined(q1, r1)
    BY <1>2, DcerpcEntry
  <2>2. PICK q2, r2 \in added[t] : old[k + 1] = Joined(q2, r2)
    BY <1>2, DcerpcEntry
  <2>3. q1 \in Rule /\ r1 \in Rule /\ q2 \in Rule /\ r2 \in Rule
    BY <2>1, <2>2 DEF TypeOK
  <2>4. old[k].src = q1.src
    BY <2>1, <2>3, JoinedRule
  <2>5. [old[k + 1] EXCEPT !.src = q1.src] = Joined(q1, r2)
    BY <2>2, <2>3, JoinedRule
  <2>6. Copied(t, old, k) = Joined(q1, r2)
    BY <1>2, <2>4, <2>5 DEF Copied
  <2>7. QED
    BY <1>2, <2>6 DEF Good
<1>3. QED
  BY <1>1, <1>2

LEMMA GoodIsContent ==
  ASSUME TypeOK, NEW t \in Table, NEW c, Good(t, added[t], c)
  PROVE  c \in Content
  BY DcerpcEntry DEF TypeOK, Good, Content

(* The entries after a deletion.                                           *)
LEMMA ShiftedEntries ==
  ASSUME TypeOK, Lists, NEW t \in Table, NEW n \in RuleNum, Delete(t, n),
         NEW k \in Entry
  PROVE  /\ k < i[t] => Good(t, added[t], Shifted(t, n)[k])
         /\ k >= i[t] => Shifted(t, n)[k] = Blank
<1>1. /\ n \in Nat /\ n > 0 /\ Size \in Nat
      /\ i[t] \in 0 .. Size /\ rule_cnt[t] \in 0 .. Size /\ rule_cnt[t] <= i[t]
      /\ k \in 0 .. Size - 1
  BY StoreAssumption DEF TypeOK, Lists, Delete, Entry
<1>2. /\ k < i[t] => Good(t, added[t], rule[t][k])
      /\ k >= i[t] => rule[t][k] = Blank
  BY DEF Lists
<1>3. CASE k \notin n - 1 .. LastShifted(t)
  BY <1>2, <1>3 DEF Shifted
<1>4. CASE k \in n - 1 .. LastShifted(t)
  <2>1. Shifted(t, n)[k] = Copied(t, rule[t], k)
    BY <1>4 DEF Shifted
  <2>2. LastShifted(t) \in Int /\ LastShifted(t) <= rule_cnt[t] - 1
    BY <1>1 DEF LastShifted
  <2>3. k < i[t]
    BY <1>1, <1>4, <2>2
  <2>4. LastShifted(t) + 1 \in Entry \/ n > rule_cnt[t]
    BY DEF Delete
  <2>5. k + 1 \in Entry
    BY <1>1, <1>4, <2>2, <2>4 DEF Entry
  <2>6. CASE k + 1 < i[t]
    <3>1. Good(t, added[t], rule[t][k]) /\ Good(t, added[t], rule[t][k + 1])
      BY <1>2, <2>3, <2>5, <2>6 DEF Lists
    <3>2. Good(t, added[t], Copied(t, rule[t], k))
      BY <1>1, <3>1, CopiedIsGood
    <3>3. QED
      BY <1>1, <2>1, <2>3, <3>2
  <2>7. CASE k + 1 >= i[t]
    <3>1. t \in UdpTable
      BY <1>1, <1>4, <2>7 DEF LastShifted
    <3>2. rule[t][k + 1] = Blank
      BY <2>5, <2>7 DEF Lists
    <3>3. Copied(t, rule[t], k) = Blank
      BY <3>1, <3>2, StoreAssumption DEF Copied
    <3>4. QED
      BY <1>1, <2>1, <2>3, <3>1, <3>3 DEF Good
  <2>8. QED
    BY <1>1, <2>6, <2>7
<1>5. QED
  BY <1>3, <1>4

-----------------------------------------------------------------------------
(* The steps *)

LEMMA AddStep ==
  ASSUME StoreInv, NEW t \in Table, NEW r \in Rule, AddRule(t, r)
  PROVE  StoreInv'
<1> USE DEF StoreInv
<1>1. AclTypeOK' /\ Slots'
  <2>1. CASE t \in AclTable
    <3>1. <<r.src, r.rest>> \in Match
      BY StoreAssumption DEF Rule
    <3>2. QED
      BY <2>1, <3>1, ResultType, UpdateStep DEF AddRule, TypeOK
  <2>2. CASE t \notin AclTable
    BY <2>2 DEF AddRule, TypeOK, AclTypeOK, Slots, aclVars
  <2>3. QED
    BY <2>1, <2>2
<1>2. CASE /\ Stored(t, r)
           /\ refused' = [table |-> t, rule |-> r]
           /\ UNCHANGED <<rule, i, rule_cnt, total, added>>
  <2>1. TypeOK'
    BY <1>1, <1>2 DEF TypeOK, Content
  <2>2. Lists'
    BY <1>2 DEF Lists
  <2>3. QED
    BY <1>1, <2>1, <2>2
<1>3. CASE /\ rule' = [rule EXCEPT ![t][PlaceOf(t)] = r]
           /\ i' = [i EXCEPT ![t] = @ + 1]
           /\ rule_cnt' = [rule_cnt EXCEPT ![t] = i[t] + 1]
           /\ total' = [total EXCEPT ![VersionOf(t)] = @ + 1]
           /\ added' = [added EXCEPT ![t] = @ \cup {r}]
           /\ refused' = Nothing
  <2>1. i[t] \in 0 .. Size /\ i[t] < Size /\ Size \in Nat /\ i[t] \in Entry
    BY StoreAssumption DEF AddRule, TypeOK, Entry
  <2>2. VersionOf(t) \in {4, 6}
    BY DEF VersionOf
  <2>3. rule' = [rule EXCEPT ![t] = [rule[t] EXCEPT ![i[t]] = r]]
    BY <1>3 DEF PlaceOf
  <2>4. rule' \in [Table -> [Entry -> Content]]
    BY <2>1, <2>3 DEF TypeOK, Content
  <2>5. refused' \in [table : Table \cup {<<>>}, rule : Content]
    BY <1>3 DEF Nothing, Content
  <2>6. TypeOK'
    BY <1>1, <1>3, <2>1, <2>2, <2>4, <2>5 DEF TypeOK
  <2>7. Lists'
    <3>1. ASSUME NEW u \in Table, NEW c, Good(u, added[u], c)
          PROVE  Good(u, added'[u], c)
      <4>1. added[u] \subseteq added'[u]
        BY <1>3 DEF TypeOK
      <4>2. QED
        BY <3>1, <4>1, GoodGrows
    <3>2. ASSUME NEW u \in Table
          PROVE  rule_cnt'[u] <= i'[u]
      BY <1>3, <2>1 DEF Lists, TypeOK
    <3>3. ASSUME NEW u \in Table, NEW k \in Entry
          PROVE  /\ k < i'[u] => Good(u, added'[u], rule'[u][k])
                 /\ k >= i'[u] => rule'[u][k] = Blank
      <4>1. CASE u # t
        <5>1. i'[u] = i[u] /\ rule'[u][k] = rule[u][k]
          BY <1>3, <2>3, <4>1 DEF TypeOK
        <5>2. QED
          BY <3>1, <5>1 DEF Lists
      <4>2. CASE u = t /\ k = i[t]
        <5>1. i'[t] = i[t] + 1 /\ rule'[t][k] = r /\ r \in added'[t]
          BY <1>3, <2>1, <2>3, <4>2 DEF TypeOK
        <5>2. QED
          BY <2>1, <4>2, <5>1 DEF Good
      <4>3. CASE u = t /\ k # i[t]
        <5>1. i'[t] = i[t] + 1 /\ rule'[t][k] = rule[t][k] /\ k \in Int
          BY <1>3, <2>1, <2>3, <4>3 DEF TypeOK, Entry
        <5>2. k < i'[t] <=> k < i[t]
          BY <2>1, <4>3, <5>1
        <5>3. k >= i'[t] => k >= i[t]
          BY <2>1, <4>3, <5>1
        <5>4. QED
          BY <3>1, <4>3, <5>1, <5>2, <5>3 DEF Lists
      <4>4. QED
        BY <4>1, <4>2, <4>3
    <3>4. QED
      BY <3>2, <3>3 DEF Lists, Entry
  <2>8. QED
    BY <1>1, <2>6, <2>7
<1>4. QED
  BY <1>2, <1>3 DEF AddRule

LEMMA DeleteStep ==
  ASSUME StoreInv, NEW t \in Table, NEW n \in RuleNum, Delete(t, n)
  PROVE  StoreInv'
<1> USE DEF StoreInv
<1>1. /\ rule' = [rule EXCEPT ![t] = Shifted(t, n)]
      /\ rule_cnt' = [rule_cnt EXCEPT ![t] = @ - 1]
      /\ refused' = Nothing
      /\ UNCHANGED <<i, total, added, aclVars>>
      /\ rule_cnt[t] # 0
  BY DEF Delete, IsEmpty
<1>2. AclTypeOK' /\ Slots'
  BY <1>1 DEF TypeOK, AclTypeOK, Slots, aclVars
<1>3. ASSUME NEW k \in Entry
      PROVE  /\ k < i[t] => Good(t, added[t], Shifted(t, n)[k])
             /\ k >= i[t] => Shifted(t, n)[k] = Blank
  BY ShiftedEntries
<1>4. Shifted(t, n) \in [Entry -> Content]
  <2>1. ASSUME NEW k \in Entry
        PROVE  Shifted(t, n)[k] \in Content
    <3>1. CASE k < i[t]
      BY <1>3, <3>1, GoodIsContent
    <3>2. CASE k >= i[t]
      BY <1>3, <3>2 DEF Content
    <3>3. i[t] \in Int /\ k \in Int
      BY StoreAssumption DEF TypeOK, Entry
    <3>4. QED
      BY <3>1, <3>2, <3>3
  <2>2. Shifted(t, n) = [k \in Entry |-> Shifted(t, n)[k]]
    BY DEF Shifted
  <2>3. QED
    BY <2>1, <2>2
<1>5. TypeOK'
  <2>1. rule' \in [Table -> [Entry -> Content]]
    BY <1>1, <1>4 DEF TypeOK
  <2>2. rule_cnt' \in [Table -> 0 .. Size]
    <3>1. rule_cnt[t] - 1 \in 0 .. Size
      <4>1. rule_cnt[t] \in 0 .. Size /\ Size \in Nat
        BY StoreAssumption DEF TypeOK
      <4>2. QED
        BY <1>1, <4>1
    <3>2. QED
      BY <1>1, <3>1 DEF TypeOK
  <2>3. refused' \in [table : Table \cup {<<>>}, rule : Content]
    BY <1>1 DEF Nothing, Content
  <2>4. QED
    BY <1>1, <1>2, <2>1, <2>2, <2>3 DEF TypeOK
<1>6. Lists'
  <2>1. ASSUME NEW u \in Table
        PROVE  rule_cnt'[u] <= i'[u]
    BY <1>1, StoreAssumption DEF Lists, TypeOK
  <2>2. ASSUME NEW u \in Table, NEW k \in Entry
        PROVE  /\ k < i'[u] => Good(u, added'[u], rule'[u][k])
               /\ k >= i'[u] => rule'[u][k] = Blank
    <3>1. CASE u # t
      BY <1>1, <3>1 DEF Lists, TypeOK
    <3>2. CASE u = t
      <4>1. rule'[u][k] = Shifted(t, n)[k]
        BY <1>1, <3>2 DEF TypeOK
      <4>2. QED
        BY <1>1, <1>3, <3>2, <4>1
    <3>3. QED
      BY <3>1, <3>2
  <2>3. QED
    BY <2>1, <2>2 DEF Lists, Entry
<1>7. QED
  BY <1>2, <1>5, <1>6

LEMMA StoreInit == Init => StoreInv
<1> SUFFICES ASSUME Init PROVE StoreInv
  OBVIOUS
<1> DEFINE x == [match |-> TestMatch, userdata |-> TestSlot, want |-> TestResult]
<1>1. x \in CtxRule
  BY AclAssumption DEF CtxRule, TestResult, Result, Verdict
<1>2. x.userdata = TestSlot
  OBVIOUS
<1>3. ctxIpv4 = <<x>>
  BY DEF Init, AclInit
<1> HIDE DEF x
<1>4. ctxIpv4 \in Seq(CtxRule) /\ Len(ctxIpv4) = 1 /\ ctxIpv4[1] = x
  BY <1>1, <1>3
<1>5. AclTypeOK
  <2>1. Unset \in Result /\ TestResult \in Result
    BY DEF Unset, TestResult, Result, Verdict
  <2>2. QED
    BY <1>4, <2>1, AclAssumption DEF Init, AclInit, AclTypeOK, CtxRule
<1>6. Slots
  BY <1>2, <1>4 DEF Init, AclInit, Slots
<1>7. TypeOK
  BY <1>5, StoreAssumption DEF Init, TypeOK, Content, Nothing
<1>8. Lists
  BY StoreAssumption DEF Init, Lists, Entry
<1>9. QED
  BY <1>6, <1>7, <1>8 DEF StoreInv

LEMMA StoreNext == StoreInv /\ [Next]_vars => StoreInv'
<1> SUFFICES ASSUME StoreInv, [Next]_vars PROVE StoreInv'
  OBVIOUS
<1>1. ASSUME NEW t \in Table, NEW r \in Rule, AddRule(t, r)
      PROVE  StoreInv'
  BY <1>1, AddStep
<1>2. ASSUME NEW t \in Table, NEW n \in RuleNum, Delete(t, n)
      PROVE  StoreInv'
  BY <1>2, DeleteStep
<1>3. CASE UNCHANGED vars
  BY <1>3 DEF StoreInv, TypeOK, AclTypeOK, Lists, Slots, vars, storeVars, aclVars
<1>4. QED
  BY <1>1, <1>2, <1>3 DEF Next

LEMMA StoreInvHolds == Spec => []StoreInv
  BY StoreInit, StoreNext, PTL DEF Spec

-----------------------------------------------------------------------------
(* Every variable of the rule tables and the ACL keeps its type: counts    *)
(* never fall below zero and deletions leave whole rules or blanks.        *)
THEOREM StoreTypes == Spec => []TypeOK
<1>1. StoreInv => TypeOK
  BY DEF StoreInv
<1>2. QED
  BY <1>1, StoreInvHolds, PTL

(* A list shows only rules that were added to its table (UDP: or blanks,   *)
(* DCERPC: or rules put together from two), though api.c counts adds and   *)
(* deletions in different variables.                                       *)
THEOREM ListsShowAddedRules == Spec => []ListedRulesWereAdded
<1>1. StoreInv => ListedRulesWereAdded
  <2> SUFFICES ASSUME StoreInv, NEW t \in Table, NEW k \in 1 .. rule_cnt[t]
               PROVE  Good(t, added[t], Listed(t)[k])
    BY DEF ListedRulesWereAdded, Good, Joined
  <2>1. /\ rule_cnt[t] \in 0 .. Size /\ i[t] \in 0 .. Size
        /\ rule_cnt[t] <= i[t] /\ Size \in Nat
    BY StoreAssumption DEF StoreInv, TypeOK, Lists
  <2>2. k - 1 \in Entry /\ k - 1 < i[t]
    BY <2>1 DEF Entry
  <2>3. QED
    BY <2>2 DEF StoreInv, Lists, Listed
<1>2. QED
  BY <1>1, StoreInvHolds, PTL

(* An ACL rule points to a slot of its own, which holds the result it was  *)
(* added with; updateAcl_ipv4Tcp keeps index and context in step.          *)
THEOREM SlotsAreTrue == Spec => []SlotsMatchRules
<1>1. StoreInv => SlotsMatchRules
  <2> SUFFICES ASSUME StoreInv, NEW a \in DOMAIN ctxIpv4, NEW b \in DOMAIN ctxIpv4
               PROVE  /\ a > 1 => aclIpv4Result[ctxIpv4[a].userdata] = ctxIpv4[a].want
                      /\ ctxIpv4[a].userdata = ctxIpv4[b].userdata
                           => a = b \/ (1 \in {a, b} /\ ctxIpv4[a].userdata = TestSlot)
    BY DEF SlotsMatchRules
  <2>1. a \in 1 .. Len(ctxIpv4) /\ b \in 1 .. Len(ctxIpv4) /\ Len(ctxIpv4) \in Nat
    BY DEF StoreInv, TypeOK, AclTypeOK
  <2>2. QED
    BY <2>1 DEF StoreInv, Slots
<1>2. QED
  BY <1>1, StoreInvHolds, PTL

LEMMA ListType ==
  ASSUME NEW g \in [Entry -> Content], NEW n \in 0 .. Size
  PROVE  /\ [k \in 1 .. n |-> g[k - 1]] \in Seq(Content)
         /\ Len([k \in 1 .. n |-> g[k - 1]]) = n
<1>1. n \in Nat /\ \A k \in 1 .. n : k - 1 \in Entry
  BY StoreAssumption DEF Entry
<1> DEFINE s == [k \in 1 .. n |-> g[k - 1]]
<1>2. \A k \in 1 .. n : g[k - 1] \in Content
  BY <1>1
<1>3. s \in [1 .. n -> Content]
  BY <1>2
<1> HIDE DEF s
<1>4. s \in Seq(Content) /\ DOMAIN s = 1 .. n
  BY <1>1, <1>3
<1>5. Len(s) = n
  BY <1>1, <1>4
<1>6. QED
  BY <1>4, <1>5 DEF s

(* An accepted add leaves every rule listed before in its place: the add   *)
(* writes at i, which is never below the end of the list.                  *)
THEOREM AddsLeaveTheList == Spec => AddsKeepTheList
<1>1. StoreInv /\ [Next]_vars =>
        [\A t \in Table : rule_cnt'[t] > rule_cnt[t] => IsPrefix(Listed(t), Listed(t)')]_vars
  <2> SUFFICES ASSUME StoreInv, Next, NEW t \in Table, rule_cnt'[t] > rule_cnt[t]
               PROVE  IsPrefix(Listed(t), Listed(t)')
    OBVIOUS
  <2>1. StoreInv'
    BY StoreNext
  <2>2. /\ rule_cnt[t] \in 0 .. Size /\ i[t] \in 0 .. Size
        /\ rule_cnt[t] <= i[t] /\ Size \in Nat /\ rule_cnt'[t] \in 0 .. Size
    BY <2>1, StoreAssumption DEF StoreInv, TypeOK, Lists
  <2>3. ASSUME NEW u \in Table, NEW n \in RuleNum, Delete(u, n)
        PROVE  FALSE
    BY <2>2, <2>3 DEF Delete, StoreInv, TypeOK
  <2>4. PICK u \in Table : \E r \in Rule : AddRule(u, r)
    BY <2>3 DEF Next
  <2>5. PICK r \in Rule : AddRule(u, r)
    BY <2>4
  <2>6. u = t /\ rule' = [rule EXCEPT ![u] = [rule[u] EXCEPT ![i[u]] = r]]
    BY <2>2, <2>5 DEF AddRule, PlaceOf, StoreInv, TypeOK
  <2>7. ASSUME NEW k \in 1 .. rule_cnt[t]
        PROVE  rule'[t][k - 1] = rule[t][k - 1]
    BY <2>2, <2>6 DEF StoreInv, TypeOK, Entry
  <2>8. /\ Listed(t) \in Seq(Content) /\ Listed(t)' \in Seq(Content)
        /\ Len(Listed(t)) = rule_cnt[t] /\ Len(Listed(t)') = rule_cnt'[t]
    <3>1. rule[t] \in [Entry -> Content] /\ rule'[t] \in [Entry -> Content]
      BY <2>1 DEF StoreInv, TypeOK
    <3>2. QED
      BY <2>2, <3>1, ListType DEF Listed
  <2>9. \A k \in 1 .. rule_cnt[t] : Listed(t)'[k] = Listed(t)[k]
    BY <2>2, <2>7 DEF Listed
  <2>10. QED
    BY <2>2, <2>8, <2>9 DEF IsPrefix
<1>2. QED
  BY <1>1, StoreInvHolds, PTL DEF Spec, AddsKeepTheList
-----------------------------------------------------------------------------
(* The ACL behind the TCP table                                            *)

(* A rule for m with result res is in the context.                         *)
InCtx(m, res) == \E a \in DOMAIN ctxIpv4 : ctxIpv4[a].match = m /\ ctxIpv4[a].want = res

(* An update puts the rule into the context unless that is full, and takes *)
(* no other out; a full context stays full.                                *)
LEMMA UpdateReaches ==
  ASSUME AclTypeOK, Slots, NEW m, NEW res, UpdateAcl(m, res)
  PROVE  /\ InCtx(m, res)' \/ AddRefused'
         /\ \A n, want : InCtx(n, want) => InCtx(n, want)'
         /\ AddRefused => AddRefused'
<1>1. MaxRule \in Nat /\ Len(ctxIpv4) \in Nat /\ aclIpv4_index = Len(ctxIpv4)
  BY AclAssumption DEF AclTypeOK, Slots
<1>2. CASE UNCHANGED ctxIpv4 /\ Len(ctxIpv4) >= MaxRule
  BY <1>2 DEF InCtx, AddRefused
<1>3. CASE ~AddRefused /\ AddToCtx(m, res)
  <2>1. PICK x : x = [match |-> m, userdata |-> aclIpv4_index, want |-> res]
    OBVIOUS
  <2>2. x.match = m /\ x.want = res
    BY <2>1
  <2>3. ctxIpv4' = Append(ctxIpv4, x)
    BY <1>3, <2>1 DEF AddToCtx
  <2>4. PICK T : ctxIpv4 \in Seq(T)
    BY DEF AclTypeOK
  <2>5. /\ ctxIpv4 \in Seq(T \cup {x}) /\ x \in T \cup {x}
        /\ DOMAIN ctxIpv4 = 1 .. Len(ctxIpv4)
    BY <2>4
  <2>6. /\ DOMAIN ctxIpv4' = 1 .. Len(ctxIpv4) + 1
        /\ \A a \in 1 .. Len(ctxIpv4) : ctxIpv4'[a] = ctxIpv4[a]
        /\ ctxIpv4'[Len(ctxIpv4) + 1] = x
    BY <2>3, <2>5
  <2>7. InCtx(m, res)'
    <3>1. Len(ctxIpv4) + 1 \in DOMAIN ctxIpv4'
      BY <1>1, <2>6
    <3>2. QED
      BY <2>2, <2>6, <3>1 DEF InCtx
  <2>8. \A n, want : InCtx(n, want) => InCtx(n, want)'
    <3>1. \A a \in DOMAIN ctxIpv4 : a \in DOMAIN ctxIpv4' /\ ctxIpv4'[a] = ctxIpv4[a]
      BY <1>1, <2>5, <2>6
    <3>2. QED
      BY <3>1 DEF InCtx
  <2>9. QED
    BY <1>3, <2>7, <2>8
<1>4. QED
  BY <1>1, <1>2, <1>3 DEF UpdateAcl, AddRefused, aclVars

LEMMA ReachStep ==
  ASSUME StoreInv, StoredRulesReachAcl, [Next]_vars
  PROVE  StoredRulesReachAcl'
<1>1. /\ AclTypeOK /\ Slots /\ added \in [Table -> SUBSET Rule] /\ AclTable \subseteq Table
      /\ \A t \in AclTable : \A r \in added[t] :
           InCtx(<<r.src, r.rest>>, ResultOf(r.act)) \/ AddRefused
  BY StoreAssumption DEF StoreInv, TypeOK, StoredRulesReachAcl, InCtx
<1>2. CASE UNCHANGED <<added, aclVars>>
  BY <1>2 DEF StoredRulesReachAcl, AddRefused, aclVars
<1>3. ASSUME NEW u \in Table, NEW q \in Rule, AddRule(u, q)
      PROVE  StoredRulesReachAcl'
  <2>1. added' = added \/ added' = [added EXCEPT ![u] = @ \cup {q}]
    BY <1>3 DEF AddRule
  <2>2. /\ \A n, want : InCtx(n, want) => InCtx(n, want)'
        /\ AddRefused => AddRefused'
        /\ u \in AclTable => InCtx(<<q.src, q.rest>>, ResultOf(q.act))' \/ AddRefused'
    <3>1. CASE u \in AclTable
      BY <1>1, <1>3, <3>1, UpdateReaches DEF AddRule
    <3>2. CASE u \notin AclTable
      <4>1. UNCHANGED ctxIpv4
        BY <1>3, <3>2 DEF AddRule, aclVars
      <4>2. QED
        BY <3>2, <4>1 DEF InCtx, AddRefused
    <3>3. QED
      BY <3>1, <3>2
  <2> SUFFICES ASSUME NEW t \in AclTable, NEW r \in added'[t]
               PROVE  InCtx(<<r.src, r.rest>>, ResultOf(r.act))' \/ AddRefused'
    BY DEF StoredRulesReachAcl, InCtx
  <2>3. r \in added[t] \/ (t = u /\ r = q)
    BY <1>1, <2>1
  <2>4. QED
    BY <1>1, <2>2, <2>3
<1>4. ASSUME NEW u \in Table, NEW n \in RuleNum, Delete(u, n)
      PROVE  UNCHANGED <<added, aclVars>>
  BY <1>4 DEF Delete
<1>5. QED
  BY <1>2, <1>3, <1>4 DEF Next, vars, storeVars

(* Every TCP rule that was answered as added is in the ACL with the result *)
(* of its action, or the ACL is full: deletions and repeated adds never    *)
(* take one out.                                                           *)
THEOREM AclHasStoredRules == Spec => []StoredRulesReachAcl
<1>1. Init => StoredRulesReachAcl
  BY StoreAssumption DEF Init, StoredRulesReachAcl
<1>2. QED
  BY <1>1, ReachStep, StoreInvHolds, PTL DEF Spec

-----------------------------------------------------------------------------
(* What a deletion does to a list                                          *)

LEMMA LesserOf ==
  ASSUME NEW a \in Nat, NEW b \in Nat
  PROVE  Min({a, b}) = IF a <= b THEN a ELSE b
<1> DEFINE c == IF a <= b THEN a ELSE b
<1>1. c \in {a, b} /\ \A y \in {a, b} : c <= y
  OBVIOUS
<1>2. \A x \in {a, b} : (\A y \in {a, b} : x <= y) => x = c
  OBVIOUS
<1> HIDE DEF c
<1>3. Min({a, b}) = c
  BY <1>1, <1>2 DEF Min
<1>4. QED
  BY <1>3 DEF c

LEMMA ConcatFacts ==
  ASSUME NEW S, NEW a \in Seq(S), NEW b \in Seq(S)
  PROVE  /\ a \o b \in Seq(S) /\ Len(a \o b) = Len(a) + Len(b)
         /\ \A k \in 1 .. Len(a) + Len(b) :
              (a \o b)[k] = IF k <= Len(a) THEN a[k] ELSE b[k - Len(a)]
OBVIOUS

LEMMA RemoveAtFacts ==
  ASSUME NEW S, NEW s \in Seq(S), NEW n \in 1 .. Len(s)
  PROVE  /\ RemoveAt(s, n) \in Seq(S) /\ Len(RemoveAt(s, n)) = Len(s) - 1
         /\ \A k \in 1 .. Len(s) - 1 :
              RemoveAt(s, n)[k] = IF k < n THEN s[k] ELSE s[k + 1]
<1>1. PICK a, b : a = SubSeq(s, 1, n - 1) /\ b = SubSeq(s, n + 1, Len(s))
  OBVIOUS
<1>2. /\ a \in Seq(S) /\ Len(a) = n - 1 /\ \A k \in 1 .. n - 1 : a[k] = s[k]
      /\ b \in Seq(S) /\ Len(b) = Len(s) - n
      /\ \A k \in 1 .. Len(s) - n : b[k] = s[n + k]
  BY <1>1
<1>3. RemoveAt(s, n) = a \o b
  BY <1>1 DEF RemoveAt
<1>4. Len(s) \in Nat /\ n \in Nat /\ 1 <= n /\ n <= Len(s)
  OBVIOUS
<1>5. PICK c : c = a \o b
  OBVIOUS
<1>6. /\ c \in Seq(S) /\ Len(c) = (n - 1) + (Len(s) - n)
      /\ \A k \in 1 .. (n - 1) + (Len(s) - n) :
           c[k] = IF k <= n - 1 THEN a[k] ELSE b[k - (n - 1)]
  <2>1. /\ c \in Seq(S) /\ Len(c) = Len(a) + Len(b)
        /\ \A k \in 1 .. Len(a) + Len(b) :
             c[k] = IF k <= Len(a) THEN a[k] ELSE b[k - Len(a)]
    <3>1. a \in Seq(S) /\ b \in Seq(S)
      BY <1>2
    <3>2. QED
      BY <1>5, <3>1, ConcatFacts
  <2>2. Len(a) = n - 1 /\ Len(b) = Len(s) - n
    BY <1>2
  <2>3. QED
    BY <2>1, <2>2
<1>7. (n - 1) + (Len(s) - n) = Len(s) - 1
  BY <1>4
<1>8. ASSUME NEW k \in 1 .. Len(s) - 1
      PROVE  c[k] = IF k < n THEN s[k] ELSE s[k + 1]
  <2>1. CASE k < n
    <3>1. k \in 1 .. n - 1 /\ k <= n - 1
      BY <1>4, <2>1
    <3>2. QED
      BY <1>2, <1>6, <1>7, <2>1, <3>1
  <2>2. CASE ~(k < n)
    <3>1. k - (n - 1) \in 1 .. Len(s) - n /\ n + (k - (n - 1)) = k + 1 /\ ~(k <= n - 1)
      BY <1>4, <2>2
    <3>2. b[k - (n - 1)] = s[k + 1]
      BY <1>2, <3>1
    <3>3. QED
      BY <1>6, <1>7, <2>2, <3>1, <3>2
  <2>3. QED
    BY <2>1, <2>2
<1>9. QED
  BY <1>3, <1>5, <1>6, <1>7, <1>8

LEMMA SameList ==
  ASSUME NEW S, NEW s \in Seq(S), NEW t \in Seq(S), Len(s) = Len(t),
         \A k \in 1 .. Len(s) : s[k] = t[k]
  PROVE  s = t
OBVIOUS

(* A deletion takes one rule off the list, the one of the number given or  *)
(* else the last, and keeps the others in order, in every table but those  *)
(* of DCERPC.                                                              *)
THEOREM DeletionsTakeOne == Spec => DeletesTakeOne
<1>1. StoreInv /\ [Next]_vars =>
        [\A t \in Table \ DcerpcTable : \A n \in RuleNum : Delete(t, n) =>
           Listed(t)' = RemoveAt(Listed(t), Min({n, rule_cnt[t]}))]_vars
  <2> SUFFICES ASSUME StoreInv, Next, NEW t \in Table \ DcerpcTable, NEW n \in RuleNum,
                      Delete(t, n)
               PROVE  Listed(t)' = RemoveAt(Listed(t), Min({n, rule_cnt[t]}))
    OBVIOUS
  <2>1. StoreInv'
    BY StoreNext
  <2>2. /\ n \in Nat /\ n > 0 /\ rule_cnt[t] \in Nat \ {0} /\ rule_cnt[t] <= Size
        /\ Size \in Nat
        /\ rule[t] \in [Entry -> Content] /\ rule'[t] \in [Entry -> Content]
    BY <2>1, StoreAssumption DEF Delete, IsEmpty, StoreInv, TypeOK
  <2>3. rule_cnt'[t] = rule_cnt[t] - 1 /\ rule'[t] = Shifted(t, n)
    BY DEF Delete, StoreInv, TypeOK
  <2>4. PICK m : m = Min({n, rule_cnt[t]})
    OBVIOUS
  <2>5. m = IF n <= rule_cnt[t] THEN n ELSE rule_cnt[t]
    BY <2>2, <2>4, LesserOf
  <2>6. m \in 1 .. rule_cnt[t]
    BY <2>2, <2>5
  <2>7. PICK s : s = Listed(t)
    OBVIOUS
  <2>8. /\ s \in Seq(Content) /\ Len(s) = rule_cnt[t]
        /\ \A k \in 1 .. rule_cnt[t] : s[k] = rule[t][k - 1]
    <3>1. s = [k \in 1 .. rule_cnt[t] |-> rule[t][k - 1]]
      BY <2>7 DEF Listed
    <3>2. rule_cnt[t] \in 0 .. Size
      BY <2>2
    <3>3. QED
      BY <2>2, <3>1, <3>2, ListType
  <2>9. PICK z : z = Listed(t)'
    OBVIOUS
  <2>10. /\ z \in Seq(Content) /\ Len(z) = rule_cnt[t] - 1
         /\ \A k \in 1 .. rule_cnt[t] - 1 : z[k] = rule'[t][k - 1]
    <3>1. z = [k \in 1 .. rule_cnt[t] - 1 |-> rule'[t][k - 1]]
      BY <2>3, <2>9 DEF Listed
    <3>2. rule_cnt[t] - 1 \in 0 .. Size
      BY <2>2
    <3>3. QED
      BY <2>2, <3>1, <3>2, ListType
  <2>11. ASSUME NEW k \in 1 .. rule_cnt[t] - 1
         PROVE  rule'[t][k - 1] = IF k < m THEN rule[t][k - 1] ELSE rule[t][k]
    <3>1. k - 1 \in Entry /\ k - 1 + 1 = k
      BY <2>2 DEF Entry
    <3>2. LastShifted(t) \in Int /\ LastShifted(t) >= rule_cnt[t] - 2
      BY <2>2 DEF LastShifted
    <3>3. k - 1 \in n - 1 .. LastShifted(t) <=> k >= m
      BY <2>2, <2>5, <3>2
    <3>4. Shifted(t, n)[k - 1] = IF k - 1 \in n - 1 .. LastShifted(t)
                                 THEN Copied(t, rule[t], k - 1) ELSE rule[t][k - 1]
      BY <3>1 DEF Shifted
    <3>5. Copied(t, rule[t], k - 1) = rule[t][k]
      BY <3>1 DEF Copied
    <3>6. k < m <=> ~(k >= m)
      BY <2>2, <2>6
    <3>7. QED
      BY <2>3, <3>3, <3>4, <3>5, <3>6
  <2>12. /\ RemoveAt(s, m) \in Seq(Content) /\ Len(RemoveAt(s, m)) = rule_cnt[t] - 1
         /\ \A k \in 1 .. rule_cnt[t] - 1 :
              RemoveAt(s, m)[k] = IF k < m THEN s[k] ELSE s[k + 1]
    BY <2>6, <2>8, RemoveAtFacts
  <2>13. ASSUME NEW k \in 1 .. rule_cnt[t] - 1
         PROVE  z[k] = RemoveAt(s, m)[k]
    <3>1. k \in 1 .. rule_cnt[t] /\ k + 1 \in 1 .. rule_cnt[t] /\ k + 1 - 1 = k
      BY <2>2
    <3>2. s[k] = rule[t][k - 1] /\ s[k + 1] = rule[t][k]
      <4>1. s[k + 1] = rule[t][k + 1 - 1]
        BY <2>8, <3>1
      <4>2. QED
        BY <2>8, <3>1, <4>1
    <3>3. QED
      BY <2>10, <2>11, <2>12, <3>2
  <2>14. z = RemoveAt(s, m)
    BY <2>10, <2>12, <2>13, SameList
  <2>15. QED
    BY <2>4, <2>7, <2>9, <2>14
<1>2. QED
  BY <1>1, StoreInvHolds, PTL DEF Spec, DeletesTakeOne

-----------------------------------------------------------------------------
(* The commands on rules *)

LEMMA TablesOf == \A p \in Protocol, v \in {4, 6} : <<p, v>> \in Table
  BY ControlAssumption

LEMMA WorkType == ASSUME NEW w \in Work PROVE w \subseteq Table
  BY ControlAssumption

(* Every add function is an add to a table of its own.                     *)
LEMMA AddsAreAdds ==
  ASSUME NEW r \in Rule, AddIpv4(r) \/ AddIpv6(r), work \subseteq Table
  PROVE  \E t \in Table : AddRule(t, r)
<1>1. ASSUME NEW t, AddTo(t, r) PROVE \E u \in Table : AddRule(u, r)
  BY <1>1 DEF AddTo
<1>2. CASE AddIpv4(r)
  BY <1>1, <1>2 DEF AddIpv4, add_tcp_ipv4_rule, add_udp_ipv4_rule,
     add_gre_ipv4_rule, add_gtp_ipv4_rule, add_ftp_ipv4_rule, add_sctp_ipv4_rule,
     add_smtp_ipv4_rule, add_dns_ipv4_rule, add_tls_ipv4_rule, add_ssl_ipv4_rule,
     add_smb_ipv4_rule, add_dcerpc_ipv4_rule, add_http_ipv4_rule, add_icmp_ipv4_rule
<1>3. CASE AddIpv6(r)
  BY <1>1, <1>3 DEF AddIpv6, add_tcp_ipv6_rule, add_udp_ipv6_rule,
     add_gre_ipv6_rule, add_gtp_ipv6_rule, add_ftp_ipv6_rule, add_sctp_ipv6_rule,
     add_smtp_ipv6_rule, add_dns_ipv6_rule, add_tls_ipv6_rule, add_ssl_ipv6_rule,
     add_smb_ipv6_rule, add_dcerpc_ipv6_rule, add_http_ipv6_rule, add_icmp_ipv6_rule
<1>4. QED
  BY <1>2, <1>3

LEMMA RuleCommandStep ==
  ASSUME RuleCommand, work \subseteq Table
  PROVE  Next
<1>1. CASE \E r \in Rule : AddIpv4(r) \/ AddIpv6(r)
  <2>1. PICK r \in Rule : AddIpv4(r) \/ AddIpv6(r)
    BY <1>1
  <2>2. QED
    BY <2>1, AddsAreAdds DEF Next
<1>2. CASE \E p \in Protocol, n \in RuleNum : del_ipv4_rule(p, n) \/ del_ipv6_rule(p, n)
  <2>1. PICK p \in Protocol, n \in RuleNum : del_ipv4_rule(p, n) \/ del_ipv6_rule(p, n)
    BY <1>2
  <2>2. \E t \in Table : Delete(t, n)
    BY <2>1, TablesOf DEF del_ipv4_rule, del_ipv6_rule
  <2>3. QED
    BY <2>2 DEF Next
<1>3. QED
  BY <1>1, <1>2 DEF RuleCommand

-----------------------------------------------------------------------------
(* The commands on ports *)

(* A port map is what was answered; an action is, too, until a wrong entry *)
(* has been stored.                                                        *)
ConfInv ==
  /\ work \subseteq Table
  /\ pmap \in [Ingress -> PortMaps \cup {6}] /\ mapped = pmap
  /\ pact \in [Switch -> 0 .. 255] /\ told \in [Switch -> {0, 1}]
  /\ \A s \in Switch : IF s \in wrong THEN pact[s] \notin {0, 1} ELSE pact[s] = told[s]

LEMMA ConfInit == CMInit => ConfInv
<1> SUFFICES ASSUME CMInit PROVE ConfInv
  OBVIOUS
<1>1. work \subseteq Table
  BY WorkType DEF CMInit
<1>2. pmap \in [Ingress -> PortMaps \cup {6}] /\ mapped = pmap
  BY DEF CMInit
<1>3. pact \in [Switch -> {0}] /\ told = pact /\ wrong = {}
  BY DEF CMInit
<1>4. QED
  BY <1>1, <1>2, <1>3 DEF ConfInv

LEMMA ConfNext == ConfInv /\ [CMNext]_cmVars => ConfInv'
<1> SUFFICES ASSUME ConfInv, [CMNext]_cmVars PROVE ConfInv'
  OBVIOUS
<1> USE DEF ConfInv
<1>1. ASSUME NEW p \in Ingress, NEW n \in Entered, MapPort(p, n)
      PROVE  ConfInv'
  BY <1>1 DEF MapPort, Kept
<1>2. ASSUME NEW s \in Switch, NEW n \in Entered, SetAction(s, n)
      PROVE  ConfInv'
  <2>1. n % 256 \in 0 .. 255
    BY ControlAssumption
  <2> DEFINE v == n % 256
  <2>2. v \in 0 .. 255 /\ pact' = [pact EXCEPT ![s] = v]
    BY <1>2, <2>1 DEF SetAction
  <2>3. \/ v \in {0, 1} /\ told' = [told EXCEPT ![s] = v] /\ wrong' = wrong \ {s}
        \/ v \notin {0, 1} /\ wrong' = wrong \cup {s} /\ told' = told
    BY <1>2 DEF SetAction
  <2>4. UNCHANGED <<work, pmap, mapped>>
    BY <1>2 DEF SetAction, Kept
  <2> HIDE DEF v
  <2>5. QED
    BY <2>2, <2>3, <2>4
<1>3. ASSUME NEW m, SetMode(m)
      PROVE  ConfInv'
  BY <1>3 DEF SetMode, Kept
<1>4. CASE RuleCommand \/ UNCHANGED cmVars
  BY <1>4 DEF RuleCommand, cmVars, confVars
<1>5. QED
  BY <1>1, <1>2, <1>3, <1>4 DEF CMNext, ConfCommand, ModeCommand

LEMMA ConfHolds == CMSpec => []ConfInv
  BY ConfInit, ConfNext, PTL DEF CMSpec

-----------------------------------------------------------------------------
LEMMA CommandStep == ConfInv /\ [CMNext]_cmVars => [Next]_vars
<1>1. ASSUME NEW p, NEW n, MapPort(p, n) PROVE UNCHANGED vars
  BY <1>1 DEF MapPort, Kept
<1>2. ASSUME NEW s, NEW n, SetAction(s, n) PROVE UNCHANGED vars
  BY <1>2 DEF SetAction, Kept
<1>3. ASSUME NEW m, SetMode(m) PROVE UNCHANGED vars
  BY <1>3 DEF SetMode, Kept
<1>4. UNCHANGED cmVars => UNCHANGED vars
  BY DEF cmVars
<1>5. QED
  BY <1>1, <1>2, <1>3, <1>4, RuleCommandStep DEF CMNext, ConfCommand, ModeCommand, ConfInv

(* Whatever is entered at the command line, with all its functions and the *)
(* commands on ports and mode in between, the tables and the ACL change as *)
(* RuleStore says: the command line implements it.                         *)
THEOREM CommandLineImplementsStore == CMSpec => Spec
<1>1. CMInit => Init
  BY DEF CMInit
<1>2. QED
  BY <1>1, CommandStep, ConfHolds, PTL DEF CMSpec, Spec

LEMMA CMInvHolds == CMSpec => [](ConfInv /\ StoreInv)
  BY CommandLineImplementsStore, StoreInvHolds, ConfHolds, PTL

-----------------------------------------------------------------------------
(* The show commands *)

LEMMA DetailsShown ==
  ASSUME ConfInv, StoreInv, NEW t \in work
  PROVE  \/ Details(t) = List(t)
         \/ /\ t \in {<<"gtp", 4>>, <<"gtp", 6>>, <<"http", 6>>}
            /\ Range(Details(t)) \subseteq added[t] \cup {Blank}
<1>1. PICK p \in Protocol, v \in {4, 6} : t = <<p, v>>
  BY ControlAssumption DEF ConfInv
<1>2. t \in Table /\ t[1] = p /\ t[2] = v
  BY <1>1, TablesOf
<1>3. CASE t \notin {<<"gtp", 4>>, <<"gtp", 6>>, <<"http", 6>>}
  <2>1. p # "gtp" /\ (p = "http" => v = 4)
    BY <1>1, <1>3
  <2>2. CountFor(t) = t
    BY <1>1, <1>2, <2>1 DEF CountFor, HttpCount
  <2>3. QED
    BY <2>2 DEF Details, List, Listed
<1>4. CASE t \in {<<"gtp", 4>>, <<"gtp", 6>>, <<"http", 6>>}
  <2>1. CountFor(t) \in Table
    <3>1. <<"gre", v>> \in Table /\ <<"icmp", 6>> \in Table
      BY TablesOf DEF Protocol
    <3>2. CountFor(t) = IF p = "gtp" THEN <<"gre", v>> ELSE <<"icmp", 6>>
      BY <1>1, <1>2, <1>4 DEF CountFor, GtpCount, HttpCount
    <3>3. QED
      BY <3>1, <3>2
  <2>2. rule_cnt[CountFor(t)] \in 0 .. Size
    BY <2>1 DEF StoreInv, TypeOK
  <2>3. t \notin UdpTable /\ t \notin DcerpcTable
    BY <1>4, ControlAssumption
  <2>4. \A k \in 1 .. rule_cnt[CountFor(t)] : rule[t][k - 1] \in added[t] \cup {Blank}
    <3> SUFFICES ASSUME NEW k \in 1 .. rule_cnt[CountFor(t)]
                 PROVE  rule[t][k - 1] \in added[t] \cup {Blank}
      OBVIOUS
    <3>1. k - 1 \in Entry
      BY <2>2, StoreAssumption DEF Entry
    <3>2. i[t] \in Nat
      BY <1>2, StoreAssumption DEF StoreInv, TypeOK
    <3>3. QED
      BY <1>2, <2>3, <3>1, <3>2 DEF StoreInv, Lists, Good, Entry
  <2> DEFINE d == [k \in 1 .. rule_cnt[CountFor(t)] |-> rule[t][k - 1]]
  <2>5. DOMAIN d = 1 .. rule_cnt[CountFor(t)] /\ \A k \in DOMAIN d : d[k] \in added[t] \cup {Blank}
    BY <2>4
  <2>6. Details(t) = d \/ (Details(t) = <<>> /\ List(t) = <<>>)
    BY DEF Details, List
  <2> HIDE DEF d
  <2>7. Range(d) \subseteq added[t] \cup {Blank}
    BY <2>5 DEF Range
  <2>8. QED
    BY <1>4, <2>6, <2>7
<1>5. QED
  BY <1>3, <1>4

LEMMA PortsShown == ConfInv => PortsTrue /\ ActionsTrue
<1> SUFFICES ASSUME ConfInv PROVE PortsTrue /\ ActionsTrue
  OBVIOUS
<1>1. PortsTrue
  BY DEF ConfInv, PortsTrue, PortShown, PortMaps, Ingress
<1>2. ActionsTrue
  <2>1. \A s \in Switch : ActionShown(s) = Answered(s)
    BY DEF ConfInv, ActionShown, Answered
  <2>2. \A p \in 1 .. 4 : \A a \in {"fdrp", "drp", "acl", "st"} : <<p, a>> \in Switch
    BY DEF Switch
  <2>3. QED
    BY <2>1, <2>2 DEF ActionsTrue, PactLines
<1>3. QED
  BY <1>1, <1>2

LEMMA InfoShown == StoreInv => InfoTrue
<1> SUFFICES ASSUME StoreInv, NEW p \in Protocol \ {"ssl", "smb"}
             PROVE  Info(p) = Len(Listed(<<p, 4>>)) + Len(Listed(<<p, 6>>))
  BY DEF InfoTrue
<1>1. ASSUME NEW t \in Table PROVE Len(Listed(t)) = rule_cnt[t]
  <2>1. rule[t] \in [Entry -> Content] /\ rule_cnt[t] \in 0 .. Size
    BY DEF StoreInv, TypeOK
  <2>2. QED
    BY <2>1, ListType DEF Listed
<1>2. QED
  BY <1>1, TablesOf DEF Info, InfoIpv6

(* For any arrays and entries: the show commands display the rules, port   *)
(* maps and actions as they were answered, with the exceptions for GTP,    *)
(* HTTP over IPv6, the last port, wrong entries and the name of the ACL.   *)
THEOREM ShowCommandsAreTrue == CMSpec => []ShownAsAnswered
<1>1. ConfInv /\ StoreInv => ShownAsAnswered
  BY DetailsShown, PortsShown, InfoShown DEF ShownAsAnswered, DetailsTrue
<1>2. QED
  BY <1>1, CMInvHolds, PTL

=============================================================================
