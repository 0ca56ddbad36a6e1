---------------------------- MODULE ControlModule ----------------------------
(***************************************************************************)
(* The whole command line of the control module (CM/action.c, CM/api.c):   *)
(* the commands on the rule tables, each protocol's function by its own    *)
(* name, the configuration of ports and mode, and what the show commands   *)
(* make of it all.  A table is a protocol and an IP version.  The commands *)
(* know no smb2 to add; there is then nothing to delete or list of it.     *)
(*                                                                         *)
(* The data plane decides by pmap and pact of its own, which no command    *)
(* writes (dpcommon.c:10-12): the configuration here is only ever shown.   *)
(* The mode is longer than opmode[4]; what strcpy writes behind it are     *)
(* variables nobody reads.                                                 *)
(***************************************************************************)
EXTENDS RuleStore

CONSTANTS
  Work,       (* sets of tables a user works on; none: ports and mode         *)
  Entered,    (* numbers a user may enter for a port or an action             *)
  MaxConf     (* bound of the model: commands on ports and mode               *)

Protocol == {"tcp", "udp", "smtp", "sctp", "smb", "tls", "ssl", "gre", "gtp",
             "ftp", "dns", "http", "icmp", "dcerpc"}

ASSUME ControlAssumption ==
  /\ Table = Protocol \X {4, 6}
  /\ Ipv4Table = Protocol \X {4} /\ AclTable = {<<"tcp", 4>>}
  /\ UdpTable = {"udp"} \X {4, 6} /\ DcerpcTable = {"dcerpc"} \X {4, 6}
  /\ Work \subseteq SUBSET Table
  /\ Entered \subseteq Nat /\ MaxConf \in Nat

VARIABLES
  work,      (* the tables this user works on                                 *)
  pmap,      (* pmap_p0 to pmap_p3: where a port's frames are to go           *)
  pact,      (* fdrp_p1 to st_p4: per port its actions, as uint8_t            *)
  opmode,    (* "", "bypass" or "intercept"                                   *)
  mapped,    (* not in the code: the port maps the user was told              *)
  told,      (* not in the code: the actions the user was told, 0 or 1        *)
  wrong,     (* not in the code: actions whose last entry was a wrong one     *)
  confs      (* not in the code: commands on ports and mode so far            *)

confVars == <<pmap, pact, opmode, mapped, told, wrong, confs>>
cmVars   == <<vars, work, confVars>>

Ingress  == 0 .. 3
Switch   == (1 .. 4) \X {"fdrp", "drp", "acl", "st"}
PortMaps == (0 .. 3) \cup {255}

CMInit ==
  /\ Init
  /\ work \in Work
  /\ pmap = [p \in Ingress |-> 6] /\ pact = [s \in Switch |-> 0] /\ opmode = ""
  /\ mapped = pmap /\ told = pact /\ wrong = {} /\ confs = 0

-----------------------------------------------------------------------------
(* rule add: the function of each protocol and version, with a table and a *)
(* static i of its own.                                                    *)

AddTo(t, r) == t \in work /\ AddRule(t, r)

add_tcp_ipv4_rule(r)    == AddTo(<<"tcp", 4>>, r)
add_udp_ipv4_rule(r)    == AddTo(<<"udp", 4>>, r)
add_gre_ipv4_rule(r)    == AddTo(<<"gre", 4>>, r)
add_gtp_ipv4_rule(r)    == AddTo(<<"gtp", 4>>, r)
add_ftp_ipv4_rule(r)    == AddTo(<<"ftp", 4>>, r)
add_sctp_ipv4_rule(r)   == AddTo(<<"sctp", 4>>, r)
add_smtp_ipv4_rule(r)   == AddTo(<<"smtp", 4>>, r)
add_dns_ipv4_rule(r)    == AddTo(<<"dns", 4>>, r)
add_tls_ipv4_rule(r)    == AddTo(<<"tls", 4>>, r)
add_ssl_ipv4_rule(r)    == AddTo(<<"ssl", 4>>, r)
add_smb_ipv4_rule(r)    == AddTo(<<"smb", 4>>, r)
add_dcerpc_ipv4_rule(r) == AddTo(<<"dcerpc", 4>>, r)
add_http_ipv4_rule(r)   == AddTo(<<"http", 4>>, r)
add_icmp_ipv4_rule(r)   == AddTo(<<"icmp", 4>>, r)

add_tcp_ipv6_rule(r)    == AddTo(<<"tcp", 6>>, r)
add_udp_ipv6_rule(r)    == AddTo(<<"udp", 6>>, r)
add_icmp_ipv6_rule(r)   == AddTo(<<"icmp", 6>>, r)
add_http_ipv6_rule(r)   == AddTo(<<"http", 6>>, r)
add_ftp_ipv6_rule(r)    == AddTo(<<"ftp", 6>>, r)
add_sctp_ipv6_rule(r)   == AddTo(<<"sctp", 6>>, r)
add_smtp_ipv6_rule(r)   == AddTo(<<"smtp", 6>>, r)
add_dns_ipv6_rule(r)    == AddTo(<<"dns", 6>>, r)
add_gre_ipv6_rule(r)    == AddTo(<<"gre", 6>>, r)
add_gtp_ipv6_rule(r)    == AddTo(<<"gtp", 6>>, r)
add_smb_ipv6_rule(r)    == AddTo(<<"smb", 6>>, r)
add_dcerpc_ipv6_rule(r) == AddTo(<<"dcerpc", 6>>, r)
add_ssl_ipv6_rule(r)    == AddTo(<<"ssl", 6>>, r)
add_tls_ipv6_rule(r)    == AddTo(<<"tls", 6>>, r)

AddIpv4(r) ==
  \/ add_tcp_ipv4_rule(r)  \/ add_udp_ipv4_rule(r)  \/ add_smtp_ipv4_rule(r)
  \/ add_sctp_ipv4_rule(r) \/ add_smb_ipv4_rule(r)  \/ add_tls_ipv4_rule(r)
  \/ add_ssl_ipv4_rule(r)  \/ add_gre_ipv4_rule(r)  \/ add_gtp_ipv4_rule(r)
  \/ add_ftp_ipv4_rule(r)  \/ add_dns_ipv4_rule(r)  \/ add_http_ipv4_rule(r)
  \/ add_icmp_ipv4_rule(r) \/ add_dcerpc_ipv4_rule(r)

AddIpv6(r) ==
  \/ add_tcp_ipv6_rule(r)  \/ add_udp_ipv6_rule(r)  \/ add_smtp_ipv6_rule(r)
  \/ add_sctp_ipv6_rule(r) \/ add_smb_ipv6_rule(r)  \/ add_tls_ipv6_rule(r)
  \/ add_ssl_ipv6_rule(r)  \/ add_gre_ipv6_rule(r)  \/ add_gtp_ipv6_rule(r)
  \/ add_ftp_ipv6_rule(r)  \/ add_dns_ipv6_rule(r)  \/ add_http_ipv6_rule(r)
  \/ add_icmp_ipv6_rule(r) \/ add_dcerpc_ipv6_rule(r)

del_ipv4_rule(p, n) == <<p, 4>> \in work /\ Delete(<<p, 4>>, n)
del_ipv6_rule(p, n) == <<p, 6>> \in work /\ Delete(<<p, 6>>, n)

RuleCommand ==
  /\ \/ \E r \in Rule : AddIpv4(r) \/ AddIpv6(r)
     \/ \E p \in Protocol, n \in RuleNum : del_ipv4_rule(p, n) \/ del_ipv6_rule(p, n)
  /\ UNCHANGED <<work, confVars>>

-----------------------------------------------------------------------------
(* The commands on ports and mode touch nothing the rules touch: a user of *)
(* one kind is looked at without the other.                                *)

Confs == work = {} /\ confs < MaxConf /\ confs' = confs + 1
Kept  == UNCHANGED <<vars, work>>

(* "port": a wrong entry is refused.                                       *)
MapPort(p, n) ==
  /\ Confs /\ Kept
  /\ n \in PortMaps
  /\ pmap' = [pmap EXCEPT ![p] = n]
  /\ mapped' = [mapped EXCEPT ![p] = n]
  /\ UNCHANGED <<pact, opmode, told, wrong>>

(* "fdrp", "drp", "acl", "st": the entry is cut to eight bits and stored,  *)
(* also when the answer is "Wrong Entry".                                  *)
SetAction(s, n) ==
  /\ Confs /\ Kept
  /\ pact' = [pact EXCEPT ![s] = n % 256]
  /\ \/ /\ n % 256 \in {0, 1}
        /\ told' = [told EXCEPT ![s] = n % 256]
        /\ wrong' = wrong \ {s}
     \/ /\ n % 256 \notin {0, 1}
        /\ wrong' = wrong \cup {s}
        /\ UNCHANGED told
  /\ UNCHANGED <<pmap, opmode, mapped>>

SetMode(m) ==
  /\ Confs /\ Kept
  /\ opmode' = m
  /\ UNCHANGED <<pmap, pact, mapped, told, wrong>>

ConfCommand == \E n \in Entered : (\E p \in Ingress : MapPort(p, n))
                                  \/ (\E s \in Switch : SetAction(s, n))
ModeCommand == \E m \in {"bypass", "intercept"} : SetMode(m)

CMNext == RuleCommand \/ ConfCommand \/ ModeCommand
CMSpec == CMInit /\ [][CMNext]_cmVars

-----------------------------------------------------------------------------
(* The show commands *)

(* "show port": the test for the last port is not that of the others.      *)
PortShown(p) ==
  IF pmap[p] = 255 \/ (p < 3 /\ pmap[p] \in 0 .. 3) \/ (p = 3 /\ pmap[p] = 1)
  THEN pmap[p] ELSE 6                                        \* "Not Mapped"

(* "show pact": the lines of a port from top to bottom, each with the name *)
(* it gives its action; whatever is not 1 is disabled.  The line of the    *)
(* ACL says "Fragment drop".                                               *)
ActionShown(s) == IF pact[s] = 1 THEN 1 ELSE 0

Line(name, on) == [name |-> name, on |-> on]

PactLines(p) ==
  <<Line("fdrp", ActionShown(<<p, "fdrp">>)), Line("drp", ActionShown(<<p, "drp">>)),
    Line("fdrp", ActionShown(<<p, "acl">>)), Line("st", ActionShown(<<p, "st">>))>>

(* The table whose count "show rule details" goes by.                      *)
GtpCount(v)      == <<"gre", v>>
HttpCountIcmp(v) == <<"icmp", v>>   (* mutant: the slip of IPv6 for IPv4 too *)
HttpCount(v)     == <<IF v = 4 THEN "http" ELSE "icmp", v>>
CountFor(t)  == CASE t[1] = "gtp"  -> GtpCount(t[2])
                  [] t[1] = "http" -> HttpCount(t[2])
                  [] OTHER -> t

(* Nothing at all is shown of a protocol without rules.                    *)
NoRules(p) == rule_cnt[<<p, 4>>] + rule_cnt[<<p, 6>>] = 0
Details(t) == IF NoRules(t[1]) THEN <<>>
              ELSE [k \in 1 .. rule_cnt[CountFor(t)] |-> rule[t][k - 1]]

List(t)    == IF NoRules(t[1]) THEN <<>> ELSE Listed(t)      \* "rule lst"

(* "show rule info" adds up the counts of a protocol's two tables.         *)
InfoIpv6(p) == CASE p = "ssl" -> "icmp" [] p = "smb" -> "dns" [] OTHER -> p
Info(p)     == rule_cnt[<<p, 4>>] + rule_cnt[<<InfoIpv6(p), 6>>]

-----------------------------------------------------------------------------
(* What the show commands display is what the user was told: the details   *)
(* are the list, but for GTP and HTTP over IPv6, which go by the count of  *)
(* another table and may show deleted rules or blank lines, never a rule   *)
(* that was not added; the port map is the last one accepted, but for the  *)
(* last port, of which 1 and 255 alone are shown; the lines of a port show *)
(* its actions as last answered, until a wrong entry, which is stored and  *)
(* shows its action as disabled - but the ACL's line has another name.     *)
DetailsTrue ==
  \A t \in work :
    \/ Details(t) = List(t)
    \/ /\ t \in {<<"gtp", 4>>, <<"gtp", 6>>, <<"http", 6>>}
       /\ Range(Details(t)) \subseteq added[t] \cup {Blank}
PortsTrue ==
  \A p \in Ingress : PortShown(p) = IF p = 3 /\ mapped[p] \notin {1, 255} THEN 6 ELSE mapped[p]
Answered(s) == IF s \in wrong THEN 0 ELSE told[s]
ActionsTrue ==
  \A p \in 1 .. 4 :
    PactLines(p) = <<Line("fdrp", Answered(<<p, "fdrp">>)), Line("drp", Answered(<<p, "drp">>)),
                     Line("fdrp", Answered(<<p, "acl">>)), Line("st", Answered(<<p, "st">>))>>
InfoTrue ==
  \A p \in Protocol \ {"ssl", "smb"} : Info(p) = Len(Listed(<<p, 4>>)) + Len(Listed(<<p, 6>>))
ShownAsAnswered == DetailsTrue /\ InfoTrue /\ PortsTrue /\ ActionsTrue

=============================================================================
