----------------------------- MODULE FrameDecode -----------------------------
(***************************************************************************)
(* frameDecode and the parsers it dispatches to by function tables         *)
(* (l2parser.c, l3parser.c, l4parser.c, dpcommon.c): what a frame does to  *)
(* the metadata of its port.  The flags of a port are set and never        *)
(* cleared, and an IPv6 frame is dispatched by the protocol of the last    *)
(* IPv4 frame of any port.                                                 *)
(*                                                                         *)
(* The tables have one entry less than their index has values (0xFF,       *)
(* 0xFFFF); frames that would be dispatched by the missing entry are not   *)
(* among the inputs.  Offsets and lengths are left out.                    *)
(***************************************************************************)
EXTENDS Naturals

CONSTANT Port

VARIABLES
  dp_metadata,   (* per port: flags, the protocol parsed last, counters       *)
  l4_proto       (* the protocol of the last IPv4 frame, of whatever port     *)

decodeVars == <<dp_metadata, l4_proto>>

-----------------------------------------------------------------------------
Ether == {"ipv4", "ipv6", "arp", "vlan", "other"}
L4    == {"tcp", "udp", "icmp", "other"}
Frame == [ether : Ether, proto : L4, frag : BOOLEAN]

Flag  == {"vlan", "ipv4", "ipv6", "arp", "tcp", "udp", "icmp"}
Proto == {"ETH", "IPv4", "IPv6", "ARP", "TCP", "UDP", "DEFAULT"}

(* The members of dp_stats that some parser bumps, by the value of         *)
(* prev_proto that leads to them; "ICMP" and "VLAN" are bumped directly.   *)
Counter  == {"ETH", "IPv4", "IPv6", "ARP", "TCP", "UDP", "ICMP", "VLAN"}
Metadata == [set : SUBSET Flag, prev_proto : Proto, cnt : [Counter -> Nat]]

DecodeTypeOK ==
  /\ dp_metadata \in [Port -> Metadata]
  /\ l4_proto \in L4

DecodeInit ==
  /\ dp_metadata = [p \in Port |-> [set |-> {}, prev_proto |-> "ETH",
                                    cnt |-> [c \in Counter |-> 0]]]
  /\ l4_proto = "other"

(* initcounterFunctions: the counter a protocol is counted in, if any.     *)
Bump(md, c) == [md EXCEPT !.cnt[c] = @ + 1]

(* The entry of every table for which no parser is registered.             *)
ParseDummy(md) ==
  [(IF md.prev_proto = "DEFAULT" THEN md ELSE Bump(md, md.prev_proto))
     EXCEPT !.prev_proto = "DEFAULT"]

Parsed(md, flag, proto) ==
  [set |-> md.set \cup {flag}, prev_proto |-> proto, cnt |-> md.cnt]

(* dp_l3parser[proto], and dp_l4parser behind TCP and UDP, which has no    *)
(* parsers registered (initl4Functions is commented out).                  *)
ParseL4(md, proto) ==
  CASE proto = "tcp"   -> ParseDummy(Parsed(md, "tcp", "TCP"))
    [] proto = "udp"   -> ParseDummy(Parsed(md, "udp", "UDP"))
    [] proto = "icmp"  -> Bump([md EXCEPT !.set = @ \cup {"icmp"}], "ICMP")
    [] proto = "other" -> ParseDummy(md)

(* frag: the offset field is 0x20 or 0x60, the first of several fragments. *)
(* It is not parsed, but its protocol is remembered; the fragments after   *)
(* it are parsed like any other frame.                                     *)
ParseEvenFragments(md, f) ==   (* mutant: fragments are parsed *)
  ParseL4(Parsed(md, "ipv4", "IPv4"), f.proto)
ParseIpv4(md, f) ==
  IF f.frag THEN md ELSE ParseL4(Parsed(md, "ipv4", "IPv4"), f.proto)

ParseIpv6(md) == Parsed(ParseL4(md, l4_proto), "ipv6", "IPv6")

ParseVlanOn(md) ==   (* mutant: what follows the tag is dispatched, too *)
  ParseDummy(Bump([md EXCEPT !.set = @ \cup {"vlan"}], "VLAN"))
ParseVlan(md) == Bump([md EXCEPT !.set = @ \cup {"vlan"}], "VLAN")

ParseArp(md) == Parsed(md, "arp", "ARP")

(* dp_parse_eth: dp_l2parser[ethertype].                                   *)
ParseEth(md, f) ==
  CASE f.ether = "ipv4"  -> ParseIpv4(md, f)
    [] f.ether = "ipv6"  -> ParseIpv6(md)
    [] f.ether = "arp"   -> ParseArp(md)
    [] f.ether = "vlan"  -> ParseVlan(md)
    [] f.ether = "other" -> ParseDummy(md)

Decoded(p, f) == ParseEth([dp_metadata[p] EXCEPT !.prev_proto = "ETH"], f)

FrameDecode(p, f) ==
  /\ dp_metadata' = [dp_metadata EXCEPT ![p] = Decoded(p, f)]
  /\ l4_proto' = IF f.ether = "ipv4" THEN f.proto ELSE l4_proto

=============================================================================
