--------------------------- MODULE FramePathProofs ---------------------------
(***************************************************************************)
(* Theorems about the data plane's frame path, for any ports, frames,      *)
(* bursts, pools and rings: every safety property its run checks.          *)
(***************************************************************************)
EXTENDS FramePath, FiniteSetTheorems, TLAPS

-----------------------------------------------------------------------------
(* What the parsers make of a port's metadata *)

Total(md) == md.cnt["ETH"] + md.cnt["IPv4"] + md.cnt["IPv6"] + md.cnt["ARP"]
             + md.cnt["TCP"] + md.cnt["UDP"] + md.cnt["ICMP"] + md.cnt["VLAN"]

LEMMA BumpFacts ==
  ASSUME NEW md \in Metadata, NEW c \in Counter
  PROVE  /\ Bump(md, c) \in Metadata
         /\ Bump(md, c).set = md.set /\ Bump(md, c).prev_proto = md.prev_proto
         /\ Total(Bump(md, c)) = Total(md) + 1
<1>1. md.cnt \in [Counter -> Nat] /\ md.set \in SUBSET Flag /\ md.prev_proto \in Proto
  BY DEF Metadata
<1> DEFINE b == Bump(md, c)
<1>2. /\ b = [set |-> md.set, prev_proto |-> md.prev_proto,
              cnt |-> [md.cnt EXCEPT ![c] = @ + 1]]
  BY DEF Bump, Metadata
<1>3. b.cnt = [md.cnt EXCEPT ![c] = @ + 1] /\ b.set = md.set /\ b.prev_proto = md.prev_proto
  BY <1>2
<1>4. b \in Metadata
  <2>1. [md.cnt EXCEPT ![c] = @ + 1] \in [Counter -> Nat]
    BY <1>1
  <2>2. QED
    BY <1>1, <1>2, <2>1 DEF Metadata
<1>5. Total(b) = Total(md) + 1
  <2> HIDE DEF b
  <2>1. \A k \in Counter : md.cnt[k] \in Nat /\ b.cnt[k] = md.cnt[k] + (IF k = c THEN 1 ELSE 0)
    BY <1>1, <1>3
  <2>2. QED
    BY <2>1 DEF Total, Counter
<1>6. QED
  BY <1>3, <1>4, <1>5

LEMMA ParsedFacts ==
  ASSUME NEW md \in Metadata, NEW flag \in Flag, NEW proto \in Proto
  PROVE  /\ Parsed(md, flag, proto) \in Metadata
         /\ Parsed(md, flag, proto).set = md.set \cup {flag}
         /\ Parsed(md, flag, proto).prev_proto = proto
         /\ Total(Parsed(md, flag, proto)) = Total(md)
  BY DEF Parsed, Metadata, Total

LEMMA DummyFacts ==
  ASSUME NEW md \in Metadata, md.prev_proto # "DEFAULT"
  PROVE  /\ ParseDummy(md) \in Metadata
         /\ ParseDummy(md).set = md.set
         /\ Total(ParseDummy(md)) = Total(md) + 1
<1>1. md.prev_proto \in Counter
  BY DEF Metadata, Proto, Counter
<1> DEFINE b == Bump(md, md.prev_proto)
<1>2. b \in Metadata /\ b.set = md.set /\ Total(b) = Total(md) + 1
  BY <1>1, BumpFacts
<1>3. ParseDummy(md) = [b EXCEPT !.prev_proto = "DEFAULT"]
  BY DEF ParseDummy
<1> HIDE DEF b
<1>4. ParseDummy(md) = [set |-> b.set, prev_proto |-> "DEFAULT", cnt |-> b.cnt]
  BY <1>2, <1>3 DEF Metadata
<1>5. QED
  BY <1>2, <1>4 DEF Metadata, Proto, Total

(* The parsers of the third layer count once, whatever protocol they are   *)
(* chosen by.                                                              *)
LEMMA ParseL4Facts ==
  ASSUME NEW md \in Metadata, md.prev_proto # "DEFAULT", NEW proto \in L4
  PROVE  /\ ParseL4(md, proto) \in Metadata
         /\ "ipv4" \in ParseL4(md, proto).set => "ipv4" \in md.set
         /\ Total(ParseL4(md, proto)) = Total(md) + 1
<1>1. CASE proto = "tcp"
  <2>1. ParseL4(md, proto) = ParseDummy(Parsed(md, "tcp", "TCP"))
    BY <1>1 DEF ParseL4
  <2>2. "tcp" \in Flag /\ "TCP" \in Proto
    BY DEF Flag, Proto
  <2>3. QED
    BY <2>1, <2>2, ParsedFacts, DummyFacts
<1>2. CASE proto = "udp"
  <2>1. ParseL4(md, proto) = ParseDummy(Parsed(md, "udp", "UDP"))
    BY <1>2 DEF ParseL4
  <2>2. "udp" \in Flag /\ "UDP" \in Proto
    BY DEF Flag, Proto
  <2>3. QED
    BY <2>1, <2>2, ParsedFacts, DummyFacts
<1>3. CASE proto = "icmp"
  <2> DEFINE m == Parsed(md, "icmp", md.prev_proto)
  <2>1. m = [md EXCEPT !.set = @ \cup {"icmp"}]
    BY DEF Parsed, Metadata
  <2>2. ParseL4(md, proto) = Bump(m, "ICMP")
    BY <1>3, <2>1 DEF ParseL4
  <2>3. m \in Metadata /\ m.set = md.set \cup {"icmp"} /\ Total(m) = Total(md)
    BY ParsedFacts DEF Metadata, Flag
  <2>4. "ICMP" \in Counter
    BY DEF Counter
  <2> HIDE DEF m
  <2>5. QED
    BY <2>2, <2>3, <2>4, BumpFacts
<1>4. CASE proto = "other"
  BY <1>4, DummyFacts DEF ParseL4
<1>5. QED
  BY <1>1, <1>2, <1>3, <1>4 DEF L4

Uncounted(f) == f.ether = "arp" \/ IsFragment(f)

(* Every frame is counted once, ARP and fragments not at all; only IPv4    *)
(* frames that are no fragments set the IPv4 flag.                         *)
LEMMA ParseEthFacts ==
  ASSUME NEW md \in Metadata, md.prev_proto = "ETH", NEW f \in Frame, l4_proto \in L4
  PROVE  /\ ParseEth(md, f) \in Metadata
         /\ "ipv4" \in ParseEth(md, f).set => "ipv4" \in md.set \/ IsPlainIpv4(f)
         /\ Total(ParseEth(md, f)) = Total(md) + (IF Uncounted(f) THEN 0 ELSE 1)
<1>0. Total(md) \in Nat
  <2>1. \A c \in Counter : md.cnt[c] \in Nat
    BY DEF Metadata
  <2>2. QED
    BY <2>1 DEF Counter, Total
<1>1. CASE f.ether = "ipv4"
  <2>1. CASE f.frag
    BY <1>0, <1>1, <2>1 DEF ParseEth, ParseIpv4, Uncounted, IsFragment
  <2>2. CASE ~f.frag
    <3> DEFINE m == Parsed(md, "ipv4", "IPv4")
    <3>1. m \in Metadata /\ m.prev_proto = "IPv4" /\ Total(m) = Total(md)
      BY ParsedFacts DEF Flag, Proto
    <3>2. ParseEth(md, f) = ParseL4(m, f.proto) /\ f.proto \in L4
      BY <1>1, <2>2 DEF ParseEth, ParseIpv4, Frame
    <3> HIDE DEF m
    <3>3. QED
      BY <1>1, <2>2, <3>1, <3>2, ParseL4Facts DEF Uncounted, IsFragment, IsPlainIpv4
  <2>3. QED
    BY <2>1, <2>2
<1>2. CASE f.ether = "ipv6"
  <2> DEFINE m == ParseL4(md, l4_proto)
  <2>1. /\ m \in Metadata /\ Total(m) = Total(md) + 1
        /\ "ipv4" \in m.set => "ipv4" \in md.set
    BY ParseL4Facts
  <2>2. ParseEth(md, f) = Parsed(m, "ipv6", "IPv6")
    BY <1>2 DEF ParseEth, ParseIpv6
  <2>3. ~Uncounted(f)
    BY <1>2 DEF Uncounted, IsFragment
  <2>4. "ipv6" \in Flag /\ "IPv6" \in Proto
    BY DEF Flag, Proto
  <2> HIDE DEF m
  <2> DEFINE l == Parsed(m, "ipv6", "IPv6")
  <2>5. l \in Metadata /\ l.set = m.set \cup {"ipv6"} /\ Total(l) = Total(m)
    BY <2>1, <2>4, ParsedFacts
  <2> HIDE DEF l
  <2>6. QED
    BY <2>1, <2>2, <2>3, <2>5 DEF l
<1>3. CASE f.ether = "arp"
  <2>1. ParseEth(md, f) = Parsed(md, "arp", "ARP") /\ Uncounted(f)
    BY <1>3 DEF ParseEth, ParseArp, Uncounted
  <2>2. "arp" \in Flag /\ "ARP" \in Proto
    BY DEF Flag, Proto
  <2> DEFINE m == Parsed(md, "arp", "ARP")
  <2>3. m \in Metadata /\ m.set = md.set \cup {"arp"} /\ Total(m) = Total(md)
    BY <2>2, ParsedFacts
  <2> HIDE DEF m
  <2>4. QED
    BY <1>0, <2>1, <2>3 DEF m
<1>4. CASE f.ether = "vlan"
  <2> DEFINE m == Parsed(md, "vlan", md.prev_proto)
  <2>1. m = [md EXCEPT !.set = @ \cup {"vlan"}]
    BY DEF Parsed, Metadata
  <2>2. ParseEth(md, f) = Bump(m, "VLAN") /\ ~Uncounted(f)
    BY <1>4, <2>1 DEF ParseEth, ParseVlan, Uncounted, IsFragment
  <2>3. m \in Metadata /\ m.set = md.set \cup {"vlan"} /\ Total(m) = Total(md)
    BY ParsedFacts DEF Metadata, Flag
  <2>4. "VLAN" \in Counter
    BY DEF Counter
  <2> HIDE DEF m
  <2>5. QED
    BY <2>2, <2>3, <2>4, BumpFacts
<1>5. CASE f.ether = "other"
  <2>1. ParseEth(md, f) = ParseDummy(md) /\ ~Uncounted(f)
    BY <1>5 DEF ParseEth, Uncounted, IsFragment
  <2>2. QED
    BY <2>1, DummyFacts
<1>6. QED
  BY <1>1, <1>2, <1>3, <1>4, <1>5 DEF Frame, Ether

(* frameDecode clears prev_proto first and nothing else.                   *)
LEMMA DecodedFacts ==
  ASSUME DecodeTypeOK, NEW p \in Port, NEW f \in Frame
  PROVE  /\ Decoded(p, f) \in Metadata
         /\ "ipv4" \in Decoded(p, f).set => "ipv4" \in dp_metadata[p].set \/ IsPlainIpv4(f)
         /\ Total(Decoded(p, f)) = Total(dp_metadata[p]) + (IF Uncounted(f) THEN 0 ELSE 1)
<1> DEFINE d == dp_metadata[p]
           m == [d EXCEPT !.prev_proto = "ETH"]
<1>1. d \in Metadata /\ l4_proto \in L4
  BY DEF DecodeTypeOK
<1>2. m = [set |-> d.set, prev_proto |-> "ETH", cnt |-> d.cnt]
  BY <1>1 DEF Metadata
<1>3. m \in Metadata /\ m.prev_proto = "ETH" /\ m.set = d.set /\ Total(m) = Total(d)
  BY <1>1, <1>2 DEF Metadata, Proto, Total
<1>4. Decoded(p, f) = ParseEth(m, f)
  BY DEF Decoded
<1> HIDE DEF d, m
<1>5. QED
  BY <1>1, <1>3, <1>4, ParseEthFacts DEF d

-----------------------------------------------------------------------------
(* Types and pools: that a pool is not overfilled follows from what its    *)
(* mbufs and objects are accounted to.                                     *)

LEMMA ZeroPort == 0 \in Port
<1>1. Cardinality(Port) \in Nat
  BY PathAssumption, FS_CardinalityType
<1>2. PICK p \in Port : TRUE
  BY PathAssumption
<1>3. QED
  BY <1>1, <1>2, PathAssumption

LEMMA FrameDoneFacts ==
  ASSUME TypeOK, burst # <<>>, FrameDone
  PROVE  /\ burst' \in Seq(FrameIn) /\ Len(burst') = Len(burst) - 1
         /\ Len(burst') <= MaxBurst /\ Len(burst) >= 1
         /\ pc' \in {"frame", "poll"} /\ (pc' = "poll" <=> burst' = <<>>)
         /\ i' \in Port
<1>1. burst \in Seq(FrameIn) /\ Len(burst) <= MaxBurst /\ i \in Port
  BY DEF TypeOK
<1>2. Tail(burst) \in Seq(FrameIn) /\ Len(Tail(burst)) = Len(burst) - 1 /\ Len(burst) \in Nat \ {0}
  BY <1>1
<1>3. burst' = Tail(burst)
  BY DEF FrameDone
<1>4. NextPort \in Port
  BY ZeroPort DEF NextPort
<1>5. MaxBurst \in Nat
  BY PathAssumption
<1>6. QED
  BY <1>1, <1>2, <1>3, <1>4, <1>5 DEF FrameDone

LEMMA CountingType ==
  ASSUME rxfpCount \in [Stat -> Nat], NEW S, Counting(S)
  PROVE  rxfpCount' \in [Stat -> Nat]
  BY DEF Counting

LEMMA InitTypes == Init => TypeOK /\ PoolsAddUp
<1> SUFFICES ASSUME Init PROVE TypeOK /\ PoolsAddUp
  OBVIOUS
<1> USE DEF Init
<1>1. AclTypeOK
  BY AclAssumption DEF AclInit, AclTypeOK, Result, Verdict, Unset, TestResult
<1>2. DecodeTypeOK
  BY DEF DecodeInit, DecodeTypeOK, Metadata, Proto, L4
<1>3. cli \in [writing : BOOLEAN, res : Result, old : Result] /\ ~cli.writing
  BY DEF Idle, Unset, Result, Verdict
<1>4. seen \in Seen
  BY DEF Seen
<1>5. burst \in Seq(FrameIn) /\ Len(burst) = 0 /\ Len(burst) <= MaxBurst
  BY PathAssumption
<1>6. QED
  BY <1>1, <1>2, <1>3, <1>4, <1>5, ZeroPort, PathAssumption DEF TypeOK, PoolsAddUp, Place, Stat, Ring

(* TypeOK with its parts as a reader of a step needs them.                 *)
PathTypes ==
  /\ free \in 0 .. NumMbufs /\ meta \in 0 .. NumMeta
  /\ pc \in Place /\ i \in Port
  /\ burst \in Seq(FrameIn) /\ Len(burst) <= MaxBurst
  /\ (pc = "poll" <=> burst = <<>>)
  /\ srb \in [Ring -> 0 .. RingSize - 1]
  /\ rxfpCount \in [Stat -> Nat]
  /\ seen \in Seen

CliTypes == /\ cli \in [writing : BOOLEAN, res : Result, old : Result]
            /\ (cli.writing => aclIpv4_index <= MaxRule)

LEMMA TypeParts == TypeOK <=> AclTypeOK /\ DecodeTypeOK /\ PathTypes /\ CliTypes
  BY DEF TypeOK, PathTypes, CliTypes

(* What becomes of a frame, without the types: its mbuf is freed, handed   *)
(* over or forgotten.                                                      *)
LEMMA PoolRoom ==
  ASSUME TypeOK, PoolsAddUp
  PROVE  /\ free \in Nat /\ meta \in Nat /\ Len(burst) \in Nat
         /\ seen.handed \in Nat /\ seen.noMeta \in Nat /\ seen.full \in Nat
         /\ seen.rx \in Nat /\ seen.held \in SUBSET Result
         /\ free + Len(burst) <= NumMbufs /\ NumMbufs \in Nat /\ NumMeta \in Nat
  BY PathAssumption DEF TypeOK, PoolsAddUp, Seen

LEMMA SeenFields ==
  ASSUME NEW s \in Seen
  PROVE  /\ \A x \in Nat : /\ [s EXCEPT !.rx = x] \in Seen
                           /\ [s EXCEPT !.handed = x] \in Seen
                           /\ [s EXCEPT !.noMeta = x] \in Seen
                           /\ [s EXCEPT !.full = x] \in Seen
         /\ \A h \in SUBSET Result : [s EXCEPT !.held = h] \in Seen
  BY DEF Seen

LEMMA PollTypes ==
  ASSUME TypeOK, PoolsAddUp, NEW n \in 0 .. MaxBurst, NEW fs \in [1 .. n -> FrameIn], Poll(fs)
  PROVE  PathTypes' /\ PoolsAddUp'
<1>1. n \in Nat /\ MaxBurst \in Nat
  BY PathAssumption
<1>2. fs \in Seq(FrameIn) /\ Len(fs) = n
  BY <1>1
<1>3. pc = "poll" /\ burst = <<>> /\ Len(burst) = 0
  BY DEF Poll, TypeOK
<1>4. free' = free - n /\ n <= free /\ free' \in 0 .. NumMbufs
  BY <1>1, <1>2, PoolRoom DEF Poll
<1>5. seen' \in Seen /\ seen'.handed = seen.handed /\ seen'.noMeta = seen.noMeta
      /\ seen'.full = seen.full
  <2>1. seen' = [seen EXCEPT !.rx = @ + n] /\ seen.rx + n \in Nat /\ seen \in Seen
    BY <1>1, <1>2, PoolRoom DEF Poll, TypeOK
  <2>2. QED
    BY <2>1, SeenFields DEF Seen
<1>6. i' \in Port /\ pc' \in Place /\ (pc' = "poll" <=> fs = <<>>)
  BY <1>3, ZeroPort DEF Poll, NextPort, TypeOK, Place
<1>7. PathTypes'
  BY <1>1, <1>2, <1>4, <1>5, <1>6 DEF PathTypes, TypeOK, Poll
<1>8. PoolsAddUp'
  BY <1>1, <1>2, <1>3, <1>4, <1>5, PoolRoom DEF PoolsAddUp, Poll
<1>9. QED
  BY <1>7, <1>8

(* The three ways a frame's turn ends without a hand-over.                 *)
LEMMA FreedTypes ==
  ASSUME TypeOK, PoolsAddUp, FreeFrame, pc \in {"frame"} \cup Reading,
         rxfpCount' \in [Stat -> Nat], UNCHANGED <<meta, srb>>, seen' \in Seen,
         seen'.handed = seen.handed, seen'.noMeta = seen.noMeta, seen'.full = seen.full
  PROVE  PathTypes' /\ PoolsAddUp'
<1>1. burst # <<>>
  BY DEF TypeOK, Reading
<1>2. /\ burst' \in Seq(FrameIn) /\ Len(burst') = Len(burst) - 1
      /\ Len(burst') <= MaxBurst /\ Len(burst) >= 1
      /\ pc' \in {"frame", "poll"} /\ (pc' = "poll" <=> burst' = <<>>)
      /\ i' \in Port
  BY <1>1, FrameDoneFacts DEF FreeFrame
<1>3. free' = free + 1 /\ free' \in 0 .. NumMbufs
  BY <1>2, PoolRoom DEF FreeFrame
<1>4. PathTypes'
  BY <1>2, <1>3 DEF PathTypes, TypeOK, Place
<1>5. pc # "enqueue" /\ pc' # "enqueue"
  BY <1>2 DEF Reading
<1>6. free' + Len(burst') + seen.handed + seen.noMeta = NumMbufs
  BY <1>2, <1>3, PoolRoom DEF PoolsAddUp
<1>7. PoolsAddUp'
  BY <1>5, <1>6, PoolRoom DEF PoolsAddUp
<1>8. QED
  BY <1>4, <1>7

(* And how a frame moves on to the next test of its slot.                  *)
LEMMA MovedTypes ==
  ASSUME TypeOK, PoolsAddUp, pc \in {"frame"} \cup Reading,
         pc' \in {"drop", "reject", "pass", "next", "object"},
         rxfpCount' \in [Stat -> Nat], UNCHANGED <<free, i, burst, meta, srb>>,
         seen' \in Seen, seen'.handed = seen.handed, seen'.noMeta = seen.noMeta,
         seen'.full = seen.full
  PROVE  PathTypes' /\ PoolsAddUp'
<1>1. pc # "enqueue" /\ pc' # "enqueue" /\ pc # "poll" /\ pc' # "poll"
  BY DEF Reading
<1>2. PathTypes'
  BY <1>1 DEF PathTypes, TypeOK, Place, Reading
<1>3. PoolsAddUp'
  BY <1>1 DEF PoolsAddUp
<1>4. QED
  BY <1>2, <1>3

(* The reads of the slot leave seen but for what it held.                  *)
LEMMA JudgedTypes ==
  ASSUME TypeOK, Judged \/ UNCHANGED seen
  PROVE  /\ seen' \in Seen /\ seen'.handed = seen.handed
         /\ seen'.noMeta = seen.noMeta /\ seen'.full = seen.full
<1>1. seen \in Seen /\ {} \in SUBSET Result
  BY DEF TypeOK
<1>2. CASE seen' = [seen EXCEPT !.held = {}]
  <2>1. seen' \in Seen
    BY <1>1, <1>2, SeenFields
  <2>2. QED
    BY <1>1, <1>2, <2>1 DEF Seen
<1>3. QED
  BY <1>1, <1>2 DEF Judged

LEMMA ReadTypes ==
  ASSUME TypeOK, PoolsAddUp, ReadDrop \/ ReadReject \/ ReadPass \/ ReadNext
  PROVE  PathTypes' /\ PoolsAddUp'
<1>1. pc \in Reading /\ UNCHANGED <<meta, srb>> /\ (Judged \/ UNCHANGED seen)
  BY DEF ReadDrop, ReadReject, ReadPass, ReadNext, Reading
<1>2. rxfpCount' \in [Stat -> Nat]
  BY CountingType DEF ReadDrop, ReadReject, ReadPass, ReadNext, TypeOK
<1>3. \/ FreeFrame
      \/ /\ pc' \in {"drop", "reject", "pass", "next", "object"}
         /\ UNCHANGED <<free, i, burst>>
  BY DEF ReadDrop, ReadReject, ReadPass, ReadNext
<1>4. QED
  BY <1>1, <1>2, <1>3, JudgedTypes, FreedTypes, MovedTypes

LEMMA GetMetaTypes ==
  ASSUME TypeOK, PoolsAddUp, GetMeta
  PROVE  PathTypes' /\ PoolsAddUp'
<1>1. pc = "object" /\ burst # <<>> /\ UNCHANGED <<free, srb>>
  BY DEF GetMeta, TypeOK
<1>2. CASE /\ meta = 0 /\ FrameDone /\ Counting({"st_fwd"}) /\ UNCHANGED meta
           /\ seen' = [seen EXCEPT !.noMeta = @ + 1]
  <2>1. /\ burst' \in Seq(FrameIn) /\ Len(burst') = Len(burst) - 1
        /\ Len(burst') <= MaxBurst /\ Len(burst) >= 1
        /\ pc' \in {"frame", "poll"} /\ (pc' = "poll" <=> burst' = <<>>)
        /\ i' \in Port
    BY <1>1, <1>2, FrameDoneFacts
  <2>2. /\ seen' \in Seen /\ seen'.handed = seen.handed
        /\ seen'.noMeta = seen.noMeta + 1 /\ seen'.full = seen.full
    <3>1. seen \in Seen /\ seen.noMeta + 1 \in Nat
      BY PoolRoom DEF TypeOK
    <3>2. QED
      BY <1>2, <3>1, SeenFields DEF Seen
  <2>3. rxfpCount' \in [Stat -> Nat]
    BY <1>2, CountingType DEF TypeOK
  <2>4. PathTypes'
    BY <1>1, <1>2, <2>1, <2>2, <2>3 DEF PathTypes, TypeOK, Place
  <2>5. free' + Len(burst') + seen'.handed + seen'.noMeta = NumMbufs
    <3>1. free' = free /\ free + Len(burst) + seen.handed + seen.noMeta = NumMbufs
      BY <1>1 DEF PoolsAddUp
    <3>2. free + (Len(burst) - 1) + seen.handed + (seen.noMeta + 1) = NumMbufs
      <4>1. /\ free \in Int /\ Len(burst) \in Int /\ seen.handed \in Int /\ seen.noMeta \in Int
            /\ seen.full \in Int /\ meta \in Int
        BY PoolRoom
      <4>2. QED
        BY <3>1, <4>1
    <3>3. QED
      BY <2>1, <2>2, <3>1, <3>2
  <2>6. PoolsAddUp'
    BY <1>1, <1>2, <2>1, <2>2, <2>5, PoolRoom DEF PoolsAddUp
  <2>7. QED
    BY <2>4, <2>6
<1>3. CASE /\ meta > 0 /\ meta' = meta - 1 /\ pc' = "enqueue"
           /\ UNCHANGED <<burst, i, rxfpCount, seen>>
  <2>1. PathTypes'
    BY <1>1, <1>3, PoolRoom DEF PathTypes, TypeOK, Place
  <2>2. PoolsAddUp'
    BY <1>1, <1>3, PoolRoom DEF PoolsAddUp
  <2>3. QED
    BY <2>1, <2>2
<1>4. QED
  BY <1>2, <1>3 DEF GetMeta

LEMMA EnqueueTypes ==
  ASSUME TypeOK, PoolsAddUp, Enqueue
  PROVE  PathTypes' /\ PoolsAddUp'
<1> DEFINE r == RingOf(ReceiverOf(i))
<1>1. pc = "enqueue" /\ burst # <<>> /\ r \in Ring /\ meta' = meta
  BY DEF Enqueue, TypeOK, RingOf, Ring
<1>2. rxfpCount' \in [Stat -> Nat]
  BY CountingType DEF Enqueue, TypeOK
<1>3. FrameDone
  BY DEF Enqueue, FreeFrame
<1>4. /\ burst' \in Seq(FrameIn) /\ Len(burst') = Len(burst) - 1
      /\ Len(burst') <= MaxBurst /\ Len(burst) >= 1
      /\ pc' \in {"frame", "poll"} /\ (pc' = "poll" <=> burst' = <<>>)
      /\ i' \in Port
  BY <1>1, <1>3, FrameDoneFacts
<1>5. seen \in Seen /\ seen.handed + 1 \in Nat /\ seen.full + 1 \in Nat
  BY PoolRoom DEF TypeOK
<1>6. free + Len(burst) + seen.handed + seen.noMeta = NumMbufs
      /\ meta + seen.handed + seen.full + 1 = NumMeta
  BY <1>1 DEF PoolsAddUp
<1>7. CASE /\ HasRoom(r) /\ srb' = [srb EXCEPT ![r] = @ + 1] /\ UNCHANGED free
           /\ seen' = [seen EXCEPT !.handed = @ + 1]
  <2>1. /\ seen' \in Seen /\ seen'.handed = seen.handed + 1
        /\ seen'.noMeta = seen.noMeta /\ seen'.full = seen.full
    <3>1. seen' \in Seen
      BY <1>5, <1>7, SeenFields
    <3>2. QED
      BY <1>5, <1>7 DEF Seen
  <2>2. srb' \in [Ring -> 0 .. RingSize - 1]
    <3>1. srb \in [Ring -> 0 .. RingSize - 1] /\ RingSize \in Nat
      BY PathAssumption DEF TypeOK
    <3>2. srb[r] + 1 \in 0 .. RingSize - 1
      BY <1>1, <1>7, <3>1 DEF HasRoom
    <3>3. QED
      BY <1>7, <3>1, <3>2
  <2>3. PathTypes'
    BY <1>1, <1>2, <1>4, <1>7, <2>1, <2>2, PoolRoom DEF PathTypes, TypeOK, Place
  <2>4. PoolsAddUp'
    <3>1. free + (Len(burst) - 1) + (seen.handed + 1) + seen.noMeta = NumMbufs
          /\ meta + (seen.handed + 1) + seen.full + 0 = NumMeta
      <4>1. /\ free \in Int /\ Len(burst) \in Int /\ seen.handed \in Int /\ seen.noMeta \in Int
            /\ seen.full \in Int /\ meta \in Int
        BY PoolRoom
      <4>2. QED
        BY <1>6, <4>1
    <3>2. QED
      BY <1>1, <1>4, <1>7, <2>1, <3>1 DEF PoolsAddUp
  <2>5. QED
    BY <2>3, <2>4
<1>8. CASE /\ seen' = [seen EXCEPT !.full = @ + 1] /\ UNCHANGED srb /\ free' = free + 1
  <2>1. /\ seen' \in Seen /\ seen'.handed = seen.handed
        /\ seen'.noMeta = seen.noMeta /\ seen'.full = seen.full + 1
    <3>1. seen' \in Seen
      BY <1>5, <1>8, SeenFields
    <3>2. QED
      BY <1>5, <1>8 DEF Seen
  <2>2. free' \in 0 .. NumMbufs
    BY <1>4, <1>8, PoolRoom
  <2>3. PathTypes'
    BY <1>1, <1>2, <1>4, <1>8, <2>1, <2>2, PoolRoom DEF PathTypes, TypeOK, Place
  <2>4. PoolsAddUp'
    <3>1. (free + 1) + (Len(burst) - 1) + seen.handed + seen.noMeta = NumMbufs
          /\ meta + seen.handed + (seen.full + 1) + 0 = NumMeta
      <4>1. /\ free \in Int /\ Len(burst) \in Int /\ seen.handed \in Int /\ seen.noMeta \in Int
            /\ seen.full \in Int /\ meta \in Int
        BY PoolRoom
      <4>2. QED
        BY <1>6, <4>1
    <3>2. QED
      BY <1>1, <1>4, <1>8, <2>1, <3>1 DEF PoolsAddUp
  <2>5. QED
    BY <2>3, <2>4
<1>9. QED
  BY <1>7, <1>8 DEF Enqueue, FreeFrame

LEMMA SlotType == TypeOK => SlotValues \in SUBSET Result
<1> SUFFICES ASSUME TypeOK PROVE SlotValues \in SUBSET Result
  OBVIOUS
<1>1. cli.old \in Result /\ cli.res \in Result
  BY DEF TypeOK
<1>2. ctxIpv4[1].userdata \in 1 .. MaxRule /\ aclIpv4Result \in [1 .. MaxRule -> Result]
  <2>1. AclTypeOK
    BY DEF TypeOK
  <2> DEFINE R == [match : Match \cup {TestMatch}, userdata : 1 .. MaxRule, want : Result]
  <2>2. ctxIpv4 \in Seq(R) /\ Len(ctxIpv4) \in 1 .. MaxRule /\ MaxRule \in Nat
    BY <2>1, AclAssumption DEF AclTypeOK
  <2>3. ctxIpv4[1] \in R
    <3> HIDE DEF R
    <3>1. QED
      BY <2>2
  <2>4. QED
    BY <2>1, <2>3 DEF AclTypeOK
<1>3. QED
  BY <1>1, <1>2 DEF SlotValues, Trie

LEMMA SeenDecodingFacts ==
  ASSUME TypeOK, NEW f, NEW h \in SUBSET Result, SeenDecoding(f, h)
  PROVE  /\ seen' \in Seen /\ seen'.handed = seen.handed /\ seen'.noMeta = seen.noMeta
         /\ seen'.full = seen.full /\ seen'.held = h
         /\ seen'.ipv4 = IF IsPlainIpv4(f) THEN seen.ipv4 \cup {i} ELSE seen.ipv4
         /\ \A p \in Port : seen'.countable[p] =
              seen.countable[p] + (IF p = i /\ ~Uncounted(f) THEN 1 ELSE 0)
<1>1. seen \in Seen /\ i \in Port
  BY DEF TypeOK
<1> DEFINE u == IF IsPlainIpv4(f) THEN seen.ipv4 \cup {i} ELSE seen.ipv4
           k == IF Uncounted(f) THEN seen.countable[i] ELSE seen.countable[i] + 1
           c == [seen.countable EXCEPT ![i] = k]
<1>2. /\ u \in SUBSET Port /\ c \in [Port -> Nat]
      /\ \A p \in Port : c[p] = seen.countable[p] + (IF p = i /\ ~Uncounted(f) THEN 1 ELSE 0)
  BY <1>1 DEF Seen
<1>3. seen' = [seen EXCEPT !.ipv4 = u, !.countable[i] = k, !.held = h]
  BY DEF SeenDecoding, Uncounted
<1> HIDE DEF u, k
<1>4. seen' = [seen EXCEPT !.ipv4 = u, !.countable = c, !.held = h]
  BY <1>1, <1>3 DEF Seen
<1> HIDE DEF c
<1>5. seen' \in Seen /\ seen'.handed = seen.handed /\ seen'.noMeta = seen.noMeta
      /\ seen'.full = seen.full /\ seen'.held = h /\ seen'.ipv4 = u /\ seen'.countable = c
  BY <1>1, <1>2, <1>4 DEF Seen
<1>6. QED
  BY <1>2, <1>5 DEF u

LEMMA DecideFacts ==
  ASSUME TypeOK, Decide
  PROVE  /\ pc = "frame" /\ i \in Port /\ Head(burst) \in FrameIn /\ Head(burst) \in Frame
         /\ FrameDecode(i, Head(burst))
         /\ \E h \in SUBSET Result : SeenDecoding(Head(burst), h)
         /\ UNCHANGED <<meta, srb, cli, aclVars>>
<1>1. pc = "frame" /\ i \in Port /\ burst \in Seq(FrameIn) /\ burst # <<>>
  BY DEF TypeOK, Decide
<1>2. Head(burst) \in FrameIn /\ FrameIn \subseteq Frame
  BY <1>1, PathAssumption
<1>3. FrameDecode(i, Head(burst)) /\ UNCHANGED <<meta, srb, cli, aclVars>>
  BY DEF Decide
<1>4. \E h \in SUBSET Result : SeenDecoding(Head(burst), h)
  BY SlotType DEF Decide
<1>5. QED
  BY <1>1, <1>2, <1>3, <1>4

LEMMA DecideTypes ==
  ASSUME TypeOK, PoolsAddUp, Decide
  PROVE  PathTypes' /\ PoolsAddUp'
<1>1. pc = "frame" /\ UNCHANGED <<meta, srb>>
  BY DecideFacts
<1>2. /\ seen' \in Seen /\ seen'.handed = seen.handed
      /\ seen'.noMeta = seen.noMeta /\ seen'.full = seen.full
  BY DecideFacts, SeenDecodingFacts
<1>3. /\ rxfpCount' \in [Stat -> Nat]
      /\ \/ FreeFrame
         \/ pc' = "drop" /\ UNCHANGED <<free, i, burst>>
  BY CountingType DEF Decide, ByPortAction, TypeOK
<1>4. QED
  BY <1>1, <1>2, <1>3, FreedTypes, MovedTypes

LEMMA DecodeTypes ==
  ASSUME TypeOK, Decide
  PROVE  /\ DecodeTypeOK'
         /\ \A p \in Port : dp_metadata'[p] =
              IF p = i THEN Decoded(i, Head(burst)) ELSE dp_metadata[p]
<1>1. i \in Port /\ Head(burst) \in Frame /\ FrameDecode(i, Head(burst)) /\ DecodeTypeOK
  BY DecideFacts DEF TypeOK
<1>2. Decoded(i, Head(burst)) \in Metadata
  BY <1>1, DecodedFacts
<1> DEFINE d == Decoded(i, Head(burst))
<1>3. dp_metadata' = [dp_metadata EXCEPT ![i] = d] /\ dp_metadata \in [Port -> Metadata]
  BY <1>1 DEF FrameDecode, DecodeTypeOK
<1>4. l4_proto' \in L4
  BY <1>1 DEF FrameDecode, DecodeTypeOK, Frame
<1> HIDE DEF d
<1>5. QED
  BY <1>1, <1>2, <1>3, <1>4 DEF DecodeTypeOK, d

LEMMA CliStartTypes ==
  ASSUME TypeOK, PoolsAddUp, NEW res \in CliResult, CliStart(res)
  PROVE  TypeOK' /\ PoolsAddUp'
<1>1. res \in Result
  BY DEF CliResult, Result, Verdict
<1>2. AclTypeOK /\ aclIpv4_index \in 1 .. MaxRule
  BY AclAssumption DEF TypeOK, AclTypeOK, CliStart
<1>3. AclTypeOK'
  <2> DEFINE x == [aclIpv4Result EXCEPT ![aclIpv4_index].action = res.action]
  <2>1. aclIpv4Result \in [1 .. MaxRule -> Result] /\ res.action \in Verdict
    BY <1>1, <1>2 DEF AclTypeOK, Result
  <2>2. [aclIpv4Result[aclIpv4_index] EXCEPT !.action = res.action] \in Result
    BY <1>2, <2>1 DEF Result
  <2>3. x \in [1 .. MaxRule -> Result]
    BY <1>2, <2>1, <2>2
  <2>4. aclIpv4Result' = x /\ UNCHANGED <<aclIpv4_index, ctxIpv4, tcp>>
    BY DEF CliStart
  <2> HIDE DEF x
  <2>5. QED
    BY <1>2, <2>3, <2>4 DEF AclTypeOK
<1>4. seen' \in Seen /\ seen'.handed = seen.handed /\ seen'.noMeta = seen.noMeta
      /\ seen'.full = seen.full
  <2>1. seen \in Seen /\ seen.held \cup {res} \in SUBSET Result
    BY <1>1 DEF TypeOK, Seen
  <2>2. CASE seen' = [seen EXCEPT !.held = @ \cup {res}]
    <3>1. seen' \in Seen
      BY <2>1, <2>2, SeenFields
    <3>2. QED
      BY <2>1, <2>2, <3>1 DEF Seen
  <2>3. QED
    BY <2>1, <2>2 DEF CliStart
<1>5. DecodeTypeOK'
  BY DEF CliStart, decodeVars, DecodeTypeOK, TypeOK
<1>6. PathTypes'
  BY <1>4 DEF CliStart, TypeOK, PathTypes
<1>7. CliTypes'
  BY <1>1, <1>2 DEF CliStart, CliTypes, AclTypeOK
<1>8. TypeOK'
  BY <1>3, <1>5, <1>6, <1>7 DEF TypeOK, PathTypes, CliTypes
<1>9. PoolsAddUp'
  BY <1>4 DEF PoolsAddUp, CliStart
<1>10. QED
  BY <1>8, <1>9

LEMMA CliFinishTypes ==
  ASSUME TypeOK, PoolsAddUp, NEW m \in Match, CliFinish(m)
  PROVE  TypeOK' /\ PoolsAddUp'
<1>1. cli.res \in Result /\ AclTypeOK /\ aclIpv4_index \in 1 .. MaxRule
  BY AclAssumption DEF TypeOK, AclTypeOK, CliFinish
<1>2. AclTypeOK'
  <2> DEFINE x == [aclIpv4Result EXCEPT ![aclIpv4_index].next = cli.res.next]
  <2>1. aclIpv4Result \in [1 .. MaxRule -> Result] /\ cli.res.next \in {0, 1, 255}
    BY <1>1 DEF AclTypeOK, Result
  <2>2. [aclIpv4Result[aclIpv4_index] EXCEPT !.next = cli.res.next] \in Result
    BY <1>1, <2>1 DEF Result
  <2>3. x \in [1 .. MaxRule -> Result]
    BY <1>1, <2>1, <2>2
  <2>4. aclIpv4Result' = x
    BY DEF CliFinish
  <2> DEFINE r == [match |-> m, userdata |-> aclIpv4_index, want |-> cli.res]
             R == [match : Match \cup {TestMatch}, userdata : 1 .. MaxRule, want : Result]
  <2>5. r \in R
    BY <1>1
  <2>6. ctxIpv4 \in Seq(R) /\ Len(ctxIpv4) \in 1 .. MaxRule /\ MaxRule \in Nat
    BY <1>1, AclAssumption DEF AclTypeOK
  <2>7. \/ UNCHANGED <<ctxIpv4, aclIpv4_index, tcp>>
        \/ /\ Len(ctxIpv4) < MaxRule /\ ctxIpv4' = Append(ctxIpv4, r)
           /\ aclIpv4_index' = aclIpv4_index + 1 /\ tcp' = (tcp + 1) % 256
    BY <2>6 DEF CliFinish, AddRefused, AddToCtx
  <2>8. AclTypeOK' <=> /\ aclIpv4_index' \in 1 .. MaxRule + 1
                       /\ aclIpv4Result' \in [1 .. MaxRule -> Result]
                       /\ ctxIpv4' \in Seq(R) /\ Len(ctxIpv4') \in 1 .. MaxRule
                       /\ tcp' \in 0 .. 255
    BY DEF AclTypeOK
  <2>9. tcp \in 0 .. 255
    BY <1>1 DEF AclTypeOK
  <2> HIDE DEF x, r, R
  <2>10. CASE UNCHANGED <<ctxIpv4, aclIpv4_index, tcp>>
    BY <1>1, <2>3, <2>4, <2>6, <2>8, <2>9, <2>10
  <2>11. CASE /\ Len(ctxIpv4) < MaxRule /\ ctxIpv4' = Append(ctxIpv4, r)
              /\ aclIpv4_index' = aclIpv4_index + 1 /\ tcp' = (tcp + 1) % 256
    <3>1. ctxIpv4' \in Seq(R) /\ Len(ctxIpv4') = Len(ctxIpv4) + 1
      BY <2>5, <2>6, <2>11
    <3>2. QED
      BY <1>1, <2>3, <2>4, <2>6, <2>8, <2>9, <2>11, <3>1
  <2>12. QED
    BY <2>7, <2>10, <2>11
<1>3. DecodeTypeOK'
  BY DEF CliFinish, decodeVars, DecodeTypeOK, TypeOK
<1>4. PathTypes'
  BY DEF CliFinish, TypeOK, PathTypes
<1>5. cli' \in [writing : BOOLEAN, res : Result, old : Result] /\ ~cli'.writing
  BY DEF CliFinish, Idle, Unset, Result, Verdict
<1>6. TypeOK'
  BY <1>2, <1>3, <1>4, <1>5 DEF TypeOK, PathTypes
<1>7. PoolsAddUp'
  BY DEF PoolsAddUp, CliFinish
<1>8. QED
  BY <1>6, <1>7

LEMMA TypeStep == TypeOK /\ PoolsAddUp /\ [Next]_vars => TypeOK' /\ PoolsAddUp'
<1> SUFFICES ASSUME TypeOK, PoolsAddUp, [Next]_vars PROVE TypeOK' /\ PoolsAddUp'
  OBVIOUS
<1>1. ASSUME PathTypes' /\ PoolsAddUp', UNCHANGED <<cli, aclVars>>, DecodeTypeOK'
      PROVE  TypeOK' /\ PoolsAddUp'
  <2>1. AclTypeOK' /\ CliTypes'
    BY <1>1 DEF aclVars, AclTypeOK, CliTypes, TypeOK
  <2>2. QED
    BY <1>1, <2>1 DEF TypeOK, PathTypes, CliTypes
<1>2. UNCHANGED decodeVars => DecodeTypeOK'
  BY DEF decodeVars, DecodeTypeOK, TypeOK
<1>3. ASSUME NEW n \in 0 .. MaxBurst, NEW fs \in [1 .. n -> FrameIn], Poll(fs)
      PROVE  TypeOK' /\ PoolsAddUp'
  BY <1>1, <1>2, <1>3, PollTypes DEF Poll
<1>4. CASE Decide
  BY <1>1, <1>4, DecideTypes, DecideFacts, DecodeTypes
<1>5. CASE ReadDrop \/ ReadReject \/ ReadPass \/ ReadNext
  <2>1. UNCHANGED <<cli, decodeVars, aclVars>>
    BY <1>5 DEF ReadDrop, ReadReject, ReadPass, ReadNext
  <2>2. QED
    BY <1>1, <1>2, <1>5, <2>1, ReadTypes
<1>6. CASE GetMeta
  BY <1>1, <1>2, <1>6, GetMetaTypes DEF GetMeta
<1>7. CASE Enqueue
  BY <1>1, <1>2, <1>7, EnqueueTypes DEF Enqueue
<1>8. ASSUME NEW c \in UserCore, UserPoll(c)
      PROVE  TypeOK' /\ PoolsAddUp'
  <2>1. UNCHANGED <<free, meta, pc, i, burst, rxfpCount, cli, seen, decodeVars, aclVars>>
    BY <1>8 DEF UserPoll
  <2>2. srb' \in [Ring -> 0 .. RingSize - 1]
    <3>1. 0 \in 0 .. RingSize - 1
      BY PathAssumption
    <3>2. QED
      BY <1>8, <3>1 DEF UserPoll, TypeOK
  <2>3. PathTypes' /\ PoolsAddUp'
    BY <2>1, <2>2 DEF PathTypes, TypeOK, PoolsAddUp
  <2>4. QED
    BY <1>1, <1>2, <2>1, <2>3
<1>9. CASE Cli
  BY <1>9, CliStartTypes, CliFinishTypes DEF Cli
<1>10. CASE UNCHANGED vars
  <2>1. UNCHANGED pathVars /\ UNCHANGED <<cli, decodeVars, aclVars>>
    BY <1>10 DEF vars, pathVars
  <2>2. PathTypes' /\ PoolsAddUp'
    BY <2>1 DEF pathVars, PathTypes, PoolsAddUp, TypeOK
  <2>3. QED
    BY <1>1, <1>2, <2>1, <2>2
<1>11. QED
  BY <1>3, <1>4, <1>5, <1>6, <1>7, <1>8, <1>9, <1>10 DEF Next, Parser

(* For any instance: the data plane's variables keep their types, a ring   *)
(* never takes more than it holds, and no pool is overfilled.              *)
THEOREM FramePathTypes == Spec => []TypeOK
  BY InitTypes, TypeStep, PTL DEF Spec

(* And every mbuf and metadata object is accounted for: in its pool, in    *)
(* the burst, with a user thread, or forgotten.                            *)
THEOREM PoolsAreAccountedFor == Spec => []PoolsAddUp
  BY InitTypes, TypeStep, PTL DEF Spec

-----------------------------------------------------------------------------
(* Counters and flags *)

CountInv == /\ FramesCountOnce
            /\ \A p \in Port : "ipv4" \in dp_metadata[p].set => p \in seen.ipv4

LEMMA InitCounts == Init => CountInv
<1> SUFFICES ASSUME Init PROVE CountInv
  OBVIOUS
<1>1. \A p \in Port : /\ \A c \in Counter : dp_metadata[p].cnt[c] = 0
                      /\ dp_metadata[p].set = {} /\ seen.countable[p] = 0
  BY DEF Init, DecodeInit
<1>2. QED
  BY <1>1 DEF CountInv, FramesCountOnce, Counted, Counter

(* Only Decide touches what is counted.                                    *)
LEMMA CountStep == TypeOK /\ CountInv /\ [Next]_vars => CountInv'
<1> SUFFICES ASSUME TypeOK, CountInv, [Next]_vars PROVE CountInv'
  OBVIOUS
<1>1. ASSUME UNCHANGED dp_metadata, seen'.countable = seen.countable, seen'.ipv4 = seen.ipv4
      PROVE  CountInv'
  BY <1>1 DEF CountInv, FramesCountOnce, Counted
<1>2. CASE Decide
  <2>1. PICK h \in SUBSET Result : SeenDecoding(Head(burst), h)
    BY <1>2, DecideFacts
  <2> DEFINE f == Head(burst)
  <2>2. i \in Port /\ f \in Frame /\ DecodeTypeOK
    BY <1>2, DecideFacts DEF TypeOK
  <2>3. \A p \in Port : dp_metadata'[p] = IF p = i THEN Decoded(i, f) ELSE dp_metadata[p]
    BY <1>2, DecodeTypes
  <2>4. /\ seen'.ipv4 = IF IsPlainIpv4(f) THEN seen.ipv4 \cup {i} ELSE seen.ipv4
        /\ \A p \in Port : seen'.countable[p] =
             seen.countable[p] + (IF p = i /\ ~Uncounted(f) THEN 1 ELSE 0)
    BY <2>1, SeenDecodingFacts
  <2>5. /\ "ipv4" \in Decoded(i, f).set => "ipv4" \in dp_metadata[i].set \/ IsPlainIpv4(f)
        /\ Total(Decoded(i, f)) = Total(dp_metadata[i]) + (IF Uncounted(f) THEN 0 ELSE 1)
    BY <2>2, DecodedFacts
  <2>6. \A p \in Port : Total(dp_metadata[p]) = seen.countable[p] /\ seen.countable[p] \in Nat
    BY DEF CountInv, FramesCountOnce, Counted, Total, TypeOK, Seen
  <2> HIDE DEF f
  <2>7. \A p \in Port : Total(dp_metadata'[p]) = seen'.countable[p]
    BY <2>2, <2>3, <2>4, <2>5, <2>6
  <2>8. \A p \in Port : "ipv4" \in dp_metadata'[p].set => p \in seen'.ipv4
    BY <2>2, <2>3, <2>4, <2>5 DEF CountInv
  <2>9. QED
    BY <2>7, <2>8 DEF CountInv, FramesCountOnce, Counted, Total
<1>3. ASSUME NEW fs, Poll(fs) PROVE CountInv'
  <2>1. UNCHANGED dp_metadata /\ seen' = [seen EXCEPT !.rx = @ + Len(fs)] /\ seen \in Seen
    BY <1>3 DEF Poll, decodeVars, TypeOK
  <2>2. seen'.countable = seen.countable /\ seen'.ipv4 = seen.ipv4
    BY <2>1 DEF Seen
  <2>3. QED
    BY <1>1, <2>1, <2>2
<1>4. CASE ReadDrop \/ ReadReject \/ ReadPass \/ ReadNext
  <2>1. UNCHANGED dp_metadata /\ (Judged \/ UNCHANGED seen) /\ seen \in Seen
    BY <1>4 DEF ReadDrop, ReadReject, ReadPass, ReadNext, decodeVars, TypeOK
  <2>2. seen'.countable = seen.countable /\ seen'.ipv4 = seen.ipv4
    BY <2>1 DEF Judged, Seen
  <2>3. QED
    BY <1>1, <2>1, <2>2
<1>5. CASE GetMeta
  <2>1. UNCHANGED dp_metadata /\ seen \in Seen
        /\ (seen' = [seen EXCEPT !.noMeta = @ + 1] \/ UNCHANGED seen)
    BY <1>5 DEF GetMeta, decodeVars, TypeOK
  <2>2. seen'.countable = seen.countable /\ seen'.ipv4 = seen.ipv4
    BY <2>1 DEF Seen
  <2>3. QED
    BY <1>1, <2>1, <2>2
<1>6. CASE Enqueue
  <2>1. UNCHANGED dp_metadata /\ seen \in Seen
        /\ \/ seen' = [seen EXCEPT !.handed = @ + 1]
           \/ seen' = [seen EXCEPT !.full = @ + 1]
    BY <1>6 DEF Enqueue, decodeVars, TypeOK
  <2>2. seen'.countable = seen.countable /\ seen'.ipv4 = seen.ipv4
    BY <2>1 DEF Seen
  <2>3. QED
    BY <1>1, <2>1, <2>2
<1>7. ASSUME NEW c, UserPoll(c) PROVE CountInv'
  BY <1>1, <1>7 DEF UserPoll, decodeVars
<1>8. ASSUME NEW res, CliStart(res) PROVE CountInv'
  <2>1. UNCHANGED dp_metadata /\ seen \in Seen
        /\ (seen' = [seen EXCEPT !.held = @ \cup {res}] \/ UNCHANGED seen)
    BY <1>8 DEF CliStart, decodeVars, TypeOK
  <2>2. seen'.countable = seen.countable /\ seen'.ipv4 = seen.ipv4
    BY <2>1 DEF Seen
  <2>3. QED
    BY <1>1, <2>1, <2>2
<1>9. ASSUME NEW m, CliFinish(m) PROVE CountInv'
  BY <1>1, <1>9 DEF CliFinish, decodeVars
<1>10. CASE UNCHANGED vars
  BY <1>1, <1>10 DEF vars, pathVars, decodeVars
<1>11. QED
  BY <1>2, <1>3, <1>4, <1>5, <1>6, <1>7, <1>8, <1>9, <1>10 DEF Next, Parser, Cli

LEMMA CountsHold == Spec => [](TypeOK /\ CountInv)
<1>1. Spec => [](TypeOK /\ PoolsAddUp)
  BY InitTypes, TypeStep, PTL DEF Spec
<1>2. QED
  BY <1>1, InitCounts, CountStep, PTL DEF Spec

(* However flags and protocols of earlier frames linger: every frame that  *)
(* is neither ARP nor a fragment is counted exactly once.                  *)
THEOREM EveryFrameIsCounted == Spec => []FramesCountOnce
<1>1. CountInv => FramesCountOnce
  BY DEF CountInv
<1>2. QED
  BY <1>1, CountsHold, PTL

(* No frame is looked up on a port that has not seen plain IPv4.           *)
THEOREM LookupsNeedIpv4 == Spec => LookupsFollowIpv4
<1> DEFINE A == rxfpCount'["acl_Lkp"] > rxfpCount["acl_Lkp"] => i \in seen.ipv4'
<1>1. TypeOK /\ CountInv /\ CountInv' /\ [Next]_vars => [A]_vars
  <2> SUFFICES ASSUME TypeOK, CountInv, CountInv', [Next]_vars PROVE [A]_vars
    OBVIOUS
  <2>1. ASSUME UNCHANGED rxfpCount PROVE A
    BY <2>1 DEF TypeOK, Stat
  <2>2. ASSUME NEW S, "acl_Lkp" \notin S, Counting(S) PROVE A
    BY <2>2 DEF TypeOK, Counting, Stat
  <2>3. CASE Decide
    <3>1. CASE LookedUp(dp_metadata'[i])
      BY <3>1, <2>3, DecideFacts DEF LookedUp, CountInv
    <3>2. CASE ~LookedUp(dp_metadata'[i])
      <4>1. ByPortAction({})
        BY <2>3, <3>2 DEF Decide
      <4>2. QED
        BY <2>2, <4>1 DEF ByPortAction
    <3>3. QED
      BY <3>1, <3>2
  <2>4. CASE ReadDrop \/ ReadReject \/ ReadPass \/ ReadNext
    BY <2>1, <2>2, <2>4 DEF ReadDrop, ReadReject, ReadPass, ReadNext
  <2>5. CASE GetMeta \/ Enqueue
    BY <2>1, <2>2, <2>5 DEF GetMeta, Enqueue
  <2>6. ASSUME NEW fs, Poll(fs) PROVE A
    BY <2>1, <2>6 DEF Poll
  <2>7. ASSUME NEW c, UserPoll(c) PROVE A
    BY <2>1, <2>7 DEF UserPoll
  <2>8. CASE Cli
    BY <2>1, <2>8 DEF Cli, CliStart, CliFinish
  <2>9. QED
    BY <2>3, <2>4, <2>5, <2>6, <2>7, <2>8 DEF Next, Parser
<1>2. Spec => [][A]_vars
  BY <1>1, CountsHold, PTL DEF Spec
<1>3. QED
  BY <1>2 DEF LookupsFollowIpv4

-----------------------------------------------------------------------------
(* The verdict: what the test rule's slot is, or is being made             *)

TestValue == aclIpv4Result[TestSlot]
Writing   == cli.writing /\ aclIpv4_index = TestSlot
Current   == IF Writing THEN cli.res ELSE TestValue
Legit     == {TestResult} \cup CliResult

(* An update writes the action first, so only next can still be old; but   *)
(* no value that reaches the slot has a next of zero.  Past the first test *)
(* of a frame, one of the values seen was not a drop.                      *)
SlotInv ==
  /\ ctxIpv4[1].userdata = TestSlot
  /\ cli.writing => cli.res \in CliResult
  /\ Current \in Legit
  /\ TestValue.action = Current.action /\ TestValue.next \in {1, 255}
  /\ pc \in Reading => Current \in seen.held
  /\ pc \in {"reject", "pass", "next"} => \E v \in seen.held : FateOf(v) = "user"

LEMMA LegitFacts ==
  ASSUME NEW v \in Legit
  PROVE  /\ v.action \in {"PASS", "DROP", "ALRT"} /\ v.next \in {1, 255}
         /\ v \in Result
         /\ FateOf(v) = (IF v.action = "DROP" THEN "drop" ELSE "user")
  BY DEF Legit, TestResult, CliResult, FateOf, Result, Verdict

LEMMA SlotFacts ==
  ASSUME SlotInv
  PROVE  /\ Trie = {TestSlot} /\ Slot = TestValue
         /\ Current \in SlotValues /\ (SlotWritten <=> Writing)
<1>1. Trie = {TestSlot}
  BY DEF SlotInv, Trie
<1>2. (CHOOSE s \in {TestSlot} : TRUE) = TestSlot
  OBVIOUS
<1>3. QED
  BY <1>1, <1>2 DEF Slot, TestValue, Current, SlotValues, SlotWritten, Writing

LEMMA InitSlot == Init => SlotInv
<1> SUFFICES ASSUME Init PROVE SlotInv
  OBVIOUS
<1>1. ctxIpv4[1].userdata = TestSlot /\ TestValue = TestResult
  BY AclAssumption DEF Init, AclInit, TestValue
<1>2. ~cli.writing /\ pc = "poll"
  BY DEF Init, Idle
<1>3. QED
  BY <1>1, <1>2 DEF SlotInv, Current, Writing, Legit, TestResult, Reading

(* Steps that write no slot and keep what was seen, or add to it.          *)
LEMMA SlotKept ==
  ASSUME SlotInv, UNCHANGED <<cli, aclVars>>,
         pc' \in Reading => /\ pc \in Reading /\ UNCHANGED seen
                            /\ pc = "drop" /\ pc' # "drop" => TestValue.action # "DROP"
  PROVE  SlotInv'
<1>1. /\ UNCHANGED <<cli, aclIpv4_index, aclIpv4Result, ctxIpv4>>
      /\ Current' = Current /\ TestValue' = TestValue
  BY DEF aclVars, Current, Writing, TestValue
<1>2. pc' \in Reading => Current' \in seen'.held
  BY <1>1 DEF SlotInv
<1>3. ASSUME pc' \in {"reject", "pass", "next"}
      PROVE  \E v \in seen'.held : FateOf(v) = "user"
  <2>1. pc' \in Reading /\ pc' # "drop" /\ UNCHANGED seen /\ pc \in Reading
    BY <1>3 DEF Reading
  <2>2. CASE pc = "drop"
    <3>1. FateOf(Current) = "user"
      BY <2>1, <2>2, LegitFacts DEF SlotInv
    <3>2. QED
      BY <2>1, <3>1 DEF SlotInv
  <2>3. CASE pc # "drop"
    BY <2>1, <2>3 DEF SlotInv, Reading
  <2>4. QED
    BY <2>2, <2>3
<1>4. QED
  BY <1>1, <1>2, <1>3 DEF SlotInv

LEMMA SlotDecide ==
  ASSUME SlotInv, Decide, TypeOK
  PROVE  SlotInv'
<1>1. pc = "frame" /\ UNCHANGED <<cli, aclVars>>
  BY DecideFacts
<1>2. CASE pc' \notin Reading
  BY <1>1, <1>2, SlotKept
<1>3. CASE pc' \in Reading
  <2>1. pc' = "drop" /\ SeenDecoding(Head(burst), SlotValues)
    BY <1>3 DEF Decide, ByPortAction, FreeFrame, FrameDone, Reading
  <2>2. seen'.held = SlotValues
    BY <2>1, SlotType, SeenDecodingFacts
  <2>3. /\ UNCHANGED <<cli, aclIpv4_index, aclIpv4Result, ctxIpv4>>
        /\ Current' = Current /\ TestValue' = TestValue
    BY <1>1 DEF aclVars, Current, Writing, TestValue
  <2>4. QED
    BY <2>1, <2>2, <2>3, SlotFacts DEF SlotInv
<1>4. QED
  BY <1>2, <1>3

LEMMA SlotCliStart ==
  ASSUME SlotInv, TypeOK, NEW res \in CliResult, CliStart(res)
  PROVE  SlotInv'
<1>1. /\ ~cli.writing /\ aclIpv4_index <= MaxRule
      /\ cli' = [writing |-> TRUE, res |-> res, old |-> aclIpv4Result[aclIpv4_index]]
      /\ aclIpv4Result' = [aclIpv4Result EXCEPT ![aclIpv4_index].action = res.action]
      /\ UNCHANGED <<pc, aclIpv4_index, ctxIpv4>>
  BY DEF CliStart
<1>2. cli'.writing /\ cli'.res = res /\ res \in Legit /\ Current = TestValue
  BY <1>1 DEF Legit, Current, Writing
<1>3. aclIpv4Result \in [1 .. MaxRule -> Result] /\ TestSlot \in 1 .. MaxRule
      /\ TestValue \in Result
  BY AclAssumption DEF TypeOK, AclTypeOK, TestValue
<1>4. pc \in Reading => /\ seen.held \subseteq seen'.held
                        /\ aclIpv4_index = TestSlot => res \in seen'.held
  <2>1. seen \in Seen
    BY DEF TypeOK
  <2>2. [seen EXCEPT !.held = @ \cup {res}].held = seen.held \cup {res}
    BY <2>1 DEF Seen
  <2>3. QED
    BY <2>2, SlotFacts DEF CliStart
<1>5. CASE aclIpv4_index = TestSlot
  <2>1. Current' = res
    BY <1>1, <1>2, <1>5 DEF Current, Writing
  <2>2. TestValue' = [TestValue EXCEPT !.action = res.action]
    BY <1>1, <1>3, <1>5 DEF TestValue
  <2>3. TestValue'.action = res.action /\ TestValue'.next = TestValue.next
    BY <1>3, <2>2 DEF Result
  <2>4. QED
    BY <1>1, <1>2, <1>4, <1>5, <2>1, <2>3 DEF SlotInv, Reading
<1>6. CASE aclIpv4_index # TestSlot
  <2>1. TestValue' = TestValue
    BY <1>1, <1>3, <1>6 DEF TestValue
  <2>2. Current' = TestValue'
    BY <1>1, <1>6 DEF Current, Writing
  <2>3. QED
    BY <1>1, <1>2, <1>4, <2>1, <2>2 DEF SlotInv, Reading
<1>7. QED
  BY <1>5, <1>6

LEMMA SlotCliFinish ==
  ASSUME SlotInv, TypeOK, NEW m \in Match, CliFinish(m)
  PROVE  SlotInv'
<1>1. /\ cli.writing /\ ~cli'.writing
      /\ aclIpv4Result' = [aclIpv4Result EXCEPT ![aclIpv4_index].next = cli.res.next]
      /\ UNCHANGED <<pc, seen>>
  BY DEF CliFinish, Idle
<1>2. ctxIpv4'[1] = ctxIpv4[1]
  <2> DEFINE R == [match : Match \cup {TestMatch}, userdata : 1 .. MaxRule, want : Result]
             r == [match |-> m, userdata |-> aclIpv4_index, want |-> cli.res]
  <2>1. ctxIpv4 \in Seq(R) /\ Len(ctxIpv4) \in 1 .. MaxRule /\ MaxRule \in Nat
    BY AclAssumption DEF TypeOK, AclTypeOK
  <2>2. ctxIpv4' = ctxIpv4 \/ ctxIpv4' = Append(ctxIpv4, r)
    BY DEF CliFinish, AddToCtx
  <2> HIDE DEF R, r
  <2>3. QED
    BY <2>1, <2>2
<1>3. aclIpv4Result \in [1 .. MaxRule -> Result] /\ TestSlot \in 1 .. MaxRule
      /\ TestValue \in Result
  BY AclAssumption DEF TypeOK, AclTypeOK, TestValue
<1>4. Current' = TestValue'
  BY <1>1 DEF Current, Writing
<1>5. TestValue' = Current
  <2>1. CASE aclIpv4_index = TestSlot
    <3>1. Current = cli.res /\ cli.res \in Result /\ TestValue.action = cli.res.action
      BY <1>1, <2>1 DEF Current, Writing, SlotInv, TypeOK
    <3>2. TestValue' = [TestValue EXCEPT !.next = cli.res.next]
      BY <1>1, <1>3, <2>1 DEF TestValue
    <3>3. QED
      BY <1>3, <3>1, <3>2 DEF Result
  <2>2. CASE aclIpv4_index # TestSlot
    BY <1>1, <1>3, <2>2 DEF TestValue, Current, Writing
  <2>3. QED
    BY <2>1, <2>2
<1>6. TestValue'.next \in {1, 255}
  BY <1>5, LegitFacts DEF SlotInv
<1>7. QED
  BY <1>1, <1>2, <1>4, <1>5, <1>6 DEF SlotInv, Reading

LEMMA SlotStep == TypeOK /\ SlotInv /\ [Next]_vars => SlotInv'
<1> SUFFICES ASSUME TypeOK, SlotInv, [Next]_vars PROVE SlotInv'
  OBVIOUS
<1>1. ASSUME NEW fs, Poll(fs) PROVE SlotInv'
  BY <1>1, SlotKept DEF Poll, Reading
<1>2. CASE Decide
  BY <1>2, SlotDecide
<1>3. CASE ReadDrop \/ ReadReject \/ ReadPass \/ ReadNext
  <2>1. /\ pc \in Reading /\ UNCHANGED <<cli, aclVars>>
        /\ pc' \in Reading => UNCHANGED seen
        /\ pc = "drop" /\ pc' \in Reading => Slot.action # "DROP"
    BY <1>3 DEF ReadDrop, ReadReject, ReadPass, ReadNext, Reading, FreeFrame, FrameDone
  <2>2. QED
    BY <2>1, SlotKept, SlotFacts
<1>4. CASE GetMeta \/ Enqueue
  BY <1>4, SlotKept DEF GetMeta, Enqueue, FreeFrame, FrameDone, Reading
<1>5. ASSUME NEW c, UserPoll(c) PROVE SlotInv'
  <2>1. UNCHANGED <<pc, seen, cli, aclVars>>
    BY <1>5 DEF UserPoll
  <2>2. QED
    BY <2>1, SlotKept
<1>6. CASE Cli
  BY <1>6, SlotCliStart, SlotCliFinish DEF Cli
<1>7. CASE UNCHANGED vars
  <2>1. UNCHANGED <<pc, seen, cli, aclVars>>
    BY <1>7 DEF vars, pathVars
  <2>2. QED
    BY <2>1, SlotKept
<1>8. QED
  BY <1>1, <1>2, <1>3, <1>4, <1>5, <1>6, <1>7 DEF Next, Parser

(* The fate of every frame is that of one value its slot had, or was being *)
(* given, while the parser read it, whatever the command line writes.      *)
THEOREM VerdictIsOneValue == Spec => VerdictFromSlot
<1> DEFINE A == pc \in Reading /\ pc' \notin Reading =>
                  \E v \in seen.held : FateOf(v) = Outcome
<1>1. TypeOK /\ SlotInv /\ [Next]_vars => [A]_vars
  <2> SUFFICES ASSUME TypeOK, SlotInv, Next, pc \in Reading, pc' \notin Reading
               PROVE  \E v \in seen.held : FateOf(v) = Outcome
    OBVIOUS
  <2>1. /\ Slot.action = Current.action /\ Slot.next \in {1, 255}
        /\ Current \in seen.held /\ Current \in Legit
    BY SlotFacts DEF SlotInv
  <2>2. Slot.action # "RJCT" /\ Slot.next # 0
    BY <2>1, LegitFacts
  <2>3. ReadDrop \/ ReadReject \/ ReadPass \/ ReadNext
    BY DEF Next, Parser, Poll, Decide, GetMeta, Enqueue, UserPoll, Cli, CliStart,
           CliFinish, Reading
  <2>4. CASE ReadDrop
    <3>1. Slot.action = "DROP" /\ FreeFrame /\ UNCHANGED rxfpCount
      BY <2>4 DEF ReadDrop, Reading
    <3>2. Outcome = "drop"
      BY <3>1 DEF Outcome, FreeFrame, FrameDone
    <3>3. FateOf(Current) = "drop"
      BY <2>1, <3>1, LegitFacts
    <3>4. QED
      BY <2>1, <3>2, <3>3
  <2>5. CASE ReadReject
    BY <2>2, <2>5 DEF ReadReject, Reading
  <2>6. CASE ReadPass \/ ReadNext
    <3>1. pc \in {"pass", "next"} /\ Outcome = "user"
      BY <2>2, <2>6 DEF ReadPass, ReadNext, Reading, Outcome
    <3>2. QED
      BY <3>1 DEF SlotInv
  <2>7. QED
    BY <2>3, <2>4, <2>5, <2>6
<1>2. Spec => [](TypeOK /\ SlotInv)
  <2>1. Spec => [](TypeOK /\ PoolsAddUp)
    BY InitTypes, TypeStep, PTL DEF Spec
  <2>2. QED
    BY <2>1, InitSlot, SlotStep, PTL DEF Spec
<1>3. Spec => [][A]_vars
  BY <1>1, <1>2, PTL DEF Spec
<1>4. QED
  BY <1>3 DEF VerdictFromSlot

=============================================================================
