------------------------------ MODULE FramePath ------------------------------
(***************************************************************************)
(* The data plane at work (frameparser.c, userRoutine.c): one lcore polls  *)
(* the ports, decodes each frame, looks it up in the ACL and frees it or   *)
(* hands it to one of two user threads, while the master lcore runs the    *)
(* command line, whose commands rewrite the slots the parser reads.        *)
(*                                                                         *)
(* Mbufs and metadata objects are counted, not named: only the parser      *)
(* takes and gives back mbufs.  What a user thread takes off its ring is   *)
(* the first word of an mbuf, the address of its buffer, since the enqueue *)
(* is given m where it wants &m; what the thread frees there is zeroed     *)
(* headroom, with no userdata and no reference, so nothing is given back.  *)
(* Every port map is PORTMAP_DROP and nothing writes one, which the test   *)
(* at the head of the loop takes for "not dropped".  ipv4_fragments is     *)
(* never set, and rulesSet always has an IPv4 bit, so those tests are not  *)
(* modelled.  Counters of slots are left out.                              *)
(***************************************************************************)
EXTENDS AclTables, FrameDecode, FiniteSets

CONSTANTS
  NumMbufs, NumMeta, (* NB_MBUF - 1 each: mbufs, metadata objects             *)
  RingSize,          (* RTE_RING_SIZE: a ring holds one element less: 16      *)
  MaxBurst,          (* MAX_PKT_BURST                                         *)
  PortAct,           (* pact: per port, the actions that are on               *)
  FrameIn,           (* the frames the network delivers                       *)
  MaxRx              (* bound of the model: frames delivered in all           *)

ASSUME PathAssumption ==
  /\ IsFiniteSet(Port) /\ Port # {} /\ Port = 0 .. Cardinality(Port) - 1
  /\ NumMbufs \in Nat \ {0} /\ NumMeta \in Nat
  /\ RingSize \in Nat \ {0, 1} /\ MaxBurst \in Nat \ {0}
  /\ PortAct \in [Port -> SUBSET {"DROP", "ACL"}]
  /\ FrameIn \subseteq Frame
  /\ MaxRx \in Nat

VARIABLES
  free,      (* mbufs in dp_pktmbuf_pool                                      *)
  meta,      (* objects in dp_metaDataPool                                    *)
  pc,        (* the parser's place in its loop                                *)
  i, burst,  (* the port it polls; the frames of the burst left to process    *)
  srb,       (* elements in the two rings                                     *)
  rxfpCount, (* counters of the parser                                        *)
  cli,       (* the slot update under way on the master lcore                 *)
  seen       (* not in the code, see below                                    *)

pathVars == <<free, meta, pc, i, burst, srb, rxfpCount, cli, seen>>
vars == <<pathVars, decodeVars, aclVars>>

-----------------------------------------------------------------------------
UserCore == {2, 3}
Ring     == {0, 1}
Stat     == {"pact_drop", "acl_Lkp", "acl_hit", "acl_miss", "st_fwd", "pfwd"}
Reading  == {"drop", "reject", "pass", "next"}
Place    == {"poll", "frame", "object", "enqueue"} \cup Reading
Idle     == [writing |-> FALSE, res |-> Unset, old |-> Unset]
CliResult == {[action |-> a, next |-> 255] : a \in {"DROP", "ALRT"}}

(* seen: frames received, ports that decoded an IPv4 frame, frames decoded *)
(* per port that are neither ARP nor fragments, the results of             *)
(* userFrameProcess (no counter of the code tells them apart), and the     *)
(* values the slot had since the parser began to read it.                  *)
Seen == [rx : Nat, ipv4 : SUBSET Port, countable : [Port -> Nat],
         handed : Nat, noMeta : Nat, full : Nat, held : SUBSET Result]

TypeOK ==
  /\ AclTypeOK /\ DecodeTypeOK
  /\ free \in 0 .. NumMbufs /\ meta \in 0 .. NumMeta
  /\ pc \in Place /\ i \in Port
  /\ burst \in Seq(FrameIn) /\ Len(burst) <= MaxBurst
  /\ pc = "poll" <=> burst = <<>>
  /\ srb \in [Ring -> 0 .. RingSize - 1]
  /\ rxfpCount \in [Stat -> Nat]
  /\ cli \in [writing : BOOLEAN, res : Result, old : Result]
  /\ cli.writing => aclIpv4_index <= MaxRule
  /\ seen \in Seen

Init ==
  /\ AclInit /\ DecodeInit
  /\ free = NumMbufs /\ meta = NumMeta
  /\ pc = "poll" /\ i = 0 /\ burst = <<>>
  /\ srb = [r \in Ring |-> 0]
  /\ rxfpCount = [s \in Stat |-> 0]
  /\ cli = Idle
  /\ seen = [rx |-> 0, ipv4 |-> {}, countable |-> [p \in Port |-> 0],
             handed |-> 0, noMeta |-> 0, full |-> 0, held |-> {}]

-----------------------------------------------------------------------------
(* The parser: frameParseSetup.                                            *)

NextPort == IF i + 1 \in Port THEN i + 1 ELSE 0

Counting(S) == rxfpCount' = [s \in Stat |-> rxfpCount[s] + (IF s \in S THEN 1 ELSE 0)]

(* On to the next frame of the burst, or to the next port.                 *)
FrameDone ==
  /\ burst' = Tail(burst)
  /\ \/ Tail(burst) # <<>> /\ pc' = "frame" /\ UNCHANGED i
     \/ Tail(burst) = <<>> /\ pc' = "poll" /\ i' = NextPort

FreeFrame == free' = free + 1 /\ FrameDone

(* rte_eth_rx_burst *)
Poll(fs) ==
  /\ pc = "poll"
  /\ Len(fs) <= free
  /\ seen.rx + Len(fs) <= MaxRx
  /\ burst' = fs /\ free' = free - Len(fs)
  /\ \/ fs = <<>> /\ i' = NextPort /\ UNCHANGED pc
     \/ fs # <<>> /\ pc' = "frame" /\ UNCHANGED i
  /\ seen' = [seen EXCEPT !.rx = @ + Len(fs)]
  /\ UNCHANGED <<meta, srb, rxfpCount, cli, decodeVars, aclVars>>

IsIp(md) == md.set \cap {"ipv4", "ipv6"} # {}

(* The default action of the port: the frame is freed either way.          *)
ByPortAction(S) ==
  /\ FreeFrame
  /\ Counting(S \cup {IF "DROP" \in PortAct[i] THEN "pact_drop" ELSE "pfwd"})

LookedUp(md) == IsIp(md) /\ "ACL" \in PortAct[i] /\ "ipv4" \in md.set

(* tableLookup_ipv4Rules_build has run once, before the command line: only *)
(* the test rule is in the trie.  A lookup compares two bytes nobody wrote *)
(* (ele[11], ele[13]), so that it may hit or miss whatever the frame.      *)
Trie == {ctxIpv4[1].userdata}

(* The value of the slot before the update under way, and what it becomes. *)
SlotWritten == cli.writing /\ aclIpv4_index \in Trie
SlotValues  == IF SlotWritten THEN {cli.old, cli.res}
               ELSE {aclIpv4Result[s] : s \in Trie}

IsFragment(f)  == f.ether = "ipv4" /\ f.frag
IsPlainIpv4(f) == f.ether = "ipv4" /\ ~f.frag

SeenDecoding(f, values) ==
  seen' = [seen EXCEPT
    !.ipv4 = IF IsPlainIpv4(f) THEN @ \cup {i} ELSE @,
    !.countable[i] = IF f.ether = "arp" \/ IsFragment(f) THEN @ ELSE @ + 1,
    !.held = values]

Decide ==
  /\ pc = "frame"
  /\ FrameDecode(i, Head(burst))
  /\ \/ /\ ~LookedUp(dp_metadata'[i])
        /\ ByPortAction({})
        /\ SeenDecoding(Head(burst), {})
     \/ /\ LookedUp(dp_metadata'[i])                      \* miss
        /\ ByPortAction({"acl_Lkp", "acl_miss"})
        /\ SeenDecoding(Head(burst), {})
     \/ /\ LookedUp(dp_metadata'[i])                      \* hit
        /\ Counting({"acl_Lkp", "acl_hit"})
        /\ pc' = "drop"
        /\ SeenDecoding(Head(burst), SlotValues)
        /\ UNCHANGED <<free, burst, i>>
  /\ UNCHANGED <<meta, srb, cli, aclVars>>

Slot == aclIpv4Result[CHOOSE s \in Trie : TRUE]

Judged == seen' = [seen EXCEPT !.held = {}]

(* Each test reads the slot again.                                         *)
ReadDrop ==
  /\ pc = "drop"
  /\ \/ Slot.action = "DROP" /\ FreeFrame /\ Judged
     \/ Slot.action # "DROP" /\ pc' = "reject" /\ UNCHANGED <<free, burst, i, seen>>
  /\ UNCHANGED <<meta, srb, rxfpCount, cli, decodeVars, aclVars>>

ReadReject ==
  /\ pc = "reject"
  /\ \/ Slot.action = "RJCT" /\ FreeFrame /\ Judged
     \/ Slot.action # "RJCT" /\ pc' = "pass" /\ UNCHANGED <<free, burst, i, seen>>
  /\ UNCHANGED <<meta, srb, rxfpCount, cli, decodeVars, aclVars>>

ReadPass ==
  /\ pc = "pass"
  /\ \/ Slot.action = "PASS" /\ pc' = "next" /\ UNCHANGED seen
     \/ Slot.action # "PASS" /\ pc' = "object" /\ Judged
  /\ UNCHANGED <<free, meta, i, burst, srb, rxfpCount, cli, decodeVars,
                 aclVars>>

ReadNext ==
  /\ pc = "next"
  /\ \/ Slot.next = 0 /\ FreeFrame /\ Counting({"pfwd"}) /\ Judged
     \/ /\ Slot.next # 0 /\ pc' = "object" /\ Judged
        /\ UNCHANGED <<free, burst, i, rxfpCount>>
  /\ UNCHANGED <<meta, srb, cli, decodeVars, aclVars>>

(* userFrameProcess: without a metadata object the frame is forgotten;     *)
(* when the ring is full the frame is freed and the object forgotten.      *)
RingOf(c) == IF c = 2 THEN 0 ELSE 1
ReceiverOf(p) == IF p % 2 = 1 THEN 3 ELSE 2

GetMeta ==
  /\ pc = "object"
  /\ \/ /\ meta = 0
        /\ FrameDone /\ Counting({"st_fwd"})
        /\ seen' = [seen EXCEPT !.noMeta = @ + 1]
        /\ UNCHANGED meta
     \/ /\ meta > 0
        /\ meta' = meta - 1 /\ pc' = "enqueue"
        /\ UNCHANGED <<burst, i, rxfpCount, seen>>
  /\ UNCHANGED <<free, srb, cli, decodeVars, aclVars>>

RoomForAll(r) == srb[r] <= RingSize - 1   (* mutant: off by one *)
HasRoom(r)    == srb[r] < RingSize - 1
EnqueueLeaks ==   (* mutant: a frame the full ring refuses is forgotten *)
  /\ pc = "enqueue"
  /\ LET r == RingOf(ReceiverOf(i)) IN
     \/ /\ HasRoom(r)
        /\ srb' = [srb EXCEPT ![r] = @ + 1]
        /\ seen' = [seen EXCEPT !.handed = @ + 1]
     \/ /\ ~HasRoom(r)
        /\ seen' = [seen EXCEPT !.full = @ + 1]
        /\ UNCHANGED srb
  /\ FrameDone /\ Counting({"st_fwd"})
  /\ UNCHANGED <<free, meta, cli, decodeVars, aclVars>>
Enqueue ==
  /\ pc = "enqueue"
  /\ LET r == RingOf(ReceiverOf(i)) IN
     \/ /\ HasRoom(r)
        /\ srb' = [srb EXCEPT ![r] = @ + 1]
        /\ seen' = [seen EXCEPT !.handed = @ + 1]
        /\ FrameDone
        /\ UNCHANGED free
     \/ /\ ~HasRoom(r)
        /\ seen' = [seen EXCEPT !.full = @ + 1]
        /\ FreeFrame
        /\ UNCHANGED srb
  /\ Counting({"st_fwd"})
  /\ UNCHANGED <<meta, cli, decodeVars, aclVars>>

Parser == \/ \E n \in 0 .. MaxBurst : \E fs \in [1 .. n -> FrameIn] : Poll(fs)
          \/ Decide \/ ReadDrop \/ ReadReject \/ ReadPass \/ ReadNext
          \/ GetMeta \/ Enqueue

-----------------------------------------------------------------------------
(* userThread: a poll takes all there is.  Frees and puts are of what is   *)
(* no mbuf, see above; setting the core's frequency is left out.           *)
FirstBuff(c) == 0   (* mutant: both cores read the first ring *)
CoreBuff(c)  == IF c = 2 THEN 0 ELSE 1

UserPoll(c) ==
  /\ srb[CoreBuff(c)] > 0
  /\ srb' = [srb EXCEPT ![CoreBuff(c)] = 0]
  /\ UNCHANGED <<free, meta, pc, i, burst, rxfpCount, cli, seen, decodeVars, aclVars>>

-----------------------------------------------------------------------------
(* The command line: updateAcl_ipv4Tcp field by field.  (RuleStore takes   *)
(* the same function in one step, since its commands run one at a time.)   *)
CliStart(res) ==
  /\ ~cli.writing /\ aclIpv4_index <= MaxRule
  /\ cli' = [writing |-> TRUE, res |-> res, old |-> aclIpv4Result[aclIpv4_index]]
  /\ aclIpv4Result' = [aclIpv4Result EXCEPT ![aclIpv4_index].action = res.action]
  /\ seen' = IF aclIpv4_index \in Trie /\ pc \in Reading
             THEN [seen EXCEPT !.held = @ \cup {res}] ELSE seen
  /\ UNCHANGED <<free, meta, pc, i, burst, srb, rxfpCount, decodeVars,
                 aclIpv4_index, ctxIpv4, tcp>>

CliFinish(m) ==
  /\ cli.writing
  /\ cli' = Idle
  /\ aclIpv4Result' = [aclIpv4Result EXCEPT ![aclIpv4_index].next = cli.res.next]
  /\ \/ /\ AddRefused
        /\ UNCHANGED <<ctxIpv4, aclIpv4_index, tcp>>
     \/ /\ ~AddRefused
        /\ AddToCtx(m, cli.res)
        /\ aclIpv4_index' = aclIpv4_index + 1
        /\ tcp' = (tcp + 1) % 256
  /\ UNCHANGED <<free, meta, pc, i, burst, srb, rxfpCount, seen,
                 decodeVars>>

Cli == (\E res \in CliResult : CliStart(res)) \/ (\E m \in Match : CliFinish(m))

Next == Parser \/ (\E c \in UserCore : UserPoll(c)) \/ Cli

(* The parser and the user threads loop on lcores of their own.            *)
Fairness == WF_vars(Parser) /\ \A c \in UserCore : WF_vars(UserPoll(c))

Spec == Init /\ [][Next]_vars /\ Fairness

-----------------------------------------------------------------------------
FateOf(v) == IF v.action \in {"DROP", "RJCT"} THEN "drop"
             ELSE IF v.action = "PASS" /\ v.next = 0 THEN "forward" ELSE "user"

Outcome == IF pc' = "object" THEN "user"
           ELSE IF rxfpCount' # rxfpCount THEN "forward" ELSE "drop"

(* Although the parser reads a slot up to four times while a command       *)
(* rewrites it field by field, the fate of a frame is that of one value    *)
(* the slot had, or was being given, while the frame was looked at.        *)
VerdictFromSlot ==
  [][(pc \in Reading /\ pc' \notin Reading) =>
       \E v \in seen.held : FateOf(v) = Outcome]_vars

(* Flags of a port are never cleared, so non-IP frames and fragments are   *)
(* looked up, too; but only once an IPv4 frame that is no fragment has     *)
(* come in through the same port.                                          *)
LookupsFollowIpv4 ==
  [][rxfpCount'["acl_Lkp"] > rxfpCount["acl_Lkp"] => i \in seen.ipv4']_vars

Counted(p) == LET c == dp_metadata[p].cnt IN
  c["ETH"] + c["IPv4"] + c["IPv6"] + c["ARP"] + c["TCP"] + c["UDP"] + c["ICMP"] + c["VLAN"]

(* Through stale protocols and tables of dummies, the parsers count every  *)
(* frame of a port in exactly one of its counters, ARP and fragments in    *)
(* none.                                                                   *)
FramesCountOnce == \A p \in Port : Counted(p) = seen.countable[p]

(* No handed-over frame and no metadata object ever comes back: the mbufs  *)
(* missing from the pool are those of the burst, those handed over and     *)
(* those forgotten for want of a metadata object.                          *)
PoolsAddUp ==
  /\ free + Len(burst) + seen.handed + seen.noMeta = NumMbufs
  /\ meta + seen.handed + seen.full + (IF pc = "enqueue" THEN 1 ELSE 0) = NumMeta

(* The parser waits for no user thread and the user threads for nobody:    *)
(* every burst ends, and every ring is emptied again and again.            *)
BurstsEnd == /\ burst # <<>> ~> burst = <<>>
             /\ \A r \in Ring : []<>(srb[r] = 0)

=============================================================================
