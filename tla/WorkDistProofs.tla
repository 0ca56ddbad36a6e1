--------------------------- MODULE WorkDistProofs ---------------------------
(***************************************************************************)
(* What the steps shared by the three distributors keep true, whatever     *)
(* places pc has in a variant.  In this order: sequences without           *)
(* repetition; types; the ownership of mbufs (a step takes a set of mbufs  *)
(* out of the places they are in and puts each into one place, and         *)
(* Redistribute shows that this keeps ownership); what is read of a packet *)
(* after its hand-over; queue_rx_add under lost updates; the counters of   *)
(* one lcore; the order of frames; the steps as steps of OrderedFlows; and *)
(* the invariants put together.                                            *)
(***************************************************************************)
EXTENDS WorkDist, SequenceTheorems, FiniteSetTheorems, TLAPS

-----------------------------------------------------------------------------
(* What taking the head, appending and splitting do to the elements of a   *)
(* sequence, of which those of a set G are in it only once                 *)

LEMMA RangeInSet ==
  \A S : \A s \in Seq(S) : Range(s) \subseteq S
BY LenProperties, ElementOfSeq DEF Range

LEMMA OnceIsInjective ==
  ASSUME NEW S, NEW s \in Seq(S), NEW G, S \subseteq G
  PROVE  Once(s, G) <=> IsInjective(s)
<1>1. \A i \in DOMAIN s : s[i] \in G
  BY LenProperties, ElementOfSeq
<1>2. QED BY <1>1 DEF Once, IsInjective

LEMMA TailOnce ==
  ASSUME NEW S, NEW s \in Seq(S), s # <<>>, NEW G, Once(s, G)
  PROVE  /\ Head(s) \in Range(s) /\ Head(s) \in S
         /\ Tail(s) \in Seq(S) /\ Range(Tail(s)) \subseteq Range(s)
         /\ Range(Tail(s)) \cap G = (Range(s) \cap G) \ {Head(s)}
         /\ Once(Tail(s), G)
<1>1. /\ Tail(s) \in Seq(S) /\ Head(s) \in S /\ Len(Tail(s)) = Len(s) - 1
      /\ \A i \in 1 .. Len(Tail(s)) : Tail(s)[i] = s[i + 1]
  BY HeadTailProperties
<1>2. Len(s) \in Nat \ {0} /\ DOMAIN s = 1 .. Len(s)
      /\ DOMAIN Tail(s) = 1 .. Len(s) - 1
  BY <1>1, LenProperties, EmptySeq
<1>3. Head(s) = s[1] /\ \A i \in 1 .. Len(s) - 1 : i + 1 \in 1 .. Len(s)
  BY <1>2
<1>4. Once(Tail(s), G)
  <2> SUFFICES ASSUME NEW i \in 1 .. Len(s) - 1, NEW j \in 1 .. Len(s) - 1,
                      Tail(s)[i] = Tail(s)[j], Tail(s)[i] \in G
               PROVE  i = j
    BY <1>2 DEF Once
  <2>1. s[i + 1] = s[j + 1] /\ s[i + 1] \in G
    BY <1>1, <1>2
  <2>2. i + 1 = j + 1
    BY <1>2, <1>3, <2>1 DEF Once
  <2>3. QED BY <1>2, <2>2
<1>5. Range(Tail(s)) = {s[i + 1] : i \in 1 .. Len(s) - 1}
  BY <1>1, <1>2 DEF Range
<1>6. Range(s) = {s[i] : i \in 1 .. Len(s)}
  BY <1>2 DEF Range
<1>7. ASSUME NEW e \in Range(s), e # s[1]
      PROVE  e \in Range(Tail(s))
  <2>1. PICK i \in 1 .. Len(s) : e = s[i]
    BY <1>6
  <2>2. i - 1 \in 1 .. Len(s) - 1 /\ i = (i - 1) + 1
    BY <2>1, <1>7, <1>2
  <2>3. QED BY <2>1, <2>2, <1>5
<1>8. ASSUME NEW e \in Range(Tail(s))
      PROVE  e \in Range(s) /\ (e \in G => e # s[1])
  <2>1. PICK i \in 1 .. Len(s) - 1 : e = s[i + 1]
    BY <1>8, <1>5
  <2>2. i + 1 \in 1 .. Len(s) /\ i + 1 # 1 /\ 1 \in 1 .. Len(s)
    BY <1>2
  <2>3. QED BY <2>1, <2>2, <1>2, <1>6 DEF Once
<1>9. Head(s) \in Range(s)
  BY <1>2, <1>3, <1>6
<1>10. QED BY <1>1, <1>3, <1>4, <1>7, <1>8, <1>9

LEMMA TailRange ==
  ASSUME NEW S, NEW s \in Seq(S), s # <<>>, IsInjective(s)
  PROVE  /\ Head(s) \in Range(s)
         /\ Range(Tail(s)) = Range(s) \ {Head(s)}
         /\ IsInjective(Tail(s))
         /\ Head(s) \in S
         /\ Tail(s) \in Seq(S)
<1>1. Once(s, S)
  BY OnceIsInjective
<1>2. /\ Head(s) \in Range(s) /\ Head(s) \in S
      /\ Tail(s) \in Seq(S) /\ Range(Tail(s)) \subseteq Range(s)
      /\ Range(Tail(s)) \cap S = (Range(s) \cap S) \ {Head(s)}
      /\ Once(Tail(s), S)
  BY <1>1, TailOnce
<1>3. Range(s) \subseteq S /\ IsInjective(Tail(s))
  BY <1>2, RangeInSet, OnceIsInjective
<1>4. QED BY <1>2, <1>3

LEMMA TailInRange ==
  ASSUME NEW S, NEW s \in Seq(S), s # <<>>
  PROVE  Head(s) \in Range(s) /\ Head(s) \in S /\ Range(Tail(s)) \subseteq Range(s)
<1>1. Once(s, {})
  BY DEF Once
<1>2. QED BY <1>1, TailOnce

LEMMA AppendOnce ==
  ASSUME NEW S, NEW s \in Seq(S), NEW e \in S, NEW G, Once(s, G),
         e \notin Range(s) \cap G
  PROVE  /\ Append(s, e) \in Seq(S)
         /\ Range(Append(s, e)) = Range(s) \cup {e}
         /\ Once(Append(s, e), G)
<1> DEFINE t == Append(s, e)
<1>1. /\ t \in Seq(S) /\ Len(t) = Len(s) + 1
      /\ \A i \in 1 .. Len(s) : t[i] = s[i]
      /\ t[Len(s) + 1] = e
  BY AppendProperties
<1>2. Len(s) \in Nat /\ DOMAIN s = 1 .. Len(s) /\ DOMAIN t = 1 .. Len(s) + 1
  BY <1>1, LenProperties
<1> HIDE DEF t
<1>3. \A i \in 1 .. Len(s) + 1 : i \in 1 .. Len(s) \/ i = Len(s) + 1
  BY <1>2
<1>4. Range(t) = Range(s) \cup {e}
  BY <1>1, <1>2, <1>3 DEF Range
<1>5. Once(t, G)
  <2>1. \A i \in 1 .. Len(s) : s[i] = e => e \notin G
    BY <1>2 DEF Range
  <2>2. QED BY <1>1, <1>2, <1>3, <2>1 DEF Once
<1>6. QED BY <1>1, <1>4, <1>5 DEF t

LEMMA AppendRange ==
  ASSUME NEW S, NEW s \in Seq(S), NEW e \in S
  PROVE  Range(Append(s, e)) = Range(s) \cup {e} /\ Append(s, e) \in Seq(S)
<1>1. Once(s, {})
  BY DEF Once
<1>2. QED BY <1>1, AppendOnce

LEMMA SplitLen ==
  ASSUME NEW S, NEW s \in Seq(S), NEW n \in 0 .. Len(s)
  PROVE  LET a == SubSeq(s, 1, n)
             b == SubSeq(s, n + 1, Len(s))
         IN  /\ a \in Seq(S) /\ Len(a) = n
             /\ \A i \in 1 .. n : a[i] = s[i]
             /\ b \in Seq(S) /\ Len(b) = Len(s) - n
             /\ \A i \in 1 .. Len(s) - n : b[i] = s[i + n]
<1> DEFINE a == SubSeq(s, 1, n)
           b == SubSeq(s, n + 1, Len(s))
<1>1. Len(s) \in Nat /\ DOMAIN s = 1 .. Len(s) /\ \A i \in 1 .. Len(s) : s[i] \in S
  BY LenProperties, ElementOfSeq
<1>2. /\ a \in Seq(S) /\ Len(a) = n
      /\ \A i \in 1 .. n : a[i] = s[i]
  BY <1>1, SubSeqProperties
<1>3. /\ b \in Seq(S) /\ Len(b) = Len(s) - n
      /\ \A i \in 1 .. Len(s) - n : b[i] = s[i + n]
  <2>1. n + 1 \in Int /\ Len(s) \in Int /\ \A i \in n + 1 .. Len(s) : s[i] \in S
    BY <1>1
  <2>2. /\ b \in Seq(S)
        /\ Len(b) = IF n + 1 <= Len(s) THEN Len(s) - (n + 1) + 1 ELSE 0
        /\ \A i \in 1 .. Len(s) - (n + 1) + 1 : b[i] = s[(n + 1) + i - 1]
    BY <2>1, SubSeqProperties
  <2> HIDE DEF b
  <2>0. Len(s) \in Int /\ n \in Int /\ 0 <= n /\ n <= Len(s)
    BY <1>1
  <2>3. Len(b) = Len(s) - n
    <3>1. CASE n + 1 <= Len(s)
      BY <3>1, <2>0, <2>2
    <3>2. CASE ~(n + 1 <= Len(s))
      <4>1. Len(b) = 0 BY <3>2, <2>2
      <4>2. Len(s) - n = 0 BY <3>2, <2>0
      <4>3. QED BY <4>1, <4>2
    <3>3. QED BY <3>1, <3>2
  <2>4. ASSUME NEW i \in 1 .. Len(s) - n
        PROVE  b[i] = s[i + n]
    <3>1. i \in 1 .. Len(s) - (n + 1) + 1 /\ (n + 1) + i - 1 = i + n
      BY <1>1
    <3>2. QED BY <2>2, <3>1
  <2>5. QED BY <2>2, <2>3, <2>4
<1>4. QED BY <1>2, <1>3

LEMMA SplitOnce ==
  ASSUME NEW S, NEW s \in Seq(S), NEW n \in 0 .. Len(s), NEW G, Once(s, G)
  PROVE  LET a == SubSeq(s, 1, n)
             b == SubSeq(s, n + 1, Len(s))
         IN  /\ a \in Seq(S) /\ b \in Seq(S)
             /\ Once(a, G) /\ Once(b, G)
             /\ Range(a) \subseteq Range(s) /\ Range(b) \subseteq Range(s)
             /\ Range(b) \cap G = (Range(s) \cap G) \ Range(a)
             /\ Len(a) = n /\ Len(b) = Len(s) - n
<1> DEFINE a == SubSeq(s, 1, n)
           b == SubSeq(s, n + 1, Len(s))
<1>1. Len(s) \in Nat /\ DOMAIN s = 1 .. Len(s) /\ \A i \in 1 .. Len(s) : s[i] \in S
  BY LenProperties, ElementOfSeq
<1>2. /\ a \in Seq(S) /\ Len(a) = n
      /\ \A i \in 1 .. n : a[i] = s[i]
  BY SplitLen
<1>3. /\ b \in Seq(S) /\ Len(b) = Len(s) - n
      /\ \A i \in 1 .. Len(s) - n : b[i] = s[i + n]
  BY SplitLen
<1>4. DOMAIN a = 1 .. n /\ DOMAIN b = 1 .. Len(s) - n
  BY <1>2, <1>3, LenProperties
<1>5. \A i \in 1 .. Len(s) - n : i + n \in 1 .. Len(s)
  BY <1>1
<1> HIDE DEF a, b
<1>6. Once(a, G) /\ Once(b, G)
  <2>1. \A i, j \in 1 .. Len(s) : s[i] = s[j] /\ s[i] \in G => i = j
    BY <1>1 DEF Once
  <2>2. \A i, j \in 1 .. n : a[i] = a[j] /\ a[i] \in G => i = j
    BY <1>1, <1>2, <2>1
  <2>3. ASSUME NEW i \in 1 .. Len(s) - n, NEW j \in 1 .. Len(s) - n,
               b[i] = b[j], b[i] \in G
        PROVE  i = j
    <3>1. s[i + n] = s[j + n] /\ s[i + n] \in G
      BY <2>3, <1>3
    <3>2. i + n = j + n
      BY <3>1, <2>1, <1>5
    <3>3. QED BY <3>2, <1>1
  <2>4. QED BY <1>4, <2>2, <2>3 DEF Once
<1>7. Range(a) \subseteq Range(s) /\ Range(b) \subseteq Range(s)
  <2>1. \A i \in 1 .. n : i \in 1 .. Len(s)
    BY <1>1
  <2>2. Range(a) \subseteq Range(s)
    BY <1>1, <1>2, <1>4, <2>1 DEF Range
  <2>3. Range(b) \subseteq Range(s)
    BY <1>1, <1>3, <1>4, <1>5 DEF Range
  <2>4. QED BY <2>2, <2>3
<1>8. ASSUME NEW e \in Range(b), e \in G
      PROVE  e \notin Range(a)
  <2>1. PICK i \in 1 .. Len(s) - n : e = s[i + n]
    BY <1>3, <1>4 DEF Range
  <2>2. \A j \in 1 .. n : s[j] # e
    BY <1>1, <1>5, <1>8, <2>1 DEF Once
  <2>3. QED BY <1>1, <1>2, <1>4, <2>2 DEF Range
<1>9. ASSUME NEW e \in Range(s), e \notin Range(a)
      PROVE  e \in Range(b)
  <2>1. PICK i \in 1 .. Len(s) : e = s[i]
    BY <1>1 DEF Range
  <2>2. i \notin 1 .. n
    BY <1>9, <1>2, <1>4, <2>1 DEF Range
  <2>3. i - n \in 1 .. Len(s) - n /\ i = (i - n) + n
    BY <1>1, <2>2
  <2>4. QED BY <1>3, <1>4, <2>1, <2>3 DEF Range
<1>10. QED BY <1>2, <1>3, <1>6, <1>7, <1>8, <1>9 DEF a, b

LEMMA SplitRange ==
  ASSUME NEW S, NEW s \in Seq(S), NEW n \in 0 .. Len(s), IsInjective(s)
  PROVE  LET a == SubSeq(s, 1, n)
             b == SubSeq(s, n + 1, Len(s))
         IN  /\ a \in Seq(S) /\ b \in Seq(S)
             /\ IsInjective(a) /\ IsInjective(b)
             /\ Range(a) \subseteq Range(s)
             /\ Range(b) = Range(s) \ Range(a)
             /\ Len(a) = n /\ Len(b) = Len(s) - n
<1> DEFINE a == SubSeq(s, 1, n)
           b == SubSeq(s, n + 1, Len(s))
<1>1. Once(s, S)
  BY OnceIsInjective
<1>2. /\ a \in Seq(S) /\ b \in Seq(S)
      /\ Once(a, S) /\ Once(b, S)
      /\ Range(a) \subseteq Range(s) /\ Range(b) \subseteq Range(s)
      /\ Range(b) \cap S = (Range(s) \cap S) \ Range(a)
      /\ Len(a) = n /\ Len(b) = Len(s) - n
  BY <1>1, SplitOnce
<1> HIDE DEF a, b
<1>3. Range(s) \subseteq S /\ IsInjective(a) /\ IsInjective(b)
  BY <1>2, RangeInSet, OnceIsInjective
<1>4. QED BY <1>2, <1>3 DEF a, b

-----------------------------------------------------------------------------
(* The types: those of the shared steps, whatever places Pc a variant adds *)

RxStats  == [ipv4 : Nat, nonIp : Nat, dropped : Nat]
WrkStats == [fet : Nat, drp : Nat, fls : Nat]

LEMMA StatTypes ==
  /\ \A s \in RxStats : /\ [s EXCEPT !.ipv4 = @ + 1] \in RxStats
                        /\ [s EXCEPT !.nonIp = @ + 1] \in RxStats
  /\ \A s \in WrkStats, n \in Nat : /\ [s EXCEPT !.fet = @ + n] \in WrkStats
                                    /\ [s EXCEPT !.drp = @ + 1] \in WrkStats
                                    /\ [s EXCEPT !.fls = @ + 1] \in WrkStats
BY DEF RxStats, WrkStats

LEMMA InitTypeOK ==
  ASSUME NEW Pc, "next" \in Pc, Init
  PROVE  TypeOKWith(Pc)
<1>1. Fifo # {} /\ 0 \in Fifo
  BY WorkDistAssumption DEF Fifo
<1>2. QED
  BY <1>1, WorkDistAssumption
     DEF Init, TypeOKWith, SharedPc, Packet, Kind, Handover, Idle

LEMMA FinishPutType ==
  ASSUME pool \subseteq MBuf, spoiled \subseteq Port, NEW S, S \subseteq MBuf,
         NEW others, FinishPut(S, others)
  PROVE  pool' \subseteq MBuf /\ spoiled' \subseteq Port
BY WorkDistAssumption DEF FinishPut, Contended

LEMMA IdleType == \A f \in Fifo, c \in {"drp", "none"} :
                    [Idle EXCEPT !.ctr = c, !.fifo = f] \in Handover /\ Idle \in Handover
<1>1. 0 \in Fifo
  BY WorkDistAssumption DEF Fifo
<1>2. QED BY <1>1 DEF Idle, Handover, Packet, Kind

LEMMA RxFreedType ==
  ASSUME NEW Pc, SharedPc \subseteq Pc, TypeOKWith(Pc), NEW p \in Port, RxFreed(p)
  PROVE  TypeOKWith(Pc)'
<1> USE DEF TypeOKWith
<1>1. pool' \subseteq MBuf /\ spoiled' \subseteq Port
  BY FinishPutType DEF RxFreed
<1>2. putRx' \in [Port -> SUBSET MBuf]
  BY DEF RxFreed
<1>3. pc' \in [Port -> Pc]
  BY DEF RxFreed, SharedPc
<1>4. QED BY <1>1, <1>2, <1>3 DEF RxFreed

LEMMA WrkFreedType ==
  ASSUME NEW Pc, SharedPc \subseteq Pc, TypeOKWith(Pc), NEW f \in Fifo, WrkFreed(f)
  PROVE  TypeOKWith(Pc)'
<1> USE DEF TypeOKWith
<1>1. pool' \subseteq MBuf /\ spoiled' \subseteq Port
  BY FinishPutType DEF WrkFreed
<1>2. putWrk' \in [Fifo -> SUBSET MBuf]
  BY DEF WrkFreed
<1>3. QED BY <1>1, <1>2 DEF WrkFreed, rxVars, wrkVars

(* A burst from the NIC: the mbufs it fills and what they hold afterwards. *)
LEMMA RxBurstFills ==
  ASSUME pool \subseteq MBuf, NEW p \in Port, arrived[p] \in Nat, RxBurstOf(p)
  PROVE  \E k \in Nat \ {0}, ms \in Seq(MBuf) :
           /\ Len(ms) = k /\ DOMAIN ms = 1 .. k
           /\ arrived[p] + k <= MaxRx[p]
           /\ \A m \in Range(ms) : Home[m] = p
           /\ p \notin spoiled => IsInjective(ms) /\ Range(ms) \subseteq pool
           /\ bufs' = [bufs EXCEPT ![p] = ms]
           /\ arrived' = [arrived EXCEPT ![p] = @ + k]
           /\ pool' = pool \ Range(ms)
           /\ pkt' = [m \in MBuf |-> pkt'[m]]
           /\ \A m \in MBuf \ Range(ms) : pkt'[m] = pkt[m]
           /\ \A m \in Range(ms) :
                \E i \in 1 .. k : /\ ms[i] = m /\ pkt'[m] \in Packet
                                  /\ pkt'[m].n = arrived[p] + i
<1>1. PICK k \in 1 .. RxBurst :
        /\ arrived[p] + k <= MaxRx[p]
        /\ \E ms \in BurstMBufs(p, k), kinds \in [1 .. k -> Kind] :
             /\ \E at \in [Range(ms) -> 1 .. k] :
                  /\ \A m \in Range(ms) : ms[at[m]] = m
                  /\ pkt' = Filled(p, ms, kinds, at)
             /\ bufs' = [bufs EXCEPT ![p] = ms]
             /\ pool' = pool \ Range(ms)
        /\ arrived' = [arrived EXCEPT ![p] = @ + k]
  BY DEF RxBurstOf
<1>2. PICK ms \in BurstMBufs(p, k), kinds \in [1 .. k -> Kind] :
        /\ \E at \in [Range(ms) -> 1 .. k] :
             /\ \A m \in Range(ms) : ms[at[m]] = m
             /\ pkt' = Filled(p, ms, kinds, at)
        /\ bufs' = [bufs EXCEPT ![p] = ms]
        /\ pool' = pool \ Range(ms)
  BY <1>1
<1>3. PICK at \in [Range(ms) -> 1 .. k] : /\ \A m \in Range(ms) : ms[at[m]] = m
                                         /\ pkt' = Filled(p, ms, kinds, at)
  BY <1>2
<1>4. k \in Nat \ {0}
  BY WorkDistAssumption
<1>5. /\ ms \in [1 .. k -> MBuf] /\ DOMAIN ms = 1 .. k
      /\ \A i \in 1 .. k : Home[ms[i]] = p
      /\ p \notin spoiled => IsInjective(ms) /\ \A i \in 1 .. k : ms[i] \in pool
  BY DEF BurstMBufs, FreeOf
<1>6. ms \in Seq(MBuf) /\ Len(ms) = k
  <2>1. ms \in Seq(MBuf)
    BY <1>4, <1>5, SeqDef
  <2>2. QED BY <1>4, <1>5, <2>1, LenProperties
<1>7. \A m \in Range(ms) : Home[m] = p
  BY <1>5 DEF Range
<1>8. p \notin spoiled => IsInjective(ms) /\ Range(ms) \subseteq pool
  BY <1>5 DEF Range
<1>9. /\ pkt' = [m \in MBuf |-> pkt'[m]]
      /\ \A m \in MBuf \ Range(ms) : pkt'[m] = pkt[m]
  BY <1>3 DEF Filled
<1>10. ASSUME NEW m \in Range(ms)
       PROVE  \E i \in 1 .. k : /\ ms[i] = m /\ pkt'[m] \in Packet
                                /\ pkt'[m].n = arrived[p] + i
  <2>1. m \in MBuf
    BY <1>5 DEF Range
  <2>2. at[m] \in 1 .. k /\ ms[at[m]] = m
    BY <1>3
  <2>3. pkt'[m] = [flow |-> kinds[at[m]], n |-> arrived[p] + at[m]]
    BY <1>3, <2>1 DEF Filled
  <2>4. kinds[at[m]] \in Kind /\ arrived[p] + at[m] \in Nat
    BY <1>4, <2>2
  <2>5. QED BY <2>2, <2>3, <2>4 DEF Packet
<1>11. QED BY <1>1, <1>2, <1>4, <1>5, <1>6, <1>7, <1>8, <1>9, <1>10

LEMMA RxBurstType ==
  ASSUME NEW Pc, SharedPc \subseteq Pc, TypeOKWith(Pc), NEW p \in Port, RxBurstOf(p)
  PROVE  TypeOKWith(Pc)'
<1> USE DEF TypeOKWith
<1>1. \A q \in Port : MaxRx[q] \in Nat /\ arrived[q] \in Nat
  BY WorkDistAssumption
<1>2. PICK k \in Nat \ {0}, ms \in Seq(MBuf) :
        /\ arrived[p] + k <= MaxRx[p]
        /\ bufs' = [bufs EXCEPT ![p] = ms]
        /\ arrived' = [arrived EXCEPT ![p] = @ + k]
        /\ pool' = pool \ Range(ms)
        /\ pkt' = [m \in MBuf |-> pkt'[m]]
        /\ \A m \in MBuf \ Range(ms) : pkt'[m] = pkt[m]
        /\ \A m \in Range(ms) : pkt'[m] \in Packet
  BY <1>1, RxBurstFills
<1>3. arrived' \in [Port -> Nat] /\ \A q \in Port : arrived'[q] <= MaxRx[q]
  BY <1>1, <1>2
<1>4. bufs' \in [Port -> Seq(MBuf)]
  BY <1>2
<1>5. pkt' \in [MBuf -> Packet]
  <2>1. \A m \in MBuf : pkt'[m] \in Packet
    BY <1>2
  <2>2. QED BY <1>2, <2>1
<1>6. pool' \subseteq MBuf
  BY <1>2
<1>7. UNCHANGED <<spoiled, pc, given, ring, ptr, txq, putRx, putWrk, rxStat,
                  rxQueue, wrkStat, last>>
  BY DEF RxBurstOf, wrkVars
<1>8. QED BY <1>3, <1>4, <1>5, <1>6, <1>7

LEMMA StartFreeType ==
  ASSUME NEW Pc, SharedPc \subseteq Pc, TypeOKWith(Pc), NEW p \in Port, NEW f \in Fifo, NEW c \in {"drp", "none"},
         bufs[p] # <<>>, StartFree(p, c, f)
  PROVE  /\ bufs' \in [Port -> Seq(MBuf)]
         /\ putRx' \in [Port -> SUBSET MBuf]
         /\ given' \in [Port -> Handover]
         /\ pc' \in [Port -> Pc]
<1> USE DEF TypeOKWith
<1>1. Head(bufs[p]) \in MBuf /\ Tail(bufs[p]) \in Seq(MBuf)
  BY HeadTailProperties
<1>2. [Idle EXCEPT !.ctr = c, !.fifo = f] \in Handover
  BY IdleType
<1>3. bufs' \in [Port -> Seq(MBuf)]
  BY <1>1 DEF StartFree
<1>4. putRx' \in [Port -> SUBSET MBuf]
  BY <1>1 DEF StartFree
<1>5. given' \in [Port -> Handover]
  BY <1>2 DEF StartFree
<1>6. pc' \in [Port -> Pc]
  BY DEF StartFree, SharedPc
<1>7. QED BY <1>3, <1>4, <1>5, <1>6

LEMMA DropNonIpType ==
  ASSUME NEW Pc, SharedPc \subseteq Pc, TypeOKWith(Pc), NEW p \in Port, DropNonIp(p)
  PROVE  TypeOKWith(Pc)'
<1>1. 0 \in Fifo
  BY WorkDistAssumption DEF Fifo
<1>2. /\ bufs' \in [Port -> Seq(MBuf)] /\ putRx' \in [Port -> SUBSET MBuf]
      /\ given' \in [Port -> Handover] /\ pc' \in [Port -> Pc]
  BY <1>1, StartFreeType DEF DropNonIp
<1>3. rxStat' \in [Port -> RxStats]
  <2>1. rxStat \in [Port -> RxStats]
    BY DEF TypeOKWith, RxStats
  <2>2. rxStat' = [rxStat EXCEPT ![p] = [rxStat[p] EXCEPT !.nonIp = @ + 1]]
    BY DEF DropNonIp
  <2>3. QED BY <2>1, <2>2, StatTypes
<1>4. UNCHANGED <<pool, spoiled, pkt, arrived, ring, ptr, txq, putWrk, rxQueue, wrkStat, last>>
  BY DEF DropNonIp, memVars, wrkVars
<1>5. QED BY <1>2, <1>3, <1>4 DEF TypeOKWith, RxStats

LEMMA LoadStoreType ==
  ASSUME NEW Pc, SharedPc \subseteq Pc, TypeOKWith(Pc), NEW p \in Port, LoadCounter(p) \/ StoreCounter(p),
         given[p].ctr # "none"
  PROVE  TypeOKWith(Pc)'
<1> USE DEF TypeOKWith
<1>1. /\ given[p] \in Handover /\ given[p].ctr \in {"add", "drp"}
      /\ given[p].fifo \in Fifo /\ given[p].val \in Nat
  BY DEF Handover
<1>2. UNCHANGED <<pool, spoiled, pkt, arrived, bufs, ring, ptr, txq, putRx, putWrk,
                  rxStat, wrkStat, last>>
  BY DEF LoadCounter, StoreCounter, memVars, wrkVars
<1>3. pc' \in [Port -> Pc]
  BY DEF LoadCounter, StoreCounter, SharedPc
<1>4. CASE LoadCounter(p)
  <2>1. rxQueue[given[p].ctr][given[p].fifo] \in Nat
    BY <1>1
  <2>2. given' \in [Port -> Handover]
    BY <1>1, <1>4, <2>1 DEF LoadCounter, Handover
  <2>3. QED BY <1>2, <1>3, <1>4, <2>2 DEF LoadCounter
<1>5. CASE StoreCounter(p)
  <2> DEFINE c == given[p].ctr
             f == given[p].fifo
             v == given[p].val + 1
  <2>1. c \in {"add", "drp"} /\ f \in Fifo /\ v \in Nat
    BY <1>1
  <2>2. rxQueue' = [rxQueue EXCEPT ![c][f] = v]
    BY <1>5 DEF StoreCounter
  <2> HIDE DEF c, f, v
  <2>3. rxQueue' \in [{"add", "drp"} -> [Fifo -> Nat]]
    BY <2>1, <2>2
  <2>4. given' \in [Port -> Handover]
    <3>1. 0 \in Fifo
      BY WorkDistAssumption DEF Fifo
    <3>2. Idle \in Handover
      BY <3>1, IdleType
    <3>3. QED BY <1>5, <3>2 DEF StoreCounter
  <2>5. QED BY <1>2, <1>3, <2>3, <2>4
<1>6. QED BY <1>4, <1>5

LEMMA FetchBurstType ==
  ASSUME NEW Pc, SharedPc \subseteq Pc, TypeOKWith(Pc), NEW f \in Fifo, FetchBurst(f)
  PROVE  TypeOKWith(Pc)'
<1> DEFINE n == BurstLen(f)
<1>1. /\ ring \in [Fifo -> Seq(MBuf)] /\ ptr \in [Fifo -> Seq(MBuf)]
      /\ wrkStat \in [Fifo -> WrkStats]
  BY DEF TypeOKWith, WrkStats
<1>2. n \in 0 .. Len(ring[f])
  <2>1. Len(ring[f]) \in Nat
    BY <1>1, LenProperties
  <2>2. QED BY <2>1, WorkDistAssumption DEF BurstLen
<1>3. /\ ptr' = [ptr EXCEPT ![f] = SubSeq(ring[f], 1, n)]
      /\ ring' = [ring EXCEPT ![f] = SubSeq(ring[f], n + 1, Len(ring[f]))]
      /\ wrkStat' = [wrkStat EXCEPT ![f] = [wrkStat[f] EXCEPT !.fet = @ + n]]
      /\ UNCHANGED <<pool, spoiled, pkt, arrived, bufs, pc, given, txq, putRx, putWrk,
                     rxStat, rxQueue, last>>
  BY DEF FetchBurst, CountFetched, memVars, rxVars
<1> HIDE DEF n
<1>4. Len(ring[f]) \in Nat /\ n \in Nat
  BY <1>1, <1>2, LenProperties
<1>5. /\ SubSeq(ring[f], 1, n) \in Seq(MBuf)
      /\ SubSeq(ring[f], n + 1, Len(ring[f])) \in Seq(MBuf)
  <2>1. ring[f] \in Seq(MBuf)
    BY <1>1
  <2>2. \A i \in 1 .. Len(ring[f]) : ring[f][i] \in MBuf
    BY <2>1, ElementOfSeq
  <2>3. QED BY <1>2, <1>4, <2>1, <2>2, SubSeqProperties
<1>6. ptr' \in [Fifo -> Seq(MBuf)] /\ ring' \in [Fifo -> Seq(MBuf)]
  BY <1>1, <1>3, <1>5
<1>7. wrkStat' \in [Fifo -> WrkStats]
  BY <1>1, <1>3, <1>4, StatTypes
<1>8. QED BY <1>3, <1>6, <1>7 DEF TypeOKWith, WrkStats

LEMMA TransmitType ==
  ASSUME NEW Pc, SharedPc \subseteq Pc, TypeOKWith(Pc), NEW f \in Fifo, Transmit(f)
  PROVE  TypeOKWith(Pc)'
<1> DEFINE m == Head(ptr[f])
<1>1. /\ ptr \in [Fifo -> Seq(MBuf)] /\ txq \in [Fifo -> SUBSET MBuf]
      /\ putWrk \in [Fifo -> SUBSET MBuf] /\ wrkStat \in [Fifo -> WrkStats]
      /\ last \in [Port \X Flow -> Nat] /\ pkt \in [MBuf -> Packet]
  BY DEF TypeOKWith, WrkStats
<1>2. ptr[f] # <<>> /\ ptr' = [ptr EXCEPT ![f] = Tail(ptr[f])]
      /\ UNCHANGED <<pool, spoiled, pkt, arrived, bufs, pc, given, ring, putRx,
                     rxStat, rxQueue>>
  BY DEF Transmit, memVars, rxVars
<1>3. m \in MBuf /\ Tail(ptr[f]) \in Seq(MBuf)
  BY <1>1, <1>2, HeadTailProperties
<1>4. pkt[m].n \in Nat
  BY <1>1, <1>3 DEF Packet
<1>5. PICK done \in SUBSET TxQueue(f, Home[m]) :
        \/ /\ txq' = [txq EXCEPT ![f] = (txq[f] \ done) \cup {m}]
           /\ putWrk' = [putWrk EXCEPT ![f] = done]
           /\ wrkStat' = [wrkStat EXCEPT ![f] = [wrkStat[f] EXCEPT !.fls = @ + 1]]
           /\ last' = [last EXCEPT ![<<Home[m], pkt[m].flow>>] = pkt[m].n]
        \/ /\ txq' = [txq EXCEPT ![f] = txq[f] \ done]
           /\ putWrk' = [putWrk EXCEPT ![f] = done \cup {m}]
           /\ wrkStat' = [wrkStat EXCEPT ![f] = [wrkStat[f] EXCEPT !.drp = @ + 1]]
           /\ last' = last
  BY DEF Transmit
<1> HIDE DEF m
<1>6. done \subseteq MBuf /\ txq[f] \ done \subseteq MBuf
  BY <1>1 DEF TxQueue
<1>7. ptr' \in [Fifo -> Seq(MBuf)]
  BY <1>1, <1>2, <1>3
<1>8. CASE /\ txq' = [txq EXCEPT ![f] = (txq[f] \ done) \cup {m}]
           /\ putWrk' = [putWrk EXCEPT ![f] = done]
           /\ wrkStat' = [wrkStat EXCEPT ![f] = [wrkStat[f] EXCEPT !.fls = @ + 1]]
           /\ last' = [last EXCEPT ![<<Home[m], pkt[m].flow>>] = pkt[m].n]
  <2>1. txq' \in [Fifo -> SUBSET MBuf]
    BY <1>1, <1>3, <1>6, <1>8
  <2>2. putWrk' \in [Fifo -> SUBSET MBuf]
    BY <1>1, <1>6, <1>8
  <2>3. wrkStat' \in [Fifo -> WrkStats]
    BY <1>1, <1>8, StatTypes
  <2>4. last' \in [Port \X Flow -> Nat]
    BY <1>1, <1>4, <1>8
  <2>5. QED BY <1>2, <1>7, <2>1, <2>2, <2>3, <2>4 DEF TypeOKWith, WrkStats
<1>9. CASE /\ txq' = [txq EXCEPT ![f] = txq[f] \ done]
           /\ putWrk' = [putWrk EXCEPT ![f] = done \cup {m}]
           /\ wrkStat' = [wrkStat EXCEPT ![f] = [wrkStat[f] EXCEPT !.drp = @ + 1]]
           /\ last' = last
  <2>1. txq' \in [Fifo -> SUBSET MBuf]
    BY <1>1, <1>6, <1>9
  <2>2. putWrk' \in [Fifo -> SUBSET MBuf]
    BY <1>1, <1>3, <1>6, <1>9
  <2>3. wrkStat' \in [Fifo -> WrkStats]
    BY <1>1, <1>9, StatTypes
  <2>4. QED BY <1>1, <1>2, <1>7, <1>9, <2>1, <2>2, <2>3 DEF TypeOKWith, WrkStats
<1>10. QED BY <1>5, <1>8, <1>9

-----------------------------------------------------------------------------
(* Ownership of the mbufs *)

(* The part of the types that the ownership argument needs.                *)
MemType ==
  /\ pool \subseteq MBuf
  /\ bufs \in [Port -> Seq(MBuf)]
  /\ ring \in [Fifo -> Seq(MBuf)]
  /\ ptr \in [Fifo -> Seq(MBuf)]
  /\ txq \in [Fifo -> SUBSET MBuf]
  /\ putRx \in [Port -> SUBSET MBuf]
  /\ putWrk \in [Fifo -> SUBSET MBuf]

(* The mbufs of G are in one place each, once.  A step is shown to keep    *)
(* this for a fixed G, the mbufs still intact after it: the mbufs of       *)
(* spoiled pools may be anywhere, at the same time and more than once.     *)
OwnOn(G) == Disjoint(G) /\ NoRepeat(G) /\ NoLeak(G)

On(G, x) == At(x) \cap G

LEMMA OwnOnSubset ==
  ASSUME NEW G, OwnOn(G), NEW H, H \subseteq G
  PROVE  OwnOn(H)
BY DEF OwnOn, Disjoint, NoRepeat, Once, NoLeak

LEMMA PlaceCases ==
  ASSUME NEW x \in Place
  PROVE  \/ x = <<"pool", 0>>
         \/ \E p \in Port : x = <<"bufs", p>> \/ x = <<"putRx", p>>
         \/ \E f \in Fifo : \/ x = <<"ring", f>> \/ x = <<"ptr", f>>
                            \/ x = <<"txq", f>> \/ x = <<"putWrk", f>>
BY DEF Place

LEMMA AtPlace ==
  /\ At(<<"pool", 0>>) = pool
  /\ \A p \in Port : At(<<"bufs", p>>) = Range(bufs[p]) /\ At(<<"putRx", p>>) = putRx[p]
  /\ \A f \in Fifo : /\ At(<<"ring", f>>) = Range(ring[f])
                     /\ At(<<"ptr", f>>) = Range(ptr[f])
                     /\ At(<<"txq", f>>) = txq[f]
                     /\ At(<<"putWrk", f>>) = putWrk[f]
BY DEF At

LEMMA PlaceMembers ==
  /\ <<"pool", 0>> \in Place
  /\ \A p \in Port : <<"bufs", p>> \in Place /\ <<"putRx", p>> \in Place
  /\ \A f \in Fifo : /\ <<"ring", f>> \in Place /\ <<"ptr", f>> \in Place
                     /\ <<"txq", f>> \in Place /\ <<"putWrk", f>> \in Place
BY DEF Place

LEMMA AtPlaceNext ==
  /\ At(<<"pool", 0>>)' = pool'
  /\ \A p \in Port : At(<<"bufs", p>>)' = Range(bufs'[p]) /\ At(<<"putRx", p>>)' = putRx'[p]
  /\ \A f \in Fifo : /\ At(<<"ring", f>>)' = Range(ring'[f])
                     /\ At(<<"ptr", f>>)' = Range(ptr'[f])
                     /\ At(<<"txq", f>>)' = txq'[f]
                     /\ At(<<"putWrk", f>>)' = putWrk'[f]
BY DEF At

(* A place whose variable a step leaves alone keeps its mbufs.  T is the   *)
(* set of places the step touches.                                         *)
LEMMA Frame ==
  ASSUME NEW T,
         <<"pool", 0>> \in T \/ pool' = pool,
         \A p \in Port : <<"bufs", p>> \in T \/ bufs'[p] = bufs[p],
         \A p \in Port : <<"putRx", p>> \in T \/ putRx'[p] = putRx[p],
         \A f \in Fifo : <<"ring", f>> \in T \/ ring'[f] = ring[f],
         \A f \in Fifo : <<"ptr", f>> \in T \/ ptr'[f] = ptr[f],
         \A f \in Fifo : <<"txq", f>> \in T \/ txq'[f] = txq[f],
         \A f \in Fifo : <<"putWrk", f>> \in T \/ putWrk'[f] = putWrk[f]
  PROVE  \A z \in Place \ T : At(z)' = At(z)
<1> SUFFICES ASSUME NEW z \in Place, z \notin T
             PROVE  At(z)' = At(z)
  OBVIOUS
<1>1. CASE z = <<"pool", 0>>
  BY <1>1, AtPlace, AtPlaceNext
<1>2. ASSUME NEW p \in Port, z = <<"bufs", p>>
      PROVE  At(z)' = At(z)
  <2>1. At(z)' = Range(bufs'[p])
    BY <1>2, AtPlaceNext
  <2>2. At(z) = Range(bufs[p])
    BY <1>2, AtPlace
  <2>3. bufs'[p] = bufs[p]
    BY <1>2
  <2>4. QED BY <2>1, <2>2, <2>3
<1>3. ASSUME NEW p \in Port, z = <<"putRx", p>>
      PROVE  At(z)' = At(z)
  <2>1. At(z)' = putRx'[p]
    BY <1>3, AtPlaceNext
  <2>2. At(z) = putRx[p]
    BY <1>3, AtPlace
  <2>3. putRx'[p] = putRx[p]
    BY <1>3
  <2>4. QED BY <2>1, <2>2, <2>3
<1>4. ASSUME NEW f \in Fifo, z = <<"ring", f>>
      PROVE  At(z)' = At(z)
  <2>1. At(z)' = Range(ring'[f])
    BY <1>4, AtPlaceNext
  <2>2. At(z) = Range(ring[f])
    BY <1>4, AtPlace
  <2>3. ring'[f] = ring[f]
    BY <1>4
  <2>4. QED BY <2>1, <2>2, <2>3
<1>5. ASSUME NEW f \in Fifo, z = <<"ptr", f>>
      PROVE  At(z)' = At(z)
  <2>1. At(z)' = Range(ptr'[f])
    BY <1>5, AtPlaceNext
  <2>2. At(z) = Range(ptr[f])
    BY <1>5, AtPlace
  <2>3. ptr'[f] = ptr[f]
    BY <1>5
  <2>4. QED BY <2>1, <2>2, <2>3
<1>6. ASSUME NEW f \in Fifo, z = <<"txq", f>>
      PROVE  At(z)' = At(z)
  <2>1. At(z)' = txq'[f]
    BY <1>6, AtPlaceNext
  <2>2. At(z) = txq[f]
    BY <1>6, AtPlace
  <2>3. txq'[f] = txq[f]
    BY <1>6
  <2>4. QED BY <2>1, <2>2, <2>3
<1>7. ASSUME NEW f \in Fifo, z = <<"putWrk", f>>
      PROVE  At(z)' = At(z)
  <2>1. At(z)' = putWrk'[f]
    BY <1>7, AtPlaceNext
  <2>2. At(z) = putWrk[f]
    BY <1>7, AtPlace
  <2>3. putWrk'[f] = putWrk[f]
    BY <1>7
  <2>4. QED BY <2>1, <2>2, <2>3
<1>8. QED BY <1>1, <1>2, <1>3, <1>4, <1>5, <1>6, <1>7, PlaceCases

(* Out leaves the places it is in, and each of its mbufs enters one place. *)
LEMMA Redistribute ==
  ASSUME NEW G, Disjoint(G), NoLeak(G),
         NEW Out, NEW dst \in [Out -> Place],
         \A z \in Place : On(G, z)' = (On(G, z) \ Out) \cup {m \in Out : dst[m] = z}
  PROVE  Disjoint(G)' /\ NoLeak(G)'
<1>1. Disjoint(G)'
  <2> SUFFICES ASSUME NEW x \in Place, NEW y \in Place, x # y,
                      NEW m \in G, m \in At(x)', m \in At(y)'
               PROVE  FALSE
    BY DEF Disjoint
  <2>1. m \in On(G, x)' /\ m \in On(G, y)'
    BY DEF On
  <2>2. m \in Out => dst[m] = x /\ dst[m] = y
    BY <2>1
  <2>3. m \notin Out => m \in At(x) /\ m \in At(y)
    BY <2>1 DEF On
  <2>4. QED BY <2>2, <2>3 DEF Disjoint
<1>2. NoLeak(G)'
  <2> SUFFICES ASSUME NEW m \in G
               PROVE  \E z \in Place : m \in At(z)'
    BY DEF NoLeak
  <2>1. CASE m \in Out
    <3>1. m \in On(G, dst[m])' /\ dst[m] \in Place
      BY <2>1
    <3>2. QED BY <3>1 DEF On
  <2>2. CASE m \notin Out
    <3>1. PICK z \in Place : m \in At(z)
      BY DEF NoLeak
    <3>2. m \in On(G, z)'
      BY <2>2, <3>1 DEF On
    <3>3. QED BY <3>2 DEF On
  <2>3. QED BY <2>1, <2>2
<1>3. QED BY <1>1, <1>2

(* The common case: S moves from place x to place y.                       *)
LEMMA Move ==
  ASSUME NEW G, Disjoint(G), NoLeak(G),
         NEW x \in Place, NEW y \in Place, x # y, NEW S, S \cap G \subseteq At(x),
         On(G, x)' = On(G, x) \ S, On(G, y)' = On(G, y) \cup (S \cap G),
         \A z \in Place \ {x, y} : At(z)' = At(z)
  PROVE  Disjoint(G)' /\ NoLeak(G)'
<1> DEFINE O == S \cap G
           dst == [m \in O |-> y]
<1>1. \A z \in Place : z # x => On(G, z) \cap O = {}
  BY DEF Disjoint, On
<1>2. \A z \in Place : {m \in O : dst[m] = z} = IF z = y THEN O ELSE {}
  OBVIOUS
<1>3. \A z \in Place \ {x, y} : On(G, z)' = On(G, z)
  BY DEF On
<1>4. On(G, x) \ S = On(G, x) \ O
  BY DEF On
<1>5. dst \in [O -> Place]
  OBVIOUS
<1> HIDE DEF O, dst
<1>6. \A z \in Place : On(G, z)' = (On(G, z) \ O) \cup {m \in O : dst[m] = z}
  <2> SUFFICES ASSUME NEW z \in Place
               PROVE  On(G, z)' = (On(G, z) \ O) \cup {m \in O : dst[m] = z}
    OBVIOUS
  <2>1. CASE z = x
    BY <1>2, <1>4, <2>1
  <2>2. CASE z = y
    <3>1. On(G, y)' = On(G, y) \cup O
      BY DEF O
    <3>2. QED BY <1>1, <1>2, <2>2, <3>1
  <2>3. CASE z \notin {x, y}
    BY <1>1, <1>2, <1>3, <2>3
  <2>4. QED BY <2>1, <2>2, <2>3
<1>7. QED BY <1>5, <1>6, Redistribute

-----------------------------------------------------------------------------
(* The shared steps keep ownership *)

(* An RX lcore that is not inside rte_pktmbuf_free has no put under way.   *)
PutIdle == \A p \in Port : pc[p] # "free" => putRx[p] = {}

OwnInv == MemType /\ Ownership /\ PutIdle

(* What a step has to keep, G being the mbufs intact after it.             *)
Owned(G) == MemType /\ PutIdle /\ OwnOn(G)

LEMMA EmptyRange == Range(<<>>) = {}
BY DEF Range

LEMMA RxBurstOwns ==
  ASSUME NEW G, Owned(G), G \subseteq Intact, NEW p \in Port, arrived[p] \in Nat,
         RxBurstOf(p)
  PROVE  Owned(G)'
<1> USE DEF Owned, OwnOn, MemType
<1>1. PICK ms \in Seq(MBuf) :
        /\ \A m \in Range(ms) : Home[m] = p
        /\ p \notin spoiled => IsInjective(ms) /\ Range(ms) \subseteq pool
        /\ bufs' = [bufs EXCEPT ![p] = ms]
        /\ pool' = pool \ Range(ms)
  <2>1. \E k \in Nat \ {0}, s \in Seq(MBuf) :
           /\ \A m \in Range(s) : Home[m] = p
           /\ p \notin spoiled => IsInjective(s) /\ Range(s) \subseteq pool
           /\ bufs' = [bufs EXCEPT ![p] = s]
           /\ pool' = pool \ Range(s)
    BY RxBurstFills
  <2>2. QED BY <2>1
<1>2. /\ bufs[p] = <<>> /\ pc[p] = "next"
      /\ UNCHANGED <<pc, ring, ptr, txq, putRx, putWrk>>
  BY DEF RxBurstOf, wrkVars
<1>3. Once(ms, G) /\ Range(ms) \cap G \subseteq pool
  <2>1. CASE p \in spoiled
    <3>1. Range(ms) \cap G = {}
      BY <1>1, <2>1 DEF Intact
    <3>2. \A i \in DOMAIN ms : ms[i] \notin G
      BY <3>1 DEF Range
    <3>3. QED BY <3>1, <3>2 DEF Once
  <2>2. CASE p \notin spoiled
    BY <1>1, <2>2 DEF Once, IsInjective
  <2>3. QED BY <2>1, <2>2
<1>4. MemType'
  BY <1>1, <1>2
<1>5. NoRepeat(G)'
  BY <1>1, <1>2, <1>3 DEF NoRepeat
<1>6. Disjoint(G)' /\ NoLeak(G)'
  <2> DEFINE x == <<"pool", 0>>
             y == <<"bufs", p>>
  <2>1. x \in Place /\ y \in Place /\ x # y
    BY PlaceMembers
  <2>2. At(x) = pool /\ At(x)' = pool \ Range(ms)
    BY <1>1, AtPlace, AtPlaceNext
  <2>3. At(y) = {}
    BY <1>2, EmptyRange, AtPlace
  <2>4. At(y)' = Range(ms)
    BY <1>1, AtPlaceNext
  <2>5. \A z \in Place \ {x, y} : At(z)' = At(z)
    BY <1>1, <1>2, Frame
  <2>6. /\ Disjoint(G) /\ NoLeak(G) /\ Range(ms) \cap G \subseteq At(x)
        /\ On(G, x)' = On(G, x) \ Range(ms)
        /\ On(G, y)' = On(G, y) \cup (Range(ms) \cap G)
    BY <1>3, <2>2, <2>3, <2>4 DEF On
  <2> HIDE DEF x, y, Owned, OwnOn, MemType
  <2>7. QED BY <2>1, <2>5, <2>6, Move
<1>7. PutIdle'
  BY <1>2 DEF PutIdle
<1>8. QED BY <1>4, <1>5, <1>6, <1>7

(* Steps that touch no mbuf.                                               *)
LEMMA StayOwnedOn ==
  ASSUME NEW G, Owned(G), UNCHANGED <<pool, bufs, ring, ptr, txq, putRx, putWrk>>,
         PutIdle'
  PROVE  Owned(G)'
<1> USE DEF Owned, OwnOn
<1>1. \A z \in Place \ {} : At(z)' = At(z)
  BY Frame
<1>2. MemType'
  BY DEF MemType
<1>3. NoRepeat(G)'
  BY DEF NoRepeat
<1>4. Disjoint(G)'
  BY <1>1 DEF Disjoint
<1>5. NoLeak(G)'
  BY <1>1 DEF NoLeak
<1>6. QED BY <1>2, <1>3, <1>4, <1>5

(* An RX lcore starts to free the packet it holds.                         *)
LEMMA StartFreeOwnedOn ==
  ASSUME NEW G, Owned(G), NEW p \in Port, NEW c, NEW f0,
         pc[p] # "free", bufs[p] # <<>>, StartFree(p, c, f0), NEW Pc, pc \in [Port -> Pc],
         UNCHANGED <<pool, ring, ptr, txq, putWrk>>
  PROVE  Owned(G)'
<1> DEFINE m == Head(bufs[p])
<1>1. /\ bufs' = [bufs EXCEPT ![p] = Tail(@)]
      /\ putRx' = [putRx EXCEPT ![p] = {m}]
      /\ pc' = [pc EXCEPT ![p] = "free"]
  BY DEF StartFree
<1>2. /\ bufs \in [Port -> Seq(MBuf)] /\ putRx \in [Port -> SUBSET MBuf]
      /\ Once(bufs[p], G) /\ putRx[p] = {}
  BY DEF Owned, OwnOn, MemType, NoRepeat, PutIdle
<1>3. /\ m \in Range(bufs[p]) /\ Range(Tail(bufs[p])) \cap G = (Range(bufs[p]) \cap G) \ {m}
      /\ Once(Tail(bufs[p]), G) /\ m \in MBuf /\ Tail(bufs[p]) \in Seq(MBuf)
  BY <1>2, TailOnce
<1> HIDE DEF m
<1>4. MemType'
  BY <1>1, <1>2, <1>3 DEF Owned, MemType
<1>5. NoRepeat(G)'
  BY <1>1, <1>2, <1>3 DEF Owned, OwnOn, NoRepeat
<1>6. Disjoint(G)' /\ NoLeak(G)'
  <2> DEFINE x == <<"bufs", p>>
             y == <<"putRx", p>>
             S == {m}
  <2>1. x \in Place /\ y \in Place /\ x # y
    BY PlaceMembers
  <2>2. At(x) = Range(bufs[p]) /\ At(y) = {}
    BY <1>2, AtPlace
  <2>3. At(x)' = Range(Tail(bufs[p])) /\ At(y)' = {m}
    BY <1>1, <1>2, AtPlaceNext
  <2>4. \A z \in Place \ {x, y} : At(z)' = At(z)
    BY <1>1, <1>2, Frame
  <2>5. /\ Disjoint(G) /\ NoLeak(G) /\ S \cap G \subseteq At(x)
        /\ On(G, x)' = On(G, x) \ S /\ On(G, y)' = On(G, y) \cup (S \cap G)
    BY <1>3, <2>2, <2>3 DEF Owned, OwnOn, On
  <2> HIDE DEF x, y, S
  <2>6. QED BY <2>1, <2>4, <2>5, Move
<1>7. PutIdle'
  BY <1>1, <1>2 DEF Owned, PutIdle
<1>8. QED BY <1>4, <1>5, <1>6, <1>7 DEF Owned, OwnOn

(* An RX lcore hands the packet it holds to a FIFO.                        *)
LEMMA EnqueueOwnedOn ==
  ASSUME NEW G, Owned(G), NEW p \in Port, NEW f \in Fifo,
         pc[p] # "free", bufs[p] # <<>>, Enqueue(p, f), NEW Pc, pc \in [Port -> Pc],
         UNCHANGED <<pool, ptr, txq, putRx, putWrk>>
  PROVE  Owned(G)'
<1> DEFINE m == Head(bufs[p])
<1>1. /\ bufs' = [bufs EXCEPT ![p] = Tail(@)]
      /\ ring' = [ring EXCEPT ![f] = Append(@, m)]
      /\ pc' = [pc EXCEPT ![p] = "load"]
  BY DEF Enqueue
<1>2. /\ bufs \in [Port -> Seq(MBuf)] /\ ring \in [Fifo -> Seq(MBuf)]
      /\ Once(bufs[p], G) /\ Once(ring[f], G)
  BY DEF Owned, OwnOn, MemType, NoRepeat
<1>3. /\ m \in Range(bufs[p]) /\ Range(Tail(bufs[p])) \cap G = (Range(bufs[p]) \cap G) \ {m}
      /\ Once(Tail(bufs[p]), G) /\ m \in MBuf /\ Tail(bufs[p]) \in Seq(MBuf)
  BY <1>2, TailOnce
<1>4. m \notin Range(ring[f]) \cap G
  <2>1. <<"bufs", p>> \in Place /\ <<"ring", f>> \in Place
    BY PlaceMembers
  <2>2. At(<<"bufs", p>>) = Range(bufs[p]) /\ At(<<"ring", f>>) = Range(ring[f])
    BY AtPlace
  <2>3. At(<<"bufs", p>>) \cap At(<<"ring", f>>) \cap G = {}
    BY <2>1 DEF Owned, OwnOn, Disjoint
  <2>4. QED BY <1>3, <2>2, <2>3
<1> HIDE DEF m
<1>5. /\ Append(ring[f], m) \in Seq(MBuf) /\ Once(Append(ring[f], m), G)
      /\ Range(Append(ring[f], m)) = Range(ring[f]) \cup {m}
  BY <1>2, <1>3, <1>4, AppendOnce
<1>6. MemType'
  BY <1>1, <1>2, <1>3, <1>5 DEF Owned, MemType
<1>7. NoRepeat(G)'
  BY <1>1, <1>2, <1>3, <1>5 DEF Owned, OwnOn, NoRepeat
<1>8. Disjoint(G)' /\ NoLeak(G)'
  <2> DEFINE x == <<"bufs", p>>
             y == <<"ring", f>>
             S == {m}
  <2>1. x \in Place /\ y \in Place /\ x # y
    BY PlaceMembers
  <2>2. At(x) = Range(bufs[p]) /\ At(y) = Range(ring[f])
    BY AtPlace
  <2>3. At(x)' = Range(Tail(bufs[p])) /\ At(y)' = Range(ring[f]) \cup {m}
    BY <1>1, <1>2, <1>5, AtPlaceNext
  <2>4. \A z \in Place \ {x, y} : At(z)' = At(z)
    BY <1>1, <1>2, Frame
  <2>5. /\ Disjoint(G) /\ NoLeak(G) /\ S \cap G \subseteq At(x)
        /\ On(G, x)' = On(G, x) \ S /\ On(G, y)' = On(G, y) \cup (S \cap G)
    BY <1>3, <2>2, <2>3 DEF Owned, OwnOn, On
  <2> HIDE DEF x, y, S
  <2>6. QED BY <2>1, <2>4, <2>5, Move
<1>9. PutIdle'
  BY <1>1 DEF Owned, PutIdle
<1>10. QED BY <1>6, <1>7, <1>8, <1>9 DEF Owned, OwnOn

(* A worker takes a burst out of its FIFO.                                 *)
LEMMA FetchBurstOwns ==
  ASSUME NEW G, Owned(G), NEW f \in Fifo, FetchBurst(f)
  PROVE  Owned(G)'
<1> DEFINE n == BurstLen(f)
           a == SubSeq(ring[f], 1, n)
           b == SubSeq(ring[f], n + 1, Len(ring[f]))
<1>1. /\ ptr[f] = <<>>
      /\ ptr' = [ptr EXCEPT ![f] = a]
      /\ ring' = [ring EXCEPT ![f] = b]
      /\ UNCHANGED <<pool, bufs, pc, txq, putRx, putWrk>>
  BY DEF FetchBurst, memVars, rxVars
<1>2. /\ ring \in [Fifo -> Seq(MBuf)] /\ ptr \in [Fifo -> Seq(MBuf)]
      /\ Once(ring[f], G)
  BY DEF Owned, OwnOn, MemType, NoRepeat
<1>3. n \in 0 .. Len(ring[f])
  <2>1. Len(ring[f]) \in Nat
    BY <1>2, LenProperties
  <2>2. QED BY <2>1, WorkDistAssumption DEF BurstLen
<1> HIDE DEF n
<1>4. /\ a \in Seq(MBuf) /\ b \in Seq(MBuf) /\ Once(a, G) /\ Once(b, G)
      /\ Range(a) \subseteq Range(ring[f])
      /\ Range(b) \cap G = (Range(ring[f]) \cap G) \ Range(a)
  BY <1>2, <1>3, SplitOnce
<1> HIDE DEF a, b
<1>5. MemType'
  BY <1>1, <1>2, <1>4 DEF Owned, MemType
<1>6. NoRepeat(G)'
  BY <1>1, <1>2, <1>4 DEF Owned, OwnOn, NoRepeat
<1>7. Disjoint(G)' /\ NoLeak(G)'
  <2> DEFINE x == <<"ring", f>>
             y == <<"ptr", f>>
             S == Range(a)
  <2>1. x \in Place /\ y \in Place /\ x # y
    BY PlaceMembers
  <2>2. At(x) = Range(ring[f]) /\ At(y) = {}
    BY <1>1, AtPlace, EmptyRange
  <2>3. At(x)' = Range(b) /\ At(y)' = Range(a)
    BY <1>1, <1>2, AtPlaceNext
  <2>4. \A z \in Place \ {x, y} : At(z)' = At(z)
    BY <1>1, <1>2, Frame
  <2>5. /\ Disjoint(G) /\ NoLeak(G) /\ S \cap G \subseteq At(x)
        /\ On(G, x)' = On(G, x) \ S /\ On(G, y)' = On(G, y) \cup (S \cap G)
    BY <1>4, <2>2, <2>3 DEF Owned, OwnOn, On
  <2> HIDE DEF x, y, S
  <2>6. QED BY <2>1, <2>4, <2>5, Move
<1>8. PutIdle'
  BY <1>1 DEF Owned, PutIdle
<1>9. QED BY <1>5, <1>6, <1>7, <1>8 DEF Owned, OwnOn

(* rte_pktmbuf_free returns: the mbufs that were at y are in their pools.  *)
LEMMA FinishPutOwns ==
  ASSUME NEW G, Disjoint(G), NoLeak(G), NEW others, NEW y \in Place, NEW S, S = At(y),
         y # <<"pool", 0>>, FinishPut(S, others), At(y)' = {},
         \A z \in Place \ {<<"pool", 0>>, y} : At(z)' = At(z)
  PROVE  Disjoint(G)' /\ NoLeak(G)'
<1> DEFINE x == <<"pool", 0>>
<1>1. pool' = pool \cup S
  BY DEF FinishPut
<1>2. x \in Place
  BY PlaceMembers
<1>3. At(x) = pool /\ At(x)' = pool'
  BY AtPlace, AtPlaceNext
<1> HIDE DEF x
<1>4. /\ On(G, y)' = On(G, y) \ S /\ S \cap G \subseteq At(y)
      /\ On(G, x)' = On(G, x) \cup (S \cap G)
  BY <1>1, <1>3 DEF On
<1>5. x # y /\ \A z \in Place \ {x, y} : At(z)' = At(z)
  BY DEF x
<1>6. \A z \in Place \ {y, x} : At(z)' = At(z)
  BY <1>5
<1>7. QED BY <1>2, <1>4, <1>5, <1>6, Move

LEMMA RxFreedOwns ==
  ASSUME NEW G, Owned(G), NEW p \in Port, RxFreed(p), NEW Pc, pc \in [Port -> Pc]
  PROVE  Owned(G)'
<1> DEFINE others == UNION ({putRx[q] : q \in Port \ {p}} \cup {putWrk[f] : f \in Fifo})
           y == <<"putRx", p>>
<1>1. /\ FinishPut(putRx[p], others)
      /\ putRx' = [putRx EXCEPT ![p] = {}]
      /\ UNCHANGED <<bufs, ring, ptr, txq, putWrk>>
  BY DEF RxFreed
<1> HIDE DEF others
<1>2. /\ putRx \in [Port -> SUBSET MBuf] /\ pool \subseteq MBuf
      /\ Disjoint(G) /\ NoLeak(G) /\ MemType
  BY DEF Owned, OwnOn, MemType
<1>3. MemType'
  BY <1>1, <1>2 DEF MemType, FinishPut
<1>4. NoRepeat(G)'
  BY <1>1 DEF Owned, OwnOn, NoRepeat
<1>5. Disjoint(G)' /\ NoLeak(G)'
  <2>1. y \in Place /\ y # <<"pool", 0>>
    BY PlaceMembers
  <2>2. At(y) = putRx[p]
    BY AtPlace
  <2>3. At(y)' = {}
    BY <1>1, <1>2, AtPlaceNext
  <2>4. \A z \in Place \ {<<"pool", 0>>, y} : At(z)' = At(z)
    BY <1>1, <1>2, Frame
  <2> HIDE DEF y
  <2>5. QED BY <1>1, <1>2, <2>1, <2>2, <2>3, <2>4, FinishPutOwns
<1>6. PutIdle'
  <2>1. \A q \in Port : q # p => pc'[q] = pc[q]
    BY DEF RxFreed
  <2>2. QED BY <1>1, <1>2, <2>1 DEF Owned, PutIdle
<1>7. QED BY <1>3, <1>4, <1>5, <1>6 DEF Owned, OwnOn

LEMMA WrkFreedOwns ==
  ASSUME NEW G, Owned(G), NEW f \in Fifo, WrkFreed(f)
  PROVE  Owned(G)'
<1> DEFINE others == UNION ({putRx[q] : q \in Port} \cup {putWrk[g] : g \in Fifo \ {f}})
           y == <<"putWrk", f>>
<1>1. /\ FinishPut(putWrk[f], others)
      /\ putWrk' = [putWrk EXCEPT ![f] = {}]
      /\ UNCHANGED <<bufs, pc, ring, ptr, txq, putRx>>
  BY DEF WrkFreed, rxVars, wrkVars
<1> HIDE DEF others
<1>2. /\ putWrk \in [Fifo -> SUBSET MBuf] /\ pool \subseteq MBuf
      /\ Disjoint(G) /\ NoLeak(G) /\ MemType
  BY DEF Owned, OwnOn, MemType
<1>3. MemType'
  BY <1>1, <1>2 DEF MemType, FinishPut
<1>4. NoRepeat(G)'
  BY <1>1 DEF Owned, OwnOn, NoRepeat
<1>5. Disjoint(G)' /\ NoLeak(G)'
  <2>1. y \in Place /\ y # <<"pool", 0>>
    BY PlaceMembers
  <2>2. At(y) = putWrk[f]
    BY AtPlace
  <2>3. At(y)' = {}
    BY <1>1, <1>2, AtPlaceNext
  <2>4. \A z \in Place \ {<<"pool", 0>>, y} : At(z)' = At(z)
    BY <1>1, <1>2, Frame
  <2> HIDE DEF y
  <2>5. QED BY <1>1, <1>2, <2>1, <2>2, <2>3, <2>4, FinishPutOwns
<1>6. PutIdle'
  BY <1>1 DEF Owned, PutIdle
<1>7. QED BY <1>3, <1>4, <1>5, <1>6 DEF Owned, OwnOn

(* A worker posts a packet or has it refused, and reclaims descriptors.    *)
LEMMA TransmitOwns ==
  ASSUME NEW G, Owned(G), NEW f \in Fifo, Transmit(f)
  PROVE  Owned(G)'
<1> DEFINE m == Head(ptr[f])
           Q == <<"ptr", f>>
           T == <<"txq", f>>
           W == <<"putWrk", f>>
<1>1. PICK done \in SUBSET TxQueue(f, Home[m]) :
        \/ /\ txq' = [txq EXCEPT ![f] = (@ \ done) \cup {m}]
           /\ putWrk' = [putWrk EXCEPT ![f] = done]
        \/ /\ txq' = [txq EXCEPT ![f] = @ \ done]
           /\ putWrk' = [putWrk EXCEPT ![f] = done \cup {m}]
  BY DEF Transmit
<1>2. /\ ptr[f] # <<>> /\ putWrk[f] = {}
      /\ ptr' = [ptr EXCEPT ![f] = Tail(@)]
      /\ UNCHANGED <<pool, bufs, pc, ring, putRx>>
  BY DEF Transmit, memVars, rxVars
<1>3. /\ ptr \in [Fifo -> Seq(MBuf)] /\ txq \in [Fifo -> SUBSET MBuf]
      /\ putWrk \in [Fifo -> SUBSET MBuf] /\ Once(ptr[f], G)
      /\ MemType /\ Disjoint(G) /\ NoLeak(G)
  BY DEF Owned, OwnOn, MemType, NoRepeat
<1>4. /\ m \in Range(ptr[f]) /\ Range(Tail(ptr[f])) \cap G = (Range(ptr[f]) \cap G) \ {m}
      /\ Once(Tail(ptr[f]), G) /\ m \in MBuf /\ Tail(ptr[f]) \in Seq(MBuf)
  BY <1>2, <1>3, TailOnce
<1>5. done \subseteq txq[f]
  BY DEF TxQueue
<1> HIDE DEF m
<1>6. MemType'
  <2>1. ptr' \in [Fifo -> Seq(MBuf)]
    BY <1>2, <1>3, <1>4
  <2>2. done \subseteq MBuf
    BY <1>3, <1>5
  <2>3. txq' \in [Fifo -> SUBSET MBuf]
    <3>1. CASE txq' = [txq EXCEPT ![f] = (@ \ done) \cup {m}]
      BY <1>3, <1>4, <3>1
    <3>2. CASE txq' = [txq EXCEPT ![f] = @ \ done]
      BY <1>3, <3>2
    <3>3. QED BY <1>1, <3>1, <3>2
  <2>4. putWrk' \in [Fifo -> SUBSET MBuf]
    BY <1>1, <1>3, <1>4, <2>2
  <2>5. QED BY <1>2, <1>3, <2>1, <2>3, <2>4 DEF MemType
<1>7. NoRepeat(G)'
  BY <1>2, <1>3, <1>4 DEF Owned, OwnOn, NoRepeat
<1>8. Disjoint(G)' /\ NoLeak(G)'
  <2> DEFINE D == done \cap G
             M == {m} \cap G
             Out == D \cup M
  <2>1. Q \in Place /\ T \in Place /\ W \in Place /\ Q # T /\ T # W /\ Q # W
    BY PlaceMembers
  <2>2. At(Q) = Range(ptr[f]) /\ At(T) = txq[f] /\ At(W) = {}
    BY <1>2, AtPlace
  <2>3. At(Q)' = Range(Tail(ptr[f])) /\ At(T)' = txq'[f] /\ At(W)' = putWrk'[f]
    BY <1>2, <1>3, AtPlaceNext
  <2>4. \A z \in Place \ {Q, T, W} : At(z)' = At(z)
    <3>1. /\ \A g \in Fifo : W = <<"putWrk", g>> \/ putWrk'[g] = putWrk[g]
          /\ \A g \in Fifo : T = <<"txq", g>> \/ txq'[g] = txq[g]
          /\ \A g \in Fifo : Q = <<"ptr", g>> \/ ptr'[g] = ptr[g]
      BY <1>1, <1>2, <1>3
    <3> HIDE DEF Q, T, W
    <3>2. QED BY <1>2, <3>1, Frame
  <2> HIDE DEF Q, T, W
  <2>5. On(G, Q) \cap On(G, T) = {}
    BY <1>3, <2>1 DEF Disjoint, On
  <2>6. D \subseteq On(G, T) /\ M \subseteq On(G, Q) /\ D \cap M = {}
    BY <1>4, <1>5, <2>2, <2>5 DEF On
  <2>7. \A z \in Place \ {Q, T, W} : On(G, z) \cap Out = {} /\ On(G, z)' = On(G, z)
    BY <1>3, <2>1, <2>4, <2>6 DEF Disjoint, On
  <2>8. On(G, Q)' = On(G, Q) \ M /\ On(G, Q) \cap D = {} /\ On(G, T) \cap M = {}
    BY <1>4, <2>2, <2>3, <2>5, <2>6 DEF On
  <2>9. On(G, W) = {}
    BY <2>2 DEF On
  <2>10. CASE /\ txq' = [txq EXCEPT ![f] = (@ \ done) \cup {m}]
              /\ putWrk' = [putWrk EXCEPT ![f] = done]
    <3> DEFINE dst == [o \in Out |-> IF o \in M THEN T ELSE W]
    <3>1. txq'[f] = (txq[f] \ done) \cup {m} /\ putWrk'[f] = done
      BY <1>3, <2>10
    <3>2. On(G, T)' = (On(G, T) \ D) \cup M /\ On(G, W)' = D
      BY <2>2, <2>3, <3>1 DEF On
    <3> HIDE DEF D, M
    <3>3. dst \in [Out -> Place]
      BY <2>1
    <3>4. /\ {o \in Out : dst[o] = T} = M
          /\ {o \in Out : dst[o] = W} = D
          /\ \A z \in Place \ {T, W} : {o \in Out : dst[o] = z} = {}
      BY <2>1, <2>6
    <3>5. \A z \in Place : On(G, z)' = (On(G, z) \ Out) \cup {o \in Out : dst[o] = z}
      <4>1. On(G, T)' = (On(G, T) \ Out) \cup M
        BY <2>8, <3>2
      <4>2. On(G, W)' = (On(G, W) \ Out) \cup D
        BY <2>9, <3>2
      <4>3. On(G, Q)' = On(G, Q) \ Out
        BY <2>8
      <4>4. \A z \in Place \ {Q, T, W} : On(G, z)' = On(G, z) \ Out
        BY <2>7
      <4> HIDE DEF Out, dst
      <4>5. QED BY <2>1, <3>4, <4>1, <4>2, <4>3, <4>4
    <3> HIDE DEF Out, dst
    <3>6. QED BY <1>3, <3>3, <3>5, Redistribute
  <2>11. CASE /\ txq' = [txq EXCEPT ![f] = @ \ done]
              /\ putWrk' = [putWrk EXCEPT ![f] = done \cup {m}]
    <3> DEFINE dst == [o \in Out |-> W]
    <3>1. txq'[f] = txq[f] \ done /\ putWrk'[f] = done \cup {m}
      BY <1>3, <2>11
    <3>2. On(G, T)' = On(G, T) \ D /\ On(G, W)' = Out
      BY <2>2, <2>3, <3>1 DEF On
    <3> HIDE DEF D, M
    <3>3. dst \in [Out -> Place]
      BY <2>1
    <3>4. /\ {o \in Out : dst[o] = W} = Out
          /\ \A z \in Place \ {W} : {o \in Out : dst[o] = z} = {}
      BY <2>1
    <3>5. \A z \in Place : On(G, z)' = (On(G, z) \ Out) \cup {o \in Out : dst[o] = z}
      <4>1. On(G, T)' = On(G, T) \ Out
        BY <2>8, <3>2
      <4>2. On(G, W)' = (On(G, W) \ Out) \cup Out
        BY <2>9, <3>2
      <4>3. On(G, Q)' = On(G, Q) \ Out
        BY <2>8
      <4>4. \A z \in Place \ {Q, T, W} : On(G, z)' = On(G, z) \ Out
        BY <2>7
      <4> HIDE DEF Out, dst
      <4>5. QED BY <2>1, <3>4, <4>1, <4>2, <4>3, <4>4
    <3> HIDE DEF Out, dst
    <3>6. QED BY <1>3, <3>3, <3>5, Redistribute
  <2>12. QED BY <1>1, <2>10, <2>11
<1>9. PutIdle'
  BY <1>2 DEF Owned, PutIdle
<1>10. QED BY <1>6, <1>7, <1>8, <1>9 DEF Owned, OwnOn

(* A pool once spoiled stays spoiled, so that what a step keeps for the    *)
(* mbufs intact after it is all that ownership asks.                       *)
LEMMA OwnsNext ==
  ASSUME OwnInv, spoiled \subseteq spoiled',
         \A G : Owned(G) /\ G \subseteq Intact => Owned(G)'
  PROVE  OwnInv'
<1>1. PICK G : G = Intact'
  OBVIOUS
<1>2. G \subseteq Intact
  BY <1>1 DEF Intact
<1>3. Owned(G)
  <2>1. OwnOn(Intact)
    BY DEF OwnInv, Ownership, OwnOn
  <2>2. PICK H : H = Intact
    OBVIOUS
  <2>3. OwnOn(H)
    BY <2>1, <2>2 DEF OwnOn, Disjoint, NoRepeat, Once, NoLeak
  <2>4. OwnOn(G)
    BY <1>2, <2>2, <2>3, OwnOnSubset
  <2>5. QED BY <2>4 DEF OwnInv, Owned
<1>4. Owned(G)'
  BY <1>2, <1>3
<1>5. Ownership'
  BY <1>1, <1>4 DEF Owned, OwnOn, Ownership, Disjoint, NoRepeat, Once, NoLeak
<1>6. QED BY <1>4, <1>5 DEF Owned, OwnInv

LEMMA StayOwns ==
  ASSUME OwnInv, UNCHANGED <<pool, spoiled, bufs, ring, ptr, txq, putRx, putWrk>>,
         PutIdle'
  PROVE  OwnInv'
BY StayOwnedOn, OwnsNext

LEMMA StartFreeOwns ==
  ASSUME OwnInv, NEW p \in Port, NEW c, NEW f0,
         pc[p] # "free", bufs[p] # <<>>, StartFree(p, c, f0), NEW Pc, pc \in [Port -> Pc],
         UNCHANGED <<pool, spoiled, ring, ptr, txq, putWrk>>
  PROVE  OwnInv'
BY StartFreeOwnedOn, OwnsNext

LEMMA EnqueueOwns ==
  ASSUME OwnInv, NEW p \in Port, NEW f \in Fifo,
         pc[p] # "free", bufs[p] # <<>>, Enqueue(p, f), NEW Pc, pc \in [Port -> Pc],
         UNCHANGED <<pool, spoiled, ptr, txq, putRx, putWrk>>
  PROVE  OwnInv'
BY EnqueueOwnedOn, OwnsNext

(* Initially every mbuf is in its pool.                                    *)
LEMMA InitOwns ==
  ASSUME Init
  PROVE  OwnInv
<1> USE DEF Init
<1>1. MemType
  BY DEF MemType
<1>2. NoRepeat(Intact)
  BY DEF NoRepeat, Once
<1>3. \A z \in Place : z # <<"pool", 0>> => At(z) = {}
  BY AtPlace, EmptyRange, PlaceCases
<1>4. Disjoint(Intact)
  BY <1>3 DEF Disjoint
<1>5. NoLeak(Intact)
  BY AtPlace, PlaceMembers DEF NoLeak, Intact
<1>6. PutIdle
  BY DEF PutIdle
<1>7. QED BY <1>1, <1>2, <1>4, <1>5, <1>6 DEF OwnInv, Ownership

LEMMA SharedRxOwns ==
  ASSUME OwnInv, NEW p \in Port, arrived[p] \in Nat, SharedRx(p),
         NEW Pc, pc \in [Port -> Pc]
  PROVE  OwnInv'
<1>1. CASE RxFreed(p)
  <2>1. spoiled \subseteq spoiled'
    BY <1>1 DEF RxFreed, FinishPut
  <2>2. QED BY <1>1, <2>1, RxFreedOwns, OwnsNext
<1>2. CASE RxBurstOf(p)
  <2>1. spoiled' = spoiled
    BY <1>2 DEF RxBurstOf
  <2>2. QED BY <1>2, <2>1, RxBurstOwns, OwnsNext
<1>3. CASE DropNonIp(p)
  <2>1. /\ pc[p] # "free" /\ bufs[p] # <<>> /\ StartFree(p, "none", 0)
        /\ UNCHANGED <<pool, spoiled, ring, ptr, txq, putWrk>>
    BY <1>3 DEF DropNonIp, memVars, wrkVars
  <2>2. QED BY <2>1, StartFreeOwns
<1>4. CASE LoadCounter(p) \/ StoreCounter(p)
  <2>1. /\ UNCHANGED <<pool, spoiled, bufs, ring, ptr, txq, putRx, putWrk>>
        /\ pc[p] # "free" /\ \A q \in Port : q # p => pc'[q] = pc[q]
    BY <1>4 DEF LoadCounter, StoreCounter, memVars, wrkVars
  <2>2. PutIdle'
    BY <2>1 DEF OwnInv, PutIdle
  <2>3. QED BY <2>1, <2>2, StayOwns
<1>5. QED BY <1>1, <1>2, <1>3, <1>4 DEF SharedRx

LEMMA WorkerOwns ==
  ASSUME OwnInv, NEW f \in Fifo, Worker(f)
  PROVE  OwnInv'
<1>1. CASE FetchBurst(f)
  <2>1. spoiled' = spoiled
    BY <1>1 DEF FetchBurst, memVars
  <2>2. QED BY <1>1, <2>1, FetchBurstOwns, OwnsNext
<1>2. CASE Transmit(f)
  <2>1. spoiled' = spoiled
    BY <1>2 DEF Transmit, memVars
  <2>2. QED BY <1>2, <2>1, TransmitOwns, OwnsNext
<1>3. CASE WrkFreed(f)
  <2>1. spoiled \subseteq spoiled'
    BY <1>3 DEF WrkFreed, FinishPut
  <2>2. QED BY <1>3, <2>1, WrkFreedOwns, OwnsNext
<1>4. QED BY <1>1, <1>2, <1>3 DEF Worker

(* While no pool is spoiled, every mbuf is in one place, once.             *)
SoleOwner ==
  /\ \A x, y \in Place : x # y => At(x) \cap At(y) = {}
  /\ \A p \in Port : IsInjective(bufs[p])
  /\ \A f \in Fifo : IsInjective(ring[f]) /\ IsInjective(ptr[f])

LEMMA CleanOwns ==
  ASSUME OwnInv, spoiled = {}
  PROVE  SoleOwner
<1>1. Intact = MBuf
  BY DEF Intact
<1>2. /\ Disjoint(MBuf) /\ NoRepeat(MBuf)
  BY <1>1 DEF OwnInv, Ownership
<1>3. \A x \in Place : At(x) \subseteq MBuf
  <2>1. /\ \A p \in Port : Range(bufs[p]) \subseteq MBuf /\ putRx[p] \subseteq MBuf
        /\ \A f \in Fifo : /\ Range(ring[f]) \subseteq MBuf /\ Range(ptr[f]) \subseteq MBuf
                           /\ txq[f] \subseteq MBuf /\ putWrk[f] \subseteq MBuf
    BY RangeInSet DEF OwnInv, MemType
  <2>2. pool \subseteq MBuf
    BY DEF OwnInv, MemType
  <2>3. QED BY <2>1, <2>2, AtPlace, PlaceCases
<1>4. \A x, y \in Place : x # y => At(x) \cap At(y) = {}
  BY <1>2, <1>3 DEF Disjoint
<1>5. /\ \A p \in Port : IsInjective(bufs[p])
      /\ \A f \in Fifo : IsInjective(ring[f]) /\ IsInjective(ptr[f])
  BY <1>2, OnceIsInjective DEF NoRepeat, OwnInv, MemType
<1>6. QED BY <1>4, <1>5 DEF SoleOwner

-----------------------------------------------------------------------------
(* The hand-over of a packet: what the RX lcore still reads of it *)

Counting(p) == pc[p] \in {"load", "store"} /\ given[p].ctr = "add"

(* A burst holds mbufs of the port's own pool, so that the mbuf an RX      *)
(* lcore is accounting for can only be received into again by that lcore,  *)
(* which is busy.  Only an enqueue makes a lcore account for an "add".     *)
LateInv ==
  /\ \A p \in Port : \A m \in Range(bufs[p]) : Home[m] = p
  /\ \A p \in Port : pc[p] = "free" => given[p].ctr # "add"
  /\ \A p \in Port : Counting(p) =>
       /\ given[p].m \in MBuf /\ Home[given[p].m] = p
       /\ pkt[given[p].m] = given[p].was

LEMMA LateInvStable == LateInv => LateReadIsStable
BY DEF LateInv, LateReadIsStable, Counting

LEMMA InitLate ==
  ASSUME Init
  PROVE  LateInv
BY EmptyRange DEF Init, LateInv, Counting

(* A step that only takes mbufs out of bursts and starts no hand-over.     *)
LEMMA LateStays ==
  ASSUME LateInv, pkt' = pkt,
         \A p \in Port : Range(bufs'[p]) \subseteq Range(bufs[p]),
         \A p \in Port : \/ pc'[p] = pc[p] /\ given'[p] = given[p]
                         \/ ~Counting(p)' /\ (pc'[p] = "free" => given'[p].ctr # "add")
                         \/ /\ Counting(p) /\ pc'[p] # "free"
                            /\ given'[p].m = given[p].m /\ given'[p].was = given[p].was
  PROVE  LateInv'
BY DEF LateInv, Counting

LEMMA StartFreeLate ==
  ASSUME NEW Pc, SharedPc \subseteq Pc, TypeOKWith(Pc), LateInv,
         NEW p \in Port, NEW c \in {"drp", "none"}, NEW f, bufs[p] # <<>>,
         StartFree(p, c, f), pkt' = pkt
  PROVE  LateInv'
<1>1. bufs \in [Port -> Seq(MBuf)] /\ pc \in [Port -> Pc] /\ given \in [Port -> Handover]
  BY DEF TypeOKWith
<1>2. Range(Tail(bufs[p])) \subseteq Range(bufs[p])
  BY <1>1, TailInRange
<1>3. \A q \in Port : Range(bufs'[q]) \subseteq Range(bufs[q])
  BY <1>1, <1>2 DEF StartFree
<1>4. given'[p].ctr = c /\ pc'[p] = "free"
  BY <1>1 DEF StartFree, Idle
<1>5. \A q \in Port : q # p => pc'[q] = pc[q] /\ given'[q] = given[q]
  BY <1>1 DEF StartFree
<1>6. QED BY <1>3, <1>4, <1>5, LateStays DEF Counting

LEMMA EnqueueLate ==
  ASSUME NEW Pc, SharedPc \subseteq Pc, TypeOKWith(Pc), LateInv,
         NEW p \in Port, NEW f, bufs[p] # <<>>,
         Enqueue(p, f), pkt' = pkt
  PROVE  LateInv'
<1> DEFINE m == Head(bufs[p])
<1>1. bufs \in [Port -> Seq(MBuf)] /\ pc \in [Port -> Pc] /\ given \in [Port -> Handover]
  BY DEF TypeOKWith
<1>2. Range(Tail(bufs[p])) \subseteq Range(bufs[p]) /\ m \in MBuf /\ m \in Range(bufs[p])
  BY <1>1, TailInRange
<1>3. \A q \in Port : Range(bufs'[q]) \subseteq Range(bufs[q])
  BY <1>1, <1>2 DEF Enqueue
<1>4. /\ given' = [given EXCEPT ![p] =
                     [m |-> m, was |-> pkt[m], fifo |-> f, ctr |-> "add", val |-> 0]]
      /\ pc' = [pc EXCEPT ![p] = "load"]
  BY DEF Enqueue
<1> HIDE DEF m
<1>5. given'[p].m = m /\ given'[p].was = pkt[m] /\ pc'[p] = "load"
  BY <1>1, <1>4
<1>6. \A q \in Port : q # p => pc'[q] = pc[q] /\ given'[q] = given[q]
  BY <1>1, <1>4
<1>7. Home[m] = p
  BY <1>2 DEF LateInv
<1>8. QED BY <1>2, <1>3, <1>5, <1>6, <1>7 DEF LateInv, Counting

LEMMA RxBurstLate ==
  ASSUME NEW Pc, SharedPc \subseteq Pc, TypeOKWith(Pc), LateInv,
         NEW p \in Port, RxBurstOf(p)
  PROVE  LateInv'
<1>1. PICK ms \in Seq(MBuf) : /\ \A m \in Range(ms) : Home[m] = p
                              /\ bufs' = [bufs EXCEPT ![p] = ms]
                              /\ \A m \in MBuf \ Range(ms) : pkt'[m] = pkt[m]
  <2>1. pool \subseteq MBuf /\ arrived[p] \in Nat
    BY WorkDistAssumption DEF TypeOKWith
  <2>2. \E k \in Nat \ {0}, ms \in Seq(MBuf) :
           /\ \A m \in Range(ms) : Home[m] = p
           /\ bufs' = [bufs EXCEPT ![p] = ms]
           /\ \A m \in MBuf \ Range(ms) : pkt'[m] = pkt[m]
    BY <2>1, RxBurstFills
  <2>3. QED BY <2>2
<1>2. \A m \in MBuf : Home[m] # p => pkt'[m] = pkt[m]
  BY <1>1
<1>3. pc[p] = "next" /\ UNCHANGED <<pc, given>> /\ bufs \in [Port -> Seq(MBuf)]
  BY DEF RxBurstOf, TypeOKWith
<1>4. \A q \in Port : \A m \in Range(bufs'[q]) : Home[m] = q
  BY <1>1, <1>3 DEF LateInv
<1>5. QED BY <1>2, <1>3, <1>4 DEF LateInv, Counting

LEMMA SharedRxLate ==
  ASSUME NEW Pc, SharedPc \subseteq Pc, TypeOKWith(Pc), LateInv,
         NEW p \in Port, SharedRx(p)
  PROVE  LateInv'
<1>1. pc \in [Port -> Pc] /\ given \in [Port -> Handover]
  BY DEF TypeOKWith
<1>2. CASE RxFreed(p)
  <2>1. pc[p] = "free" /\ UNCHANGED <<pkt, bufs, given>> /\ \A q \in Port : q # p => pc'[q] = pc[q]
    BY <1>1, <1>2 DEF RxFreed
  <2>2. given[p].ctr # "add" /\ pc'[p] # "free"
    BY <1>1, <1>2, <2>1 DEF LateInv, RxFreed
  <2>3. QED BY <2>1, <2>2, LateStays DEF Counting
<1>3. CASE RxBurstOf(p)
  BY <1>3, RxBurstLate
<1>4. CASE DropNonIp(p)
  BY <1>4, StartFreeLate DEF DropNonIp
<1>5. CASE LoadCounter(p)
  <2>1. /\ pc[p] = "load" /\ UNCHANGED <<pkt, bufs>> /\ pc'[p] = "store"
        /\ \A q \in Port : q # p => pc'[q] = pc[q] /\ given'[q] = given[q]
    BY <1>1, <1>5 DEF LoadCounter
  <2>2. given'[p].m = given[p].m /\ given'[p].was = given[p].was /\ given'[p].ctr = given[p].ctr
    BY <1>1, <1>5 DEF LoadCounter, Handover
  <2>3. QED BY <2>1, <2>2, LateStays DEF Counting
<1>6. CASE StoreCounter(p)
  <2>1. /\ UNCHANGED <<pkt, bufs>> /\ pc'[p] = "next"
        /\ \A q \in Port : q # p => pc'[q] = pc[q] /\ given'[q] = given[q]
    BY <1>1, <1>6 DEF StoreCounter
  <2>2. QED BY <2>1, LateStays DEF Counting
<1>7. QED BY <1>2, <1>3, <1>4, <1>5, <1>6 DEF SharedRx

LEMMA WorkerLate ==
  ASSUME LateInv, NEW f \in Fifo, Worker(f)
  PROVE  LateInv'
<1>1. UNCHANGED <<pkt, bufs, pc, given>>
  BY DEF Worker, FetchBurst, Transmit, WrkFreed, rxVars
<1>2. QED BY <1>1, LateStays

-----------------------------------------------------------------------------
(* queue_rx_add under lost updates *)

Reached(f) == wrkStat[f].fet + Len(ring[f])

(* A value loaded and not yet stored, with all increments still to come,   *)
(* claims no more than what reached the FIFO: this is what a store by one  *)
(* lcore must leave true of the older values that others will store.       *)
AddsInv ==
  /\ AddsNeverOvercount
  /\ \A f \in Fifo : \A p \in Uncounted(f) :
       pc[p] = "store" => given[p].val + Cardinality(Uncounted(f)) <= Reached(f)

LEMMA UncountedFinite ==
  \A f : /\ IsFiniteSet(Uncounted(f)) /\ Cardinality(Uncounted(f)) \in Nat
         /\ Uncounted(f) \subseteq Port
<1> TAKE f
<1>1. Uncounted(f) \subseteq Port
  BY DEF Uncounted
<1>2. IsFiniteSet(Uncounted(f))
  BY <1>1, WorkDistAssumption, FS_Subset
<1>3. QED BY <1>1, <1>2, FS_CardinalityType

LEMMA UncountedNext ==
  \A f : Uncounted(f)' = {p \in Port : Counting(p)' /\ given'[p].fifo = f}
BY DEF Uncounted, Counting

LEMMA UncountedNow ==
  \A f : Uncounted(f) = {p \in Port : Counting(p) /\ given[p].fifo = f}
BY DEF Uncounted, Counting

LEMMA AddsTypes ==
  ASSUME NEW Pc, TypeOKWith(Pc)
  PROVE  /\ \A f \in Fifo : /\ rxQueue["add"][f] \in Nat /\ Reached(f) \in Nat
                            /\ wrkStat[f].fet \in Nat /\ Len(ring[f]) \in Nat
         /\ \A p \in Port : given[p].val \in Nat /\ given[p].fifo \in Fifo
         /\ pc \in [Port -> Pc] /\ given \in [Port -> Handover]
<1>1. \A f \in Fifo : wrkStat[f].fet \in Nat /\ Len(ring[f]) \in Nat
  BY LenProperties DEF TypeOKWith
<1>2. \A f \in Fifo : Reached(f) \in Nat
  BY <1>1 DEF Reached
<1>3. \A f \in Fifo : rxQueue["add"][f] \in Nat
  BY DEF TypeOKWith
<1>4. \A p \in Port : given[p].val \in Nat /\ given[p].fifo \in Fifo
  BY DEF TypeOKWith, Handover
<1>5. QED BY <1>1, <1>2, <1>3, <1>4 DEF TypeOKWith

LEMMA InitAdds ==
  ASSUME Init
  PROVE  AddsInv
<1>1. \A f : Uncounted(f) = {}
  BY DEF Init, Uncounted
<1>2. \A f \in Fifo : rxQueue["add"][f] = 0 /\ wrkStat[f].fet = 0 /\ Len(ring[f]) = 0
  BY DEF Init
<1>3. \A f \in Fifo : rxQueue["add"][f] + Cardinality(Uncounted(f))
                        <= wrkStat[f].fet + Len(ring[f])
  <2>1. \A f : Cardinality(Uncounted(f)) = 0
    BY <1>1, FS_EmptySet
  <2>2. QED BY <1>2, <2>1
<1>4. QED BY <1>1, <1>3 DEF AddsInv, AddsNeverOvercount

(* A step that neither hands a packet over nor touches the counter.        *)
LEMMA AddsStay ==
  ASSUME AddsInv, rxQueue'["add"] = rxQueue["add"],
         \A f \in Fifo : Reached(f)' = Reached(f),
         NEW Pc, TypeOKWith(Pc),
         \A p \in Port : \/ pc'[p] = pc[p] /\ given'[p] = given[p]
                         \/ ~Counting(p) /\ ~Counting(p)'
  PROVE  AddsInv'
<1>1. \A f : Uncounted(f)' = Uncounted(f)
  BY UncountedNow, UncountedNext DEF Counting
<1>2. AddsNeverOvercount'
  <2>1. \A f \in Fifo : rxQueue["add"][f] + Cardinality(Uncounted(f)) <= Reached(f)
    BY DEF AddsInv, AddsNeverOvercount, Reached
  <2>2. \A f \in Fifo : rxQueue'["add"][f] + Cardinality(Uncounted(f)') <= Reached(f)'
    BY <1>1, <2>1
  <2>3. QED BY <2>2 DEF AddsNeverOvercount, Reached
<1>3. ASSUME NEW f \in Fifo, NEW p \in Uncounted(f)', pc'[p] = "store"
      PROVE  given'[p].val + Cardinality(Uncounted(f)') <= Reached(f)'
  <2>1. pc'[p] = pc[p] /\ given'[p] = given[p] /\ p \in Uncounted(f)
    BY <1>1, <1>3, UncountedNow, UncountedNext
  <2>2. given[p].val + Cardinality(Uncounted(f)) <= Reached(f)
    BY <1>3, <2>1 DEF AddsInv
  <2>3. QED BY <1>1, <2>1, <2>2
<1>4. QED BY <1>2, <1>3 DEF AddsInv

LEMMA EnqueueAdds ==
  ASSUME AddsInv, NEW Pc, SharedPc \subseteq Pc, TypeOKWith(Pc),
         NEW p \in Port, NEW f \in Fifo, bufs[p] # <<>>, ~Counting(p),
         Enqueue(p, f), UNCHANGED <<rxQueue, wrkStat>>
  PROVE  AddsInv'
<1> DEFINE m == Head(bufs[p])
<1>1. /\ ring \in [Fifo -> Seq(MBuf)] /\ bufs \in [Port -> Seq(MBuf)]
      /\ given \in [Port -> Handover] /\ pc \in [Port -> Pc]
  BY DEF TypeOKWith
<1>2. m \in MBuf
  BY <1>1, HeadTailProperties
<1>3. /\ ring' = [ring EXCEPT ![f] = Append(ring[f], m)]
      /\ given' = [given EXCEPT ![p] =
                     [m |-> m, was |-> pkt[m], fifo |-> f, ctr |-> "add", val |-> 0]]
      /\ pc' = [pc EXCEPT ![p] = "load"]
  BY DEF Enqueue
<1> HIDE DEF m
<1>4. Len(ring'[f]) = Len(ring[f]) + 1 /\ \A g \in Fifo : g # f => ring'[g] = ring[g]
  BY <1>1, <1>2, <1>3, AppendProperties
<1>5. /\ pc'[p] = "load" /\ given'[p].ctr = "add" /\ given'[p].fifo = f
      /\ \A q \in Port : q # p => pc'[q] = pc[q] /\ given'[q] = given[q]
  BY <1>1, <1>3
<1>6. /\ Reached(f)' = Reached(f) + 1
      /\ \A g \in Fifo : g # f => Reached(g)' = Reached(g)
  <2>1. Len(ring[f]) \in Nat /\ wrkStat[f].fet \in Nat
    BY AddsTypes
  <2>2. QED BY <1>4, <2>1 DEF Reached
<1>7. /\ Uncounted(f)' = Uncounted(f) \cup {p} /\ p \notin Uncounted(f)
      /\ \A g \in Fifo : g # f => Uncounted(g)' = Uncounted(g)
  BY <1>5, UncountedNow, UncountedNext DEF Counting
<1>8. Cardinality(Uncounted(f)') = Cardinality(Uncounted(f)) + 1
  BY <1>7, UncountedFinite, FS_AddElement
<1>9. \A v \in Nat, g \in Fifo : v + Cardinality(Uncounted(g)) <= Reached(g)
                          => v + Cardinality(Uncounted(g)') <= Reached(g)'
  <2> TAKE v \in Nat, g \in Fifo
  <2>1. Cardinality(Uncounted(g)) \in Nat /\ Reached(g) \in Nat
    BY UncountedFinite, AddsTypes
  <2>2. CASE g = f
    <3>1. Cardinality(Uncounted(g)') = Cardinality(Uncounted(g)) + 1 /\ Reached(g)' = Reached(g) + 1
      BY <2>2, <1>6, <1>8
    <3>2. QED BY <2>1, <3>1
  <2>3. CASE g # f
    <3>1. Uncounted(g)' = Uncounted(g) /\ Reached(g)' = Reached(g)
      BY <2>3, <1>6, <1>7
    <3>2. QED BY <3>1
  <2>4. QED BY <2>2, <2>3
<1>10. AddsNeverOvercount'
  <2>1. \A g \in Fifo : rxQueue["add"][g] + Cardinality(Uncounted(g)) <= Reached(g)
    BY DEF AddsInv, AddsNeverOvercount, Reached
  <2>2. \A g \in Fifo : rxQueue'["add"][g] + Cardinality(Uncounted(g)') <= Reached(g)'
    BY <1>9, <2>1, AddsTypes
  <2>3. QED BY <2>2 DEF AddsNeverOvercount, Reached
<1>11. ASSUME NEW g \in Fifo, NEW q \in Uncounted(g)', pc'[q] = "store"
       PROVE  given'[q].val + Cardinality(Uncounted(g)') <= Reached(g)'
  <2>1. q \in Port /\ q # p
    BY <1>5, <1>11, UncountedNext
  <2>2. pc'[q] = pc[q] /\ given'[q] = given[q] /\ q \in Uncounted(g)
    BY <1>5, <2>1, UncountedNow, UncountedNext DEF Counting
  <2>3. given[q].val + Cardinality(Uncounted(g)) <= Reached(g)
    BY <1>11, <2>2 DEF AddsInv
  <2>4. given[q].val \in Nat
    BY <2>1, AddsTypes
  <2>5. QED BY <1>9, <2>2, <2>3, <2>4
<1>12. QED BY <1>10, <1>11 DEF AddsInv

LEMMA LoadAdds ==
  ASSUME AddsInv, NEW Pc, SharedPc \subseteq Pc, TypeOKWith(Pc),
         NEW p \in Port, LoadCounter(p)
  PROVE  AddsInv'
<1>1. given \in [Port -> Handover] /\ pc \in [Port -> Pc]
  BY DEF TypeOKWith
<1>2. /\ pc[p] = "load" /\ pc'[p] = "store"
      /\ \A q \in Port : q # p => pc'[q] = pc[q] /\ given'[q] = given[q]
      /\ UNCHANGED <<rxQueue, wrkStat, ring>>
  BY <1>1 DEF LoadCounter
<1>3. /\ given'[p].val = rxQueue[given[p].ctr][given[p].fifo]
      /\ given'[p].ctr = given[p].ctr /\ given'[p].fifo = given[p].fifo
  BY <1>1 DEF LoadCounter, Handover
<1>4. \A f : Uncounted(f)' = Uncounted(f)
  BY <1>2, <1>3, UncountedNow, UncountedNext DEF Counting
<1>5. \A f : Reached(f)' = Reached(f)
  BY <1>2 DEF Reached
<1>6. \A f \in Fifo : rxQueue["add"][f] + Cardinality(Uncounted(f)) <= Reached(f)
  BY DEF AddsInv, AddsNeverOvercount, Reached
<1>7. AddsNeverOvercount'
  <2>1. \A f \in Fifo : rxQueue'["add"][f] + Cardinality(Uncounted(f)') <= Reached(f)'
    BY <1>2, <1>4, <1>5, <1>6
  <2>2. QED BY <2>1 DEF AddsNeverOvercount, Reached
<1>8. ASSUME NEW f \in Fifo, NEW q \in Uncounted(f)', pc'[q] = "store"
      PROVE  given'[q].val + Cardinality(Uncounted(f)') <= Reached(f)'
  <2>0. q \in Uncounted(f) /\ q \in Port
    BY <1>4, UncountedNow
  <2>1. CASE q = p
    <3>1. given[p].ctr = "add" /\ given[p].fifo = f
      BY <2>0, <2>1 DEF Uncounted
    <3>2. QED BY <1>3, <1>4, <1>5, <1>6, <2>1, <3>1
  <2>2. CASE q # p
    <3>1. pc'[q] = pc[q] /\ given'[q] = given[q]
      BY <1>2, <2>0, <2>2
    <3>2. given[q].val + Cardinality(Uncounted(f)) <= Reached(f)
      BY <1>8, <2>0, <3>1 DEF AddsInv
    <3>3. QED BY <1>4, <1>5, <3>1, <3>2
  <2>3. QED BY <2>1, <2>2
<1>9. QED BY <1>7, <1>8 DEF AddsInv

LEMMA StoreAdds ==
  ASSUME AddsInv, NEW Pc, SharedPc \subseteq Pc, TypeOKWith(Pc),
         NEW p \in Port, StoreCounter(p)
  PROVE  AddsInv'
<1>0. PICK f \in Fifo : given[p].fifo = f
  BY AddsTypes
<1>1. /\ given \in [Port -> Handover] /\ pc \in [Port -> Pc]
      /\ rxQueue \in [{"add", "drp"} -> [Fifo -> Nat]] /\ given[p].val \in Nat
  BY AddsTypes DEF TypeOKWith
<1>2. /\ pc[p] = "store" /\ pc'[p] = "next"
      /\ \A q \in Port : q # p => pc'[q] = pc[q] /\ given'[q] = given[q]
      /\ UNCHANGED <<wrkStat, ring>>
      /\ rxQueue' = [rxQueue EXCEPT ![given[p].ctr][f] = given[p].val + 1]
  BY <1>0, <1>1 DEF StoreCounter
<1>3. ~Counting(p)' /\ \A g : Reached(g)' = Reached(g)
  BY <1>2 DEF Counting, Reached
<1>4. CASE given[p].ctr # "add"
  <2>1. ~Counting(p) /\ rxQueue'["add"] = rxQueue["add"]
    BY <1>1, <1>2, <1>4 DEF Counting
  <2>2. QED BY <1>2, <1>3, <2>1, AddsStay
<1>5. CASE given[p].ctr = "add"
  <2>1. Counting(p)
    BY <1>2, <1>5 DEF Counting
  <2>2. /\ rxQueue'["add"][f] = given[p].val + 1
        /\ \A g \in Fifo : g # f => rxQueue'["add"][g] = rxQueue["add"][g]
    BY <1>1, <1>2, <1>5
  <2>3. /\ Uncounted(f)' = Uncounted(f) \ {p} /\ p \in Uncounted(f)
        /\ \A g \in Fifo : g # f => Uncounted(g)' = Uncounted(g)
    <3>1. \A q \in Port : q # p => (Counting(q)' <=> Counting(q))
      BY <1>2 DEF Counting
    <3>2. QED BY <1>0, <1>2, <1>3, <2>1, <3>1, UncountedNow, UncountedNext
  <2>4. Cardinality(Uncounted(f)') = Cardinality(Uncounted(f)) - 1
    BY <2>3, UncountedFinite, FS_RemoveElement
  <2>5. Cardinality(Uncounted(f)) \in Nat /\ Reached(f) \in Nat
    BY <1>1, UncountedFinite, AddsTypes
  <2>6. given[p].val + Cardinality(Uncounted(f)) <= Reached(f)
    BY <1>1, <1>2, <2>3 DEF AddsInv
  <2>7. (given[p].val + 1) + (Cardinality(Uncounted(f)) - 1) <= Reached(f)
    BY <1>1, <2>5, <2>6
  <2>8. AddsNeverOvercount'
    <3>1. \A g \in Fifo : rxQueue["add"][g] + Cardinality(Uncounted(g)) <= Reached(g)
      BY DEF AddsInv, AddsNeverOvercount, Reached
    <3>2. ASSUME NEW g \in Fifo
          PROVE  rxQueue'["add"][g] + Cardinality(Uncounted(g)') <= Reached(g)'
      <4>1. CASE g = f
        BY <1>3, <2>2, <2>4, <2>7, <4>1
      <4>2. CASE g # f
        BY <1>3, <2>2, <2>3, <3>1, <4>2
      <4>3. QED BY <4>1, <4>2
    <3>3. QED BY <3>2 DEF AddsNeverOvercount, Reached
  <2>9. ASSUME NEW g \in Fifo, NEW q \in Uncounted(g)', pc'[q] = "store"
        PROVE  given'[q].val + Cardinality(Uncounted(g)') <= Reached(g)'
    <3>1. q \in Port /\ q # p
      BY <1>3, UncountedNext
    <3>2. pc'[q] = pc[q] /\ given'[q] = given[q] /\ q \in Uncounted(g)
      BY <1>2, <2>3, <3>1
    <3>3. given[q].val + Cardinality(Uncounted(g)) <= Reached(g)
      BY <2>9, <3>2 DEF AddsInv
    <3>4. given[q].val \in Nat
      BY <3>1, AddsTypes
    <3>5. CASE g = f
      <4>1. given[q].val + (Cardinality(Uncounted(f)) - 1) <= Reached(f)
        BY <2>5, <3>3, <3>4, <3>5
      <4>2. QED BY <1>3, <2>4, <3>2, <3>5, <4>1
    <3>6. CASE g # f
      BY <1>3, <2>3, <3>2, <3>3, <3>6
    <3>7. QED BY <3>5, <3>6
  <2>10. QED BY <2>8, <2>9 DEF AddsInv
<1>6. QED BY <1>4, <1>5

LEMMA StartFreeAdds ==
  ASSUME AddsInv, NEW Pc, SharedPc \subseteq Pc, TypeOKWith(Pc),
         NEW p \in Port, NEW c, NEW f, ~Counting(p),
         StartFree(p, c, f), UNCHANGED <<ring, rxQueue, wrkStat>>
  PROVE  AddsInv'
<1>1. given \in [Port -> Handover] /\ pc \in [Port -> Pc]
  BY DEF TypeOKWith
<1>2. /\ pc'[p] = "free"
      /\ \A q \in Port : q # p => pc'[q] = pc[q] /\ given'[q] = given[q]
  BY <1>1 DEF StartFree
<1>3. ~Counting(p)' /\ \A g : Reached(g)' = Reached(g)
  BY <1>2 DEF Counting, Reached
<1>4. QED BY <1>2, <1>3, AddsStay

LEMMA SharedRxAdds ==
  ASSUME AddsInv, LateInv, NEW Pc, SharedPc \subseteq Pc, TypeOKWith(Pc),
         NEW p \in Port, SharedRx(p)
  PROVE  AddsInv'
<1>1. pc \in [Port -> Pc] /\ given \in [Port -> Handover]
  BY DEF TypeOKWith
<1>2. CASE RxFreed(p)
  <2>1. /\ pc[p] = "free" /\ UNCHANGED <<given, ring, rxQueue, wrkStat>>
        /\ \A q \in Port : q # p => pc'[q] = pc[q]
    BY <1>1, <1>2 DEF RxFreed
  <2>2. given[p].ctr # "add"
    BY <2>1 DEF LateInv
  <2>3. ~Counting(p) /\ ~Counting(p)' /\ \A g : Reached(g)' = Reached(g)
    BY <2>1, <2>2 DEF Counting, Reached
  <2>4. QED BY <2>1, <2>3, AddsStay
<1>3. CASE RxBurstOf(p)
  <2>1. UNCHANGED <<pc, given, ring, rxQueue, wrkStat>>
    BY <1>3 DEF RxBurstOf
  <2>2. \A g : Reached(g)' = Reached(g)
    BY <2>1 DEF Reached
  <2>3. QED BY <2>1, <2>2, AddsStay
<1>4. CASE DropNonIp(p)
  <2>1. /\ ~Counting(p) /\ StartFree(p, "none", 0)
        /\ UNCHANGED <<ring, rxQueue, wrkStat>>
    BY <1>4 DEF DropNonIp, Counting
  <2>2. QED BY <2>1, StartFreeAdds
<1>5. QED BY <1>2, <1>3, <1>4, LoadAdds, StoreAdds DEF SharedRx

LEMMA FetchBurstReached ==
  ASSUME NEW Pc, TypeOKWith(Pc), NEW f \in Fifo, FetchBurst(f)
  PROVE  /\ \A g \in Fifo : Reached(g)' = Reached(g)
         /\ Len(ptr'[f]) = BurstLen(f)
<1> DEFINE n == BurstLen(f)
<1>1. /\ ring \in [Fifo -> Seq(MBuf)] /\ ptr \in [Fifo -> Seq(MBuf)]
      /\ wrkStat \in [Fifo -> WrkStats]
  BY DEF TypeOKWith, WrkStats
<1>2. Len(ring[f]) \in Nat /\ n \in 0 .. Len(ring[f]) /\ wrkStat[f].fet \in Nat
  <2>1. Len(ring[f]) \in Nat
    BY <1>1, LenProperties
  <2>2. QED BY <1>1, <2>1, WorkDistAssumption DEF BurstLen, WrkStats
<1>3. /\ ptr' = [ptr EXCEPT ![f] = SubSeq(ring[f], 1, n)]
      /\ ring' = [ring EXCEPT ![f] = SubSeq(ring[f], n + 1, Len(ring[f]))]
      /\ wrkStat' = [wrkStat EXCEPT ![f] = [wrkStat[f] EXCEPT !.fet = @ + n]]
  BY DEF FetchBurst, CountFetched
<1> HIDE DEF n
<1>4. /\ Len(SubSeq(ring[f], 1, n)) = n
      /\ Len(SubSeq(ring[f], n + 1, Len(ring[f]))) = Len(ring[f]) - n
  BY <1>1, <1>2, SplitLen
<1>5. Len(ptr'[f]) = n /\ Len(ring'[f]) = Len(ring[f]) - n
  BY <1>1, <1>3, <1>4
<1>6. wrkStat'[f].fet = wrkStat[f].fet + n
  BY <1>1, <1>3 DEF WrkStats
<1>7. Reached(f)' = Reached(f)
  BY <1>2, <1>5, <1>6 DEF Reached
<1>8. \A g \in Fifo : g # f => Reached(g)' = Reached(g)
  BY <1>1, <1>3 DEF Reached
<1>9. QED BY <1>5, <1>7, <1>8 DEF n

LEMMA WorkerAdds ==
  ASSUME AddsInv, NEW Pc, SharedPc \subseteq Pc, TypeOKWith(Pc),
         NEW f \in Fifo, Worker(f)
  PROVE  AddsInv'
<1>1. UNCHANGED <<pc, given, rxQueue>>
  BY DEF Worker, FetchBurst, Transmit, WrkFreed, rxVars
<1>2. \A g \in Fifo : Reached(g)' = Reached(g)
  <2>1. CASE FetchBurst(f)
    BY <2>1, FetchBurstReached
  <2>2. CASE Transmit(f)
    <3>1. wrkStat \in [Fifo -> WrkStats]
      BY DEF TypeOKWith, WrkStats
    <3>2. \/ wrkStat' = [wrkStat EXCEPT ![f] = [wrkStat[f] EXCEPT !.fls = @ + 1]]
          \/ wrkStat' = [wrkStat EXCEPT ![f] = [wrkStat[f] EXCEPT !.drp = @ + 1]]
      BY <2>2 DEF Transmit
    <3>3. \A g \in Fifo : wrkStat'[g].fet = wrkStat[g].fet
      BY <3>1, <3>2 DEF WrkStats
    <3>4. QED BY <2>2, <3>3 DEF Transmit, Reached
  <2>3. CASE WrkFreed(f)
    BY <2>3 DEF WrkFreed, Reached
  <2>4. QED BY <2>1, <2>2, <2>3 DEF Worker
<1>3. QED BY <1>1, <1>2, AddsStay

-----------------------------------------------------------------------------
(* The statistics that one lcore alone writes *)

LEMMA InitStats ==
  ASSUME Init
  PROVE  StatsAccountForAll
BY DEF Init, StatsAccountForAll

LEMMA StatsStay ==
  ASSUME StatsAccountForAll, UNCHANGED <<arrived, rxStat, bufs, wrkStat, ptr>>
  PROVE  StatsAccountForAll'
BY DEF StatsAccountForAll

(* A packet is counted, as IPv4 or not, when it leaves the burst.          *)
LEMMA CountedStats ==
  ASSUME StatsAccountForAll, NEW Pc, TypeOKWith(Pc), NEW p \in Port, bufs[p] # <<>>,
         bufs' = [bufs EXCEPT ![p] = Tail(@)],
         \/ rxStat' = [rxStat EXCEPT ![p].ipv4 = @ + 1]
         \/ rxStat' = [rxStat EXCEPT ![p].nonIp = @ + 1],
         UNCHANGED <<arrived, wrkStat, ptr>>
  PROVE  StatsAccountForAll'
<1>1. bufs \in [Port -> Seq(MBuf)] /\ rxStat \in [Port -> RxStats]
  BY DEF TypeOKWith, RxStats
<1>2. Len(bufs'[p]) = Len(bufs[p]) - 1 /\ \A q \in Port : q # p => bufs'[q] = bufs[q]
  BY <1>1, HeadTailProperties
<1>3. /\ rxStat[p].ipv4 \in Nat /\ rxStat[p].nonIp \in Nat /\ Len(bufs[p]) \in Nat
  BY <1>1, LenProperties DEF RxStats
<1>4. /\ rxStat'[p].ipv4 + rxStat'[p].nonIp = rxStat[p].ipv4 + rxStat[p].nonIp + 1
      /\ rxStat'[p].ipv4 \in Nat /\ rxStat'[p].nonIp \in Nat
      /\ \A q \in Port : q # p => rxStat'[q] = rxStat[q]
  <2>1. CASE rxStat' = [rxStat EXCEPT ![p].ipv4 = @ + 1]
    <3>1. /\ rxStat'[p].ipv4 = rxStat[p].ipv4 + 1 /\ rxStat'[p].nonIp = rxStat[p].nonIp
          /\ \A q \in Port : q # p => rxStat'[q] = rxStat[q]
      BY <1>1, <2>1 DEF RxStats
    <3>2. QED BY <1>3, <3>1
  <2>2. CASE rxStat' = [rxStat EXCEPT ![p].nonIp = @ + 1]
    <3>1. /\ rxStat'[p].ipv4 = rxStat[p].ipv4 /\ rxStat'[p].nonIp = rxStat[p].nonIp + 1
          /\ \A q \in Port : q # p => rxStat'[q] = rxStat[q]
      BY <1>1, <2>2 DEF RxStats
    <3>2. QED BY <1>3, <3>1
  <2>3. QED BY <2>1, <2>2
<1>5. arrived[p] = rxStat[p].ipv4 + rxStat[p].nonIp + Len(bufs[p])
  BY DEF StatsAccountForAll
<1>6. arrived'[p] = rxStat'[p].ipv4 + rxStat'[p].nonIp + Len(bufs'[p])
  BY <1>2, <1>3, <1>4, <1>5
<1>7. QED BY <1>2, <1>4, <1>6 DEF StatsAccountForAll

LEMMA RxBurstStats ==
  ASSUME StatsAccountForAll, NEW Pc, TypeOKWith(Pc), NEW p \in Port, RxBurstOf(p)
  PROVE  StatsAccountForAll'
<1>1. /\ bufs \in [Port -> Seq(MBuf)] /\ arrived \in [Port -> Nat] /\ pool \subseteq MBuf
  BY WorkDistAssumption DEF TypeOKWith
<1>2. PICK k \in Nat \ {0}, ms \in Seq(MBuf) :
        /\ Len(ms) = k
        /\ bufs' = [bufs EXCEPT ![p] = ms]
        /\ arrived' = [arrived EXCEPT ![p] = @ + k]
  BY <1>1, RxBurstFills
<1>3. Len(ms) = k /\ k \in Nat
  BY <1>2
<1>4. bufs[p] = <<>> /\ UNCHANGED <<rxStat, wrkStat, ptr>>
  BY DEF RxBurstOf, wrkVars
<1>5. /\ bufs'[p] = ms /\ arrived'[p] = arrived[p] + k
      /\ \A q \in Port : q # p => bufs'[q] = bufs[q] /\ arrived'[q] = arrived[q]
  BY <1>2, <1>1
<1>6. arrived[p] = rxStat[p].ipv4 + rxStat[p].nonIp + Len(bufs[p]) /\ Len(bufs[p]) = 0
  BY <1>4 DEF StatsAccountForAll
<1>7. rxStat[p].ipv4 \in Nat /\ rxStat[p].nonIp \in Nat
  BY DEF TypeOKWith
<1>8. arrived'[p] = rxStat'[p].ipv4 + rxStat'[p].nonIp + Len(bufs'[p])
  BY <1>3, <1>4, <1>5, <1>6, <1>7
<1>9. QED BY <1>4, <1>5, <1>8 DEF StatsAccountForAll

LEMMA SharedRxStats ==
  ASSUME StatsAccountForAll, NEW Pc, TypeOKWith(Pc), NEW p \in Port, SharedRx(p)
  PROVE  StatsAccountForAll'
<1>1. CASE RxFreed(p) \/ LoadCounter(p) \/ StoreCounter(p)
  BY <1>1, StatsStay DEF RxFreed, LoadCounter, StoreCounter, wrkVars
<1>2. CASE DropNonIp(p)
  BY <1>2, CountedStats DEF DropNonIp, StartFree, wrkVars
<1>3. QED BY <1>1, <1>2, RxBurstStats DEF SharedRx

LEMMA WorkerStats ==
  ASSUME StatsAccountForAll, NEW Pc, TypeOKWith(Pc), NEW f \in Fifo, Worker(f)
  PROVE  StatsAccountForAll'
<1>1. /\ ptr \in [Fifo -> Seq(MBuf)] /\ wrkStat \in [Fifo -> WrkStats]
      /\ ring \in [Fifo -> Seq(MBuf)]
  BY DEF TypeOKWith, WrkStats
<1>2. /\ wrkStat[f].fet \in Nat /\ wrkStat[f].fls \in Nat /\ wrkStat[f].drp \in Nat
      /\ Len(ptr[f]) \in Nat /\ Len(ring[f]) \in Nat
      /\ wrkStat[f].fet = wrkStat[f].fls + wrkStat[f].drp + Len(ptr[f])
  BY <1>1, LenProperties DEF WrkStats, StatsAccountForAll
<1>3. CASE FetchBurst(f)
  <2> DEFINE n == BurstLen(f)
  <2>1. ptr[f] = <<>> /\ Len(ptr'[f]) = n
    BY <1>3, FetchBurstReached DEF FetchBurst
  <2>2. /\ wrkStat' = [wrkStat EXCEPT ![f] = [wrkStat[f] EXCEPT !.fet = @ + n]]
        /\ UNCHANGED <<arrived, rxStat, bufs>>
        /\ \A g \in Fifo : g # f => ptr'[g] = ptr[g]
    BY <1>1, <1>3 DEF FetchBurst, CountFetched, rxVars
  <2>3. n \in Nat
    BY <1>2, WorkDistAssumption DEF BurstLen
  <2> HIDE DEF n
  <2>4. /\ wrkStat'[f].fet = wrkStat[f].fet + n
        /\ wrkStat'[f].fls = wrkStat[f].fls /\ wrkStat'[f].drp = wrkStat[f].drp
        /\ \A g \in Fifo : g # f => wrkStat'[g] = wrkStat[g]
    BY <1>1, <2>2 DEF WrkStats
  <2>5. Len(ptr[f]) = 0
    BY <2>1
  <2>6. wrkStat'[f].fet = wrkStat'[f].fls + wrkStat'[f].drp + Len(ptr'[f])
    BY <1>2, <2>1, <2>3, <2>4, <2>5
  <2>7. QED BY <2>2, <2>4, <2>6 DEF StatsAccountForAll
<1>4. CASE Transmit(f)
  <2>1. /\ ptr[f] # <<>> /\ ptr' = [ptr EXCEPT ![f] = Tail(ptr[f])]
        /\ UNCHANGED <<arrived, rxStat, bufs>>
        /\ \/ wrkStat' = [wrkStat EXCEPT ![f] = [wrkStat[f] EXCEPT !.fls = @ + 1]]
           \/ wrkStat' = [wrkStat EXCEPT ![f] = [wrkStat[f] EXCEPT !.drp = @ + 1]]
    BY <1>4 DEF Transmit, rxVars
  <2>2. /\ Len(ptr'[f]) = Len(ptr[f]) - 1
        /\ \A g \in Fifo : g # f => ptr'[g] = ptr[g] /\ wrkStat'[g] = wrkStat[g]
    BY <1>1, <2>1, HeadTailProperties
  <2>3. wrkStat'[f].fet = wrkStat[f].fet /\ Len(ptr'[f]) = Len(ptr[f]) - 1
    BY <1>1, <2>1, <2>2 DEF WrkStats
  <2>4. wrkStat'[f].fet = wrkStat'[f].fls + wrkStat'[f].drp + Len(ptr'[f])
    <3> DEFINE a == wrkStat[f].fet  b == wrkStat[f].fls  c == wrkStat[f].drp  d == Len(ptr[f])
    <3>0. a \in Nat /\ b \in Nat /\ c \in Nat /\ d \in Nat /\ a = b + c + d
      BY <1>2
    <3>1. CASE wrkStat' = [wrkStat EXCEPT ![f] = [wrkStat[f] EXCEPT !.fls = @ + 1]]
      <4>1. wrkStat'[f].fls = b + 1 /\ wrkStat'[f].drp = c
        BY <1>1, <3>1 DEF WrkStats
      <4> HIDE DEF a, b, c, d
      <4>2. a = (b + 1) + c + (d - 1)
        BY <3>0
      <4>3. QED BY <2>3, <4>1, <4>2 DEF a, d
    <3>2. CASE wrkStat' = [wrkStat EXCEPT ![f] = [wrkStat[f] EXCEPT !.drp = @ + 1]]
      <4>1. wrkStat'[f].fls = b /\ wrkStat'[f].drp = c + 1
        BY <1>1, <3>2 DEF WrkStats
      <4> HIDE DEF a, b, c, d
      <4>2. a = b + (c + 1) + (d - 1)
        BY <3>0
      <4>3. QED BY <2>3, <4>1, <4>2 DEF a, d
    <3>3. QED BY <2>1, <3>1, <3>2
  <2>5. QED BY <2>1, <2>2, <2>4 DEF StatsAccountForAll
<1>5. CASE WrkFreed(f)
  BY <1>5, StatsStay DEF WrkFreed, rxVars, wrkVars
<1>6. QED BY <1>3, <1>4, <1>5 DEF Worker

-----------------------------------------------------------------------------
(* The order of the frames of a flow *)

Queued(f) == Range(ring[f]) \cup Range(ptr[f])

(* Frames of port p that have left its burst.                              *)
Passed(p) == arrived[p] - Len(bufs[p])

SameFlow(a, b) == Home[a] = Home[b] /\ pkt[a].flow = pkt[b].flow
Before(a, b)   == SameFlow(a, b) => pkt[a].n < pkt[b].n
InOrder(s)     == \A i, j \in DOMAIN s : i < j => Before(s[i], s[j])

(* A burst holds the frames that arrived last, oldest first; what was      *)
(* queued is older, and in each FIFO in order of arrival.                  *)
OrderInv ==
  /\ \A p \in Port : \A i \in DOMAIN bufs[p] : pkt[bufs[p][i]].n = Passed(p) + i
  /\ \A f \in Fifo : InOrder(ring[f]) /\ InOrder(ptr[f])
  /\ \A f \in Fifo : \A a \in Range(ptr[f]), b \in Range(ring[f]) : Before(a, b)
  /\ \A f \in Fifo : \A m \in Queued(f) : pkt[m].flow \in Flow /\ pkt[m].n <= Passed(Home[m])

(* What was transmitted last of a flow is older than what is queued of it. *)
LastInv ==
  /\ \A x \in Port \X Flow : last[x] <= Passed(x[1])
  /\ \A f \in Fifo : \A m \in Queued(f) : last[<<Home[m], pkt[m].flow>>] < pkt[m].n

(* The frames of a flow meet in one FIFO: what the variants have to show.  *)
OneFifo ==
  \A f, g \in Fifo : \A a \in Queued(f), b \in Queued(g) : SameFlow(a, b) => f = g

LEMMA OrderTypes ==
  ASSUME NEW Pc, TypeOKWith(Pc)
  PROVE  /\ pkt \in [MBuf -> Packet] /\ last \in [Port \X Flow -> Nat]
         /\ bufs \in [Port -> Seq(MBuf)] /\ ring \in [Fifo -> Seq(MBuf)]
         /\ ptr \in [Fifo -> Seq(MBuf)]
         /\ \A p \in Port : /\ arrived[p] \in Nat /\ Len(bufs[p]) \in Nat
                            /\ Passed(p) \in Int
         /\ \A m \in MBuf : Home[m] \in Port /\ pkt[m].n \in Nat /\ pkt[m].flow \in Kind
         /\ \A f \in Fifo : Queued(f) \subseteq MBuf
<1>1. \A p \in Port : arrived[p] \in Nat /\ Len(bufs[p]) \in Nat
  BY WorkDistAssumption, LenProperties DEF TypeOKWith
<1>2. \A p \in Port : Passed(p) \in Int
  BY <1>1 DEF Passed
<1>3. \A m \in MBuf : Home[m] \in Port /\ pkt[m].n \in Nat /\ pkt[m].flow \in Kind
  BY WorkDistAssumption DEF TypeOKWith, Packet
<1>4. \A f \in Fifo : Queued(f) \subseteq MBuf
  BY RangeInSet DEF TypeOKWith, Queued
<1>5. QED BY <1>1, <1>2, <1>3, <1>4 DEF TypeOKWith

LEMMA InitOrder ==
  ASSUME Init
  PROVE  OrderInv /\ LastInv /\ OneFifo
<1>1. \A f \in Fifo : Queued(f) = {} /\ Range(ptr[f]) = {}
  BY EmptyRange DEF Init, Queued
<1>2. \A p \in Port : DOMAIN bufs[p] = {} /\ Passed(p) = 0
  BY DEF Init, Passed
<1>3. \A f \in Fifo : DOMAIN ring[f] = {} /\ DOMAIN ptr[f] = {}
  BY DEF Init
<1>4. \A x \in Port \X Flow : x[1] \in Port /\ last[x] = 0
  BY DEF Init
<1>5. QED BY <1>1, <1>2, <1>3, <1>4 DEF OrderInv, LastInv, OneFifo, InOrder

LEMMA OrderStays ==
  ASSUME OrderInv, LastInv, UNCHANGED <<arrived, bufs, pkt, ring, ptr, last>>
  PROVE  OrderInv' /\ LastInv'
BY DEF OrderInv, LastInv, InOrder, Before, SameFlow, Passed, Queued

(* Two sequences with one set of elements in between: what an append and   *)
(* a split do to the order.                                                *)
LEMMA AppendInOrder ==
  ASSUME NEW s \in Seq(MBuf), NEW e \in MBuf, InOrder(s),
         \A m \in Range(s) : Before(m, e)
  PROVE  InOrder(Append(s, e))
<1> DEFINE t == Append(s, e)
<1>1. /\ Len(s) \in Nat /\ DOMAIN s = 1 .. Len(s) /\ DOMAIN t = 1 .. Len(s) + 1
      /\ \A i \in 1 .. Len(s) : t[i] = s[i]
      /\ t[Len(s) + 1] = e
  BY AppendProperties, LenProperties
<1> HIDE DEF t
<1>2. \A i \in 1 .. Len(s) : s[i] \in Range(s)
  BY <1>1 DEF Range
<1>3. ASSUME NEW i \in DOMAIN t, NEW j \in DOMAIN t, i < j
      PROVE  Before(t[i], t[j])
  <2>1. i \in 1 .. Len(s)
    BY <1>1, <1>3
  <2>2. CASE j \in 1 .. Len(s)
    BY <1>1, <1>3, <2>1, <2>2 DEF InOrder
  <2>3. CASE j = Len(s) + 1
    BY <1>1, <1>2, <2>1, <2>3
  <2>4. QED BY <1>1, <2>2, <2>3
<1>4. QED BY <1>3 DEF InOrder, t

LEMMA TailInOrder ==
  ASSUME NEW s \in Seq(MBuf), s # <<>>, InOrder(s)
  PROVE  /\ InOrder(Tail(s))
         /\ \A m \in Range(Tail(s)) : Before(Head(s), m)
<1>1. /\ Len(s) \in Nat \ {0} /\ DOMAIN s = 1 .. Len(s)
      /\ DOMAIN Tail(s) = 1 .. Len(s) - 1 /\ Head(s) = s[1]
      /\ \A i \in 1 .. Len(s) - 1 : Tail(s)[i] = s[i + 1]
  BY HeadTailProperties, LenProperties, EmptySeq
<1>2. ASSUME NEW i \in 1 .. Len(s) - 1, NEW j \in 1 .. Len(s) - 1, i < j
      PROVE  Before(Tail(s)[i], Tail(s)[j])
  <2>1. i + 1 \in 1 .. Len(s) /\ j + 1 \in 1 .. Len(s) /\ i + 1 < j + 1
    BY <1>1, <1>2
  <2>2. QED BY <1>1, <2>1 DEF InOrder
<1>3. ASSUME NEW i \in 1 .. Len(s) - 1
      PROVE  Before(s[1], Tail(s)[i])
  <2>1. i + 1 \in 1 .. Len(s) /\ 1 \in 1 .. Len(s) /\ 1 < i + 1
    BY <1>1
  <2>2. QED BY <1>1, <2>1 DEF InOrder
<1>4. QED BY <1>1, <1>2, <1>3 DEF InOrder, Range

LEMMA SplitInOrder ==
  ASSUME NEW s \in Seq(MBuf), NEW n \in 0 .. Len(s), InOrder(s)
  PROVE  LET a == SubSeq(s, 1, n)
             b == SubSeq(s, n + 1, Len(s))
         IN  /\ InOrder(a) /\ InOrder(b)
             /\ \A x \in Range(a), y \in Range(b) : Before(x, y)
             /\ Range(a) \subseteq Range(s) /\ Range(b) \subseteq Range(s)
<1> DEFINE a == SubSeq(s, 1, n)
           b == SubSeq(s, n + 1, Len(s))
<1>1. /\ a \in Seq(MBuf) /\ Len(a) = n /\ \A i \in 1 .. n : a[i] = s[i]
      /\ b \in Seq(MBuf) /\ Len(b) = Len(s) - n
      /\ \A i \in 1 .. Len(s) - n : b[i] = s[i + n]
  BY SplitLen
<1>2. /\ Len(s) \in Nat /\ n \in Nat /\ n <= Len(s) /\ DOMAIN s = 1 .. Len(s)
      /\ DOMAIN a = 1 .. n /\ DOMAIN b = 1 .. Len(s) - n
  BY <1>1, LenProperties
<1> HIDE DEF a, b
<1>3. \A i \in 1 .. n : i \in 1 .. Len(s)
  BY <1>2
<1>4. \A i \in 1 .. Len(s) - n : i + n \in 1 .. Len(s)
  BY <1>2
<1>5. InOrder(a)
  BY <1>1, <1>2, <1>3 DEF InOrder
<1>6. InOrder(b)
  <2> SUFFICES ASSUME NEW i \in 1 .. Len(s) - n, NEW j \in 1 .. Len(s) - n, i < j
               PROVE  Before(b[i], b[j])
    BY <1>2 DEF InOrder
  <2>1. i + n < j + n
    BY <1>2
  <2>2. QED BY <1>1, <1>2, <1>4, <2>1 DEF InOrder
<1>7. ASSUME NEW i \in 1 .. n, NEW j \in 1 .. Len(s) - n
      PROVE  Before(a[i], b[j])
  <2>1. i < j + n
    BY <1>2
  <2>2. QED BY <1>1, <1>2, <1>3, <1>4, <2>1 DEF InOrder
<1>8. Range(a) \subseteq Range(s) /\ Range(b) \subseteq Range(s)
  <2>1. \A i \in 1 .. Len(s) : s[i] \in Range(s)
    BY <1>2 DEF Range
  <2>2. \A i \in DOMAIN a : a[i] \in Range(s)
    BY <1>1, <1>2, <1>3, <2>1
  <2>3. \A i \in DOMAIN b : b[i] \in Range(s)
    BY <1>1, <1>2, <1>4, <2>1
  <2>4. \A e \in Range(a) : \E i \in DOMAIN a : a[i] = e
    BY DEF Range
  <2>5. \A e \in Range(b) : \E i \in DOMAIN b : b[i] = e
    BY DEF Range
  <2>6. QED BY <2>2, <2>3, <2>4, <2>5
<1>9. \A x \in Range(a), y \in Range(b) : Before(x, y)
  BY <1>2, <1>7 DEF Range
<1>10. QED BY <1>5, <1>6, <1>8, <1>9 DEF a, b

(* Where the mbufs of bursts and FIFOs are not.                            *)
LEMMA HeldOnce ==
  ASSUME SoleOwner
  PROVE  /\ \A p, q \in Port : p # q => Range(bufs[p]) \cap Range(bufs[q]) = {}
         /\ \A p \in Port, f \in Fifo : Range(bufs[p]) \cap Queued(f) = {}
         /\ \A f, g \in Fifo : f # g => Queued(f) \cap Queued(g) = {}
         /\ \A f \in Fifo : Range(ring[f]) \cap Range(ptr[f]) = {}
         /\ \A p \in Port : Range(bufs[p]) \cap pool = {}
         /\ \A f \in Fifo : Queued(f) \cap pool = {}
<1>1. ASSUME NEW p \in Port, NEW q \in Port, p # q
      PROVE  Range(bufs[p]) \cap Range(bufs[q]) = {}
  <2>1. <<"bufs", p>> # <<"bufs", q>>
    BY <1>1
  <2>2. QED BY <2>1, AtPlace, PlaceMembers DEF SoleOwner
<1>2. ASSUME NEW p \in Port, NEW f \in Fifo
      PROVE  Range(bufs[p]) \cap Queued(f) = {}
  <2>1. <<"bufs", p>> # <<"ring", f>> /\ <<"bufs", p>> # <<"ptr", f>>
    OBVIOUS
  <2>2. Range(bufs[p]) \cap Range(ring[f]) = {}
    BY <2>1, AtPlace, PlaceMembers DEF SoleOwner
  <2>3. Range(bufs[p]) \cap Range(ptr[f]) = {}
    BY <2>1, AtPlace, PlaceMembers DEF SoleOwner
  <2>4. QED BY <2>2, <2>3 DEF Queued
<1>3. ASSUME NEW f \in Fifo, NEW g \in Fifo
      PROVE  Range(ring[f]) \cap Range(ptr[g]) = {}
  <2>1. <<"ring", f>> # <<"ptr", g>>
    OBVIOUS
  <2>2. QED BY <2>1, AtPlace, PlaceMembers DEF SoleOwner
<1>4. ASSUME NEW f \in Fifo, NEW g \in Fifo, f # g
      PROVE  Queued(f) \cap Queued(g) = {}
  <2>1. <<"ring", f>> # <<"ring", g>> /\ <<"ptr", f>> # <<"ptr", g>>
    BY <1>4
  <2>2. Range(ring[f]) \cap Range(ring[g]) = {}
    BY <2>1, AtPlace, PlaceMembers DEF SoleOwner
  <2>3. Range(ptr[f]) \cap Range(ptr[g]) = {}
    BY <2>1, AtPlace, PlaceMembers DEF SoleOwner
  <2>4. Range(ring[f]) \cap Range(ptr[g]) = {} /\ Range(ring[g]) \cap Range(ptr[f]) = {}
    BY <1>3
  <2>5. QED BY <2>2, <2>3, <2>4 DEF Queued
<1>5. ASSUME NEW p \in Port
      PROVE  Range(bufs[p]) \cap pool = {}
  <2>1. <<"bufs", p>> # <<"pool", 0>>
    OBVIOUS
  <2>2. QED BY <2>1, AtPlace, PlaceMembers DEF SoleOwner
<1>6. ASSUME NEW f \in Fifo
      PROVE  Queued(f) \cap pool = {}
  <2>1. <<"ring", f>> # <<"pool", 0>> /\ <<"ptr", f>> # <<"pool", 0>>
    OBVIOUS
  <2>2. Range(ring[f]) \cap pool = {}
    BY <2>1, AtPlace, PlaceMembers DEF SoleOwner
  <2>3. Range(ptr[f]) \cap pool = {}
    BY <2>1, AtPlace, PlaceMembers DEF SoleOwner
  <2>4. QED BY <2>2, <2>3 DEF Queued
<1>7. QED BY <1>1, <1>2, <1>3, <1>4, <1>5, <1>6

(* A burst from the NIC: what the mbufs hold afterwards.                   *)
LEMMA RxBurstInOrder ==
  ASSUME NEW Pc, TypeOKWith(Pc), NEW p \in Port, p \notin spoiled, RxBurstOf(p)
  PROVE  \E k \in Nat \ {0}, ms \in Seq(MBuf) :
           /\ Len(ms) = k /\ Range(ms) \subseteq pool
           /\ \A m \in Range(ms) : Home[m] = p
           /\ bufs' = [bufs EXCEPT ![p] = ms]
           /\ arrived' = [arrived EXCEPT ![p] = @ + k]
           /\ \A m \in MBuf \ Range(ms) : pkt'[m] = pkt[m]
           /\ \A i \in 1 .. k : pkt'[ms[i]].n = arrived[p] + i
<1>1. pool \subseteq MBuf /\ arrived[p] \in Nat
  BY WorkDistAssumption DEF TypeOKWith
<1>2. PICK k \in Nat \ {0}, ms \in Seq(MBuf) :
        /\ Len(ms) = k /\ DOMAIN ms = 1 .. k
        /\ \A m \in Range(ms) : Home[m] = p
        /\ IsInjective(ms) /\ Range(ms) \subseteq pool
        /\ bufs' = [bufs EXCEPT ![p] = ms]
        /\ arrived' = [arrived EXCEPT ![p] = @ + k]
        /\ \A m \in MBuf \ Range(ms) : pkt'[m] = pkt[m]
        /\ \A m \in Range(ms) : \E i \in 1 .. k : ms[i] = m /\ pkt'[m].n = arrived[p] + i
  <2>1. \E k \in Nat \ {0}, ms \in Seq(MBuf) :
          /\ Len(ms) = k /\ DOMAIN ms = 1 .. k
          /\ \A m \in Range(ms) : Home[m] = p
          /\ p \notin spoiled => IsInjective(ms) /\ Range(ms) \subseteq pool
          /\ bufs' = [bufs EXCEPT ![p] = ms]
          /\ arrived' = [arrived EXCEPT ![p] = @ + k]
          /\ \A m \in MBuf \ Range(ms) : pkt'[m] = pkt[m]
          /\ \A m \in Range(ms) : \E i \in 1 .. k : ms[i] = m /\ pkt'[m].n = arrived[p] + i
    BY <1>1, RxBurstFills
  <2>2. QED BY <2>1
<1>3. ASSUME NEW i \in 1 .. k
      PROVE  pkt'[ms[i]].n = arrived[p] + i
  <2>1. ms[i] \in Range(ms)
    BY <1>2 DEF Range
  <2>2. PICK j \in 1 .. k : ms[j] = ms[i] /\ pkt'[ms[i]].n = arrived[p] + j
    BY <1>2, <2>1
  <2>3. j = i
    BY <1>2, <2>2 DEF IsInjective
  <2>4. QED BY <2>2, <2>3
<1>4. QED BY <1>2, <1>3

LEMMA RxBurstOrder ==
  ASSUME NEW Pc, TypeOKWith(Pc), SoleOwner, OrderInv, LastInv,
         NEW p \in Port, p \notin spoiled, RxBurstOf(p)
  PROVE  OrderInv' /\ LastInv'
<1>1. PICK k \in Nat \ {0}, ms \in Seq(MBuf) :
        /\ Len(ms) = k /\ Range(ms) \subseteq pool
        /\ \A m \in Range(ms) : Home[m] = p
        /\ bufs' = [bufs EXCEPT ![p] = ms]
        /\ arrived' = [arrived EXCEPT ![p] = @ + k]
        /\ \A m \in MBuf \ Range(ms) : pkt'[m] = pkt[m]
        /\ \A i \in 1 .. k : pkt'[ms[i]].n = arrived[p] + i
  BY RxBurstInOrder
<1>2. UNCHANGED <<ring, ptr, last>> /\ bufs[p] = <<>>
  BY DEF RxBurstOf, wrkVars
<1>3. /\ bufs \in [Port -> Seq(MBuf)] /\ arrived \in [Port -> Nat]
      /\ \A q \in Port : arrived[q] \in Nat
  BY OrderTypes DEF TypeOKWith
<1>4. \A q \in Port : bufs'[q] = IF q = p THEN ms ELSE bufs[q]
  BY <1>1, <1>3
<1>5. \A q \in Port : arrived'[q] = IF q = p THEN arrived[p] + k ELSE arrived[q]
  BY <1>1, <1>3
<1>6. Passed(p) = arrived[p] /\ Passed(p)' = arrived[p]
  <2>1. Len(bufs[p]) = 0 /\ Len(bufs'[p]) = k /\ arrived[p] \in Nat
    BY <1>1, <1>2, <1>3, <1>4
  <2>2. arrived'[p] = arrived[p] + k
    BY <1>5
  <2>3. QED BY <2>1, <2>2 DEF Passed
<1>7. \A q \in Port : Passed(q)' = Passed(q)
  <2>1. ASSUME NEW q \in Port, q # p
        PROVE  Passed(q)' = Passed(q)
    BY <1>4, <1>5, <2>1 DEF Passed
  <2>2. QED BY <1>6, <2>1
<1>8. \A f \in Fifo : Queued(f)' = Queued(f) /\ Queued(f) \subseteq MBuf
  BY <1>2, OrderTypes DEF Queued
<1>9. \A f \in Fifo : \A m \in Queued(f) : pkt'[m] = pkt[m]
  BY <1>1, <1>8, HeldOnce
<1>10. \A f \in Fifo : /\ \A i \in DOMAIN ring[f] : ring[f][i] \in Queued(f)
                       /\ \A i \in DOMAIN ptr[f] : ptr[f][i] \in Queued(f)
                       /\ Range(ptr[f]) \subseteq Queued(f)
                       /\ Range(ring[f]) \subseteq Queued(f)
  BY DEF Queued, Range
<1>11. \A q \in Port : \A i \in DOMAIN bufs'[q] : pkt'[bufs'[q][i]].n = Passed(q)' + i
  <2>1. ASSUME NEW i \in DOMAIN bufs'[p]
        PROVE  pkt'[bufs'[p][i]].n = Passed(p)' + i
    <3>1. i \in 1 .. k /\ bufs'[p][i] = ms[i]
      BY <1>1, <1>4, LenProperties
    <3>2. QED BY <1>1, <1>6, <3>1
  <2>2. ASSUME NEW q \in Port, q # p, NEW i \in DOMAIN bufs'[q]
        PROVE  pkt'[bufs'[q][i]].n = Passed(q)' + i
    <3>1. bufs'[q] = bufs[q] /\ bufs[q][i] \in Range(bufs[q])
      BY <1>4, <2>2 DEF Range
    <3>2. bufs[q][i] \in MBuf \ Range(ms)
      BY <1>1, <1>3, <3>1, HeldOnce, RangeInSet
    <3>3. pkt'[bufs[q][i]] = pkt[bufs[q][i]]
      BY <1>1, <3>2
    <3>4. pkt[bufs[q][i]].n = Passed(q) + i
      BY <2>2, <3>1 DEF OrderInv
    <3>5. QED BY <1>7, <3>1, <3>3, <3>4
  <2>3. QED BY <2>1, <2>2
<1>12. \A f \in Fifo : InOrder(ring[f])' /\ InOrder(ptr[f])'
  BY <1>2, <1>9, <1>10 DEF OrderInv, InOrder, Before, SameFlow
<1>13. \A f \in Fifo : \A a \in Range(ptr'[f]), b \in Range(ring'[f]) : Before(a, b)'
  BY <1>2, <1>9, <1>10 DEF OrderInv, Before, SameFlow
<1>14. \A f \in Fifo : \A m \in Queued(f) : pkt'[m].flow \in Flow /\ pkt'[m].n <= Passed(Home[m])'
  <2>1. \A f \in Fifo : \A m \in Queued(f) : Home[m] \in Port
    BY <1>8, OrderTypes
  <2>2. QED BY <1>7, <1>9, <2>1 DEF OrderInv
<1>15. \A x \in Port \X Flow : last'[x] <= Passed(x[1])'
  BY <1>2, <1>7 DEF LastInv
<1>16. OrderInv'
  BY <1>8, <1>11, <1>12, <1>13, <1>14 DEF OrderInv
<1>17. LastInv'
  BY <1>2, <1>8, <1>9, <1>15 DEF LastInv
<1>18. QED BY <1>16, <1>17
(* Taking the head off a burst.                                            *)
LEMMA BurstTail ==
  ASSUME NEW Pc, TypeOKWith(Pc), OrderInv,
         NEW p \in Port, bufs[p] # <<>>,
         bufs' = [bufs EXCEPT ![p] = Tail(@)], UNCHANGED <<arrived, pkt>>
  PROVE  /\ Passed(p)' = Passed(p) + 1
         /\ \A q \in Port : Passed(q) <= Passed(q)'
         /\ \A q \in Port : \A i \in DOMAIN bufs'[q] : pkt'[bufs'[q][i]].n = Passed(q)' + i
         /\ pkt[Head(bufs[p])].n = Passed(p) + 1
<1>1. /\ bufs \in [Port -> Seq(MBuf)]
      /\ \A q \in Port : arrived[q] \in Nat /\ Passed(q) \in Int
  BY OrderTypes
<1>2. /\ Len(bufs[p]) \in Nat \ {0} /\ DOMAIN bufs[p] = 1 .. Len(bufs[p])
      /\ Head(bufs[p]) = bufs[p][1]
      /\ Len(Tail(bufs[p])) = Len(bufs[p]) - 1
      /\ DOMAIN Tail(bufs[p]) = 1 .. Len(bufs[p]) - 1
      /\ \A i \in 1 .. Len(bufs[p]) - 1 : Tail(bufs[p])[i] = bufs[p][i + 1]
  BY <1>1, HeadTailProperties, LenProperties, EmptySeq
<1>3. bufs'[p] = Tail(bufs[p]) /\ \A q \in Port : q # p => bufs'[q] = bufs[q]
  BY <1>1
<1>4. Passed(p)' = Passed(p) + 1
  <2>1. Passed(p)' = arrived[p] - (Len(bufs[p]) - 1)
    BY <1>2, <1>3 DEF Passed
  <2>2. arrived[p] \in Nat
    BY <1>1
  <2>3. QED BY <1>2, <2>1, <2>2 DEF Passed
<1>5. \A q \in Port : q # p => Passed(q)' = Passed(q)
  BY <1>3 DEF Passed
<1>6. \A q \in Port : Passed(q) <= Passed(q)'
  BY <1>1, <1>4, <1>5
<1>7. \A i \in 1 .. Len(bufs[p]) : pkt[bufs[p][i]].n = Passed(p) + i
  BY <1>2 DEF OrderInv
<1>8. pkt[Head(bufs[p])].n = Passed(p) + 1
  <2>1. 1 \in 1 .. Len(bufs[p])
    BY <1>2
  <2>2. QED BY <1>2, <1>7, <2>1
<1>9. ASSUME NEW i \in DOMAIN bufs'[p]
      PROVE  pkt'[bufs'[p][i]].n = Passed(p)' + i
  <2>1. i \in 1 .. Len(bufs[p]) - 1
    BY <1>2, <1>3
  <2>2. i + 1 \in 1 .. Len(bufs[p]) /\ bufs'[p][i] = bufs[p][i + 1]
    <3>1. Len(bufs[p]) \in Nat
      BY <1>2
    <3>2. i + 1 \in 1 .. Len(bufs[p])
      BY <2>1, <3>1
    <3>3. QED BY <1>2, <1>3, <2>1, <3>2
  <2>3. pkt[bufs[p][i + 1]].n = Passed(p) + (i + 1)
    BY <1>7, <2>2
  <2>4. Passed(p) + (i + 1) = Passed(p) + 1 + i
    BY <1>1, <2>1
  <2>5. QED BY <1>4, <2>2, <2>3, <2>4
<1>10. ASSUME NEW q \in Port, q # p, NEW i \in DOMAIN bufs'[q]
       PROVE  pkt'[bufs'[q][i]].n = Passed(q)' + i
  BY <1>3, <1>5, <1>10 DEF OrderInv
<1>11. QED BY <1>4, <1>6, <1>8, <1>9, <1>10

(* The queued frames stay behind what has passed when more passes.         *)
LEMMA QueuedBehind ==
  ASSUME NEW Pc, TypeOKWith(Pc), OrderInv, LastInv, pkt' = pkt, last' = last,
         \A q \in Port : Passed(q)' \in Int /\ Passed(q) <= Passed(q)'
  PROVE  /\ \A f \in Fifo : \A m \in Queued(f) :
              pkt'[m].flow \in Flow /\ pkt'[m].n <= Passed(Home[m])'
         /\ \A x \in Port \X Flow : last'[x] <= Passed(x[1])'
<1>1. ASSUME NEW f \in Fifo, NEW m \in Queued(f)
      PROVE  pkt'[m].flow \in Flow /\ pkt'[m].n <= Passed(Home[m])'
  <2>1. Home[m] \in Port /\ pkt[m].n \in Nat
    BY OrderTypes
  <2> DEFINE a == pkt[m].n
             b == Passed(Home[m])
  <2>2. PICK c : c = Passed(Home[m])'
    OBVIOUS
  <2>3. a <= b /\ b <= c /\ a \in Int /\ b \in Int /\ c \in Int
    BY <2>1, <2>2, OrderTypes DEF OrderInv
  <2> HIDE DEF a, b
  <2>4. a <= c
    BY <2>3
  <2>5. QED BY <2>2, <2>4 DEF OrderInv, a
<1>2. ASSUME NEW x \in Port \X Flow
      PROVE  last'[x] <= Passed(x[1])'
  <2>1. x[1] \in Port /\ last[x] \in Nat
    BY OrderTypes
  <2> DEFINE a == last[x]
             b == Passed(x[1])
  <2>2. PICK c : c = Passed(x[1])'
    OBVIOUS
  <2>3. a <= b /\ b <= c /\ a \in Int /\ b \in Int /\ c \in Int
    BY <2>1, <2>2, OrderTypes DEF LastInv
  <2> HIDE DEF a, b
  <2>4. a <= c
    BY <2>3
  <2>5. QED BY <2>2, <2>4 DEF a
<1>3. QED BY <1>1, <1>2

LEMMA StartFreeOrder ==
  ASSUME NEW Pc, TypeOKWith(Pc), OrderInv, LastInv,
         NEW p \in Port, bufs[p] # <<>>, NEW c, NEW f0, StartFree(p, c, f0),
         UNCHANGED <<arrived, pkt, ring, ptr, last>>
  PROVE  OrderInv' /\ LastInv'
<1>1. /\ Passed(p)' = Passed(p) + 1
      /\ \A q \in Port : Passed(q) <= Passed(q)'
      /\ \A q \in Port : \A i \in DOMAIN bufs'[q] : pkt'[bufs'[q][i]].n = Passed(q)' + i
  BY BurstTail DEF StartFree
<1>2. \A q \in Port : Passed(q)' \in Int
  <2>1. bufs' \in [Port -> Seq(MBuf)]
    BY OrderTypes, HeadTailProperties DEF StartFree
  <2>2. \A q \in Port : arrived'[q] \in Nat /\ Len(bufs'[q]) \in Nat
    BY <2>1, OrderTypes, LenProperties
  <2>3. QED BY <2>2 DEF Passed
<1>3. /\ \A f \in Fifo : \A m \in Queued(f) :
           pkt'[m].flow \in Flow /\ pkt'[m].n <= Passed(Home[m])'
      /\ \A x \in Port \X Flow : last'[x] <= Passed(x[1])'
  BY <1>1, <1>2, QueuedBehind
<1>4. \A f \in Fifo : Queued(f)' = Queued(f)
  BY DEF Queued
<1>5. OrderInv'
  BY <1>1, <1>3, <1>4 DEF OrderInv, InOrder, Before, SameFlow
<1>6. LastInv'
  BY <1>3, <1>4 DEF LastInv
<1>7. QED BY <1>5, <1>6

LEMMA EnqueueQueued ==
  ASSUME NEW Pc, TypeOKWith(Pc), NEW p \in Port, NEW f \in Fifo, bufs[p] # <<>>,
         Enqueue(p, f), ptr' = ptr, NEW m, m = Head(bufs[p])
  PROVE  /\ Queued(f)' = Queued(f) \cup {m}
         /\ \A g \in Fifo : g # f => Queued(g)' = Queued(g)
<1>1. /\ bufs \in [Port -> Seq(MBuf)] /\ ring \in [Fifo -> Seq(MBuf)]
      /\ m \in MBuf
  BY OrderTypes, HeadTailProperties
<1>2. /\ ring' = [ring EXCEPT ![f] = Append(ring[f], m)]
      /\ Range(Append(ring[f], m)) = Range(ring[f]) \cup {m}
  BY <1>1, AppendRange DEF Enqueue
<1>3. QED BY <1>1, <1>2 DEF Queued

LEMMA EnqueueOrder ==
  ASSUME NEW Pc, TypeOKWith(Pc), OrderInv, LastInv, LateInv,
         NEW p \in Port, NEW f \in Fifo, bufs[p] # <<>>, Enqueue(p, f),
         pkt[Head(bufs[p])].flow \in Flow,
         UNCHANGED <<arrived, pkt, ptr, last>>
  PROVE  OrderInv' /\ LastInv'
<1>0. PICK m : m = Head(bufs[p])
  OBVIOUS
<1>1. /\ Passed(p)' = Passed(p) + 1
      /\ \A q \in Port : Passed(q) <= Passed(q)'
      /\ \A q \in Port : \A i \in DOMAIN bufs'[q] : pkt'[bufs'[q][i]].n = Passed(q)' + i
      /\ pkt[m].n = Passed(p) + 1
  BY <1>0, BurstTail DEF Enqueue
<1>2. /\ bufs \in [Port -> Seq(MBuf)] /\ ring \in [Fifo -> Seq(MBuf)]
      /\ ptr \in [Fifo -> Seq(MBuf)]
      /\ \A q \in Port : Passed(q) \in Int
      /\ \A o \in MBuf : Home[o] \in Port /\ pkt[o].n \in Nat
      /\ \A g \in Fifo : Queued(g) \subseteq MBuf
      /\ \A x \in Port \X Flow : last[x] \in Nat
  BY OrderTypes
<1>3. \A q \in Port : Passed(q)' \in Int
  <2>1. bufs' \in [Port -> Seq(MBuf)]
    BY OrderTypes, HeadTailProperties DEF Enqueue
  <2>2. \A q \in Port : arrived'[q] \in Nat /\ Len(bufs'[q]) \in Nat
    BY <2>1, OrderTypes, LenProperties
  <2>3. QED BY <2>2 DEF Passed
<1>4. /\ \A g \in Fifo : \A o \in Queued(g) :
           pkt'[o].flow \in Flow /\ pkt'[o].n <= Passed(Home[o])'
      /\ \A x \in Port \X Flow : last'[x] <= Passed(x[1])'
  BY <1>1, <1>3, QueuedBehind
<1>5. m \in MBuf /\ m \in Range(bufs[p]) /\ Home[m] = p
  <2>1. m \in MBuf /\ m \in Range(bufs[p])
    BY <1>0, <1>2, HeadTailProperties, EmptySeq, LenProperties DEF Range
  <2>2. QED BY <2>1 DEF LateInv
<1>6. /\ ring' = [ring EXCEPT ![f] = Append(ring[f], m)]
      /\ Range(Append(ring[f], m)) = Range(ring[f]) \cup {m}
  BY <1>0, <1>2, <1>5, AppendRange DEF Enqueue
<1>7. Queued(f)' = Queued(f) \cup {m} /\ \A g \in Fifo : g # f => Queued(g)' = Queued(g)
  BY <1>2, <1>6 DEF Queued
<1>8. \A g \in Fifo : \A o \in Queued(g) : Before(o, m)
  <2> SUFFICES ASSUME NEW g \in Fifo, NEW o \in Queued(g), Home[o] = Home[m]
               PROVE  pkt[o].n < pkt[m].n
    BY DEF Before, SameFlow
  <2>1. pkt[o].n <= Passed(p)
    BY <1>5 DEF OrderInv
  <2>2. pkt[o].n \in Nat /\ Passed(p) \in Int
    BY <1>2
  <2>3. QED BY <1>1, <2>1, <2>2
<1>9. InOrder(ring'[f]) /\ \A g \in Fifo : g # f => ring'[g] = ring[g]
  <2>1. ring[f] \in Seq(MBuf) /\ InOrder(ring[f])
    BY <1>2 DEF OrderInv
  <2>2. \A o \in Range(ring[f]) : Before(o, m)
    BY <1>8 DEF Queued
  <2>3. InOrder(Append(ring[f], m))
    BY <1>5, <2>1, <2>2, AppendInOrder
  <2>4. QED BY <1>2, <1>6, <2>3
<1>10. \A g \in Fifo : InOrder(ring[g])' /\ InOrder(ptr[g])'
  BY <1>9 DEF OrderInv, InOrder, Before, SameFlow
<1>11. \A g \in Fifo : \A a \in Range(ptr'[g]), b \in Range(ring'[g]) : Before(a, b)'
  <2>1. \A g \in Fifo : Range(ptr[g]) \subseteq Queued(g)
    BY DEF Queued
  <2>2. \A g \in Fifo : \A a \in Range(ptr[g]), b \in Range(ring'[g]) : Before(a, b)
    BY <1>2, <1>6, <1>8, <1>9, <2>1 DEF OrderInv
  <2>3. QED BY <2>2 DEF Before, SameFlow
<1>12. pkt[m].flow \in Flow /\ pkt[m].n = Passed(p)'
  BY <1>0, <1>1
<1>13. pkt'[m].flow \in Flow /\ pkt'[m].n <= Passed(Home[m])'
  <2>1. PICK c : c = Passed(p)'
    OBVIOUS
  <2>2. pkt'[m].n = c /\ c \in Int
    BY <1>3, <1>12, <2>1
  <2>3. pkt'[m].n <= c
    BY <2>2
  <2>4. c = Passed(Home[m])'
    BY <1>5, <2>1
  <2>5. QED BY <1>12, <2>3, <2>4
<1>14. OrderInv'
  <2>1. \A g \in Fifo : \A o \in Queued(g)' :
          pkt'[o].flow \in Flow /\ pkt'[o].n <= Passed(Home[o])'
    BY <1>4, <1>7, <1>13
  <2>2. QED BY <1>1, <1>10, <1>11, <2>1 DEF OrderInv
<1>15. last[<<p, pkt[m].flow>>] < pkt[m].n
  <2>1. last[<<p, pkt[m].flow>>] <= Passed(p) /\ last[<<p, pkt[m].flow>>] \in Nat
    <3>1. <<p, pkt[m].flow>> \in Port \X Flow /\ <<p, pkt[m].flow>>[1] = p
      BY <1>12
    <3>2. QED BY <1>2, <3>1 DEF LastInv
  <2>2. Passed(p) \in Int
    BY <1>2
  <2>3. QED BY <1>1, <2>1, <2>2
<1>16. \A g \in Fifo : \A o \in Queued(g)' : last'[<<Home[o], pkt'[o].flow>>] < pkt'[o].n
  BY <1>5, <1>7, <1>15 DEF LastInv
<1>17. LastInv'
  BY <1>4, <1>16 DEF LastInv
<1>18. QED BY <1>14, <1>17
LEMMA FetchBurstOrder ==
  ASSUME NEW Pc, TypeOKWith(Pc), SoleOwner, OrderInv, LastInv,
         NEW f \in Fifo, FetchBurst(f)
  PROVE  /\ OrderInv' /\ LastInv'
         /\ \A g \in Fifo : Queued(g)' = Queued(g)
<1> DEFINE s == ring[f]
           n == BurstLen(f)
           a == SubSeq(s, 1, n)
           b == SubSeq(s, n + 1, Len(s))
<1>1. /\ ring \in [Fifo -> Seq(MBuf)] /\ ptr \in [Fifo -> Seq(MBuf)]
      /\ s \in Seq(MBuf) /\ IsInjective(s) /\ InOrder(s)
  BY OrderTypes DEF SoleOwner, OrderInv
<1>2. n \in 0 .. Len(s)
  <2>1. Len(ring[f]) \in Nat
    BY <1>1, LenProperties
  <2>2. QED BY <2>1, WorkDistAssumption DEF BurstLen
<1>3. /\ ptr[f] = <<>>
      /\ ptr' = [ptr EXCEPT ![f] = a] /\ ring' = [ring EXCEPT ![f] = b]
      /\ UNCHANGED <<pkt, arrived, bufs, last>>
  BY DEF FetchBurst, rxVars
<1> HIDE DEF n
<1>4. /\ InOrder(a) /\ InOrder(b)
      /\ \A x \in Range(a), y \in Range(b) : Before(x, y)
  BY <1>1, <1>2, SplitInOrder
<1>5. Range(a) \cup Range(b) = Range(s)
  BY <1>1, <1>2, SplitRange
<1> HIDE DEF s, a, b
<1>6. ptr'[f] = a /\ ring'[f] = b
  BY <1>1, <1>3
<1>7. \A g \in Fifo : g # f => ptr'[g] = ptr[g] /\ ring'[g] = ring[g]
  BY <1>1, <1>3
<1>8. \A g \in Fifo : Queued(g)' = Queued(g)
  BY <1>3, <1>5, <1>6, <1>7, EmptyRange DEF Queued, s
<1>9. \A g \in Fifo : InOrder(ring'[g]) /\ InOrder(ptr'[g])
  BY <1>4, <1>6, <1>7 DEF OrderInv
<1>10. \A g \in Fifo : \A x \in Range(ptr'[g]), y \in Range(ring'[g]) : Before(x, y)
  BY <1>4, <1>6, <1>7 DEF OrderInv
<1>11. \A g \in Fifo : InOrder(ring[g])' /\ InOrder(ptr[g])'
  BY <1>3, <1>9 DEF InOrder, Before, SameFlow
<1>12. \A g \in Fifo : \A x \in Range(ptr[g])', y \in Range(ring[g])' : Before(x, y)'
  BY <1>3, <1>10 DEF Before, SameFlow
<1>13. OrderInv'
  BY <1>3, <1>8, <1>11, <1>12 DEF OrderInv, Passed
<1>14. LastInv'
  BY <1>3, <1>8 DEF LastInv, Passed
<1>15. QED BY <1>8, <1>13, <1>14

(* The packet a worker transmits next is the oldest of its flow among      *)
(* those queued.                                                           *)
LEMMA OldestQueued ==
  ASSUME NEW Pc, TypeOKWith(Pc), SoleOwner, OrderInv, OneFifo,
         NEW f \in Fifo, ptr[f] # <<>>,
         NEW g \in Fifo, NEW o \in Queued(g), o # Head(ptr[f])
  PROVE  Before(Head(ptr[f]), o)
<1>1. /\ ptr[f] \in Seq(MBuf) /\ InOrder(ptr[f]) /\ IsInjective(ptr[f])
  BY OrderTypes DEF OrderInv, SoleOwner
<1>2. /\ \A m \in Range(Tail(ptr[f])) : Before(Head(ptr[f]), m)
      /\ Head(ptr[f]) \in Range(ptr[f])
      /\ Range(Tail(ptr[f])) = Range(ptr[f]) \ {Head(ptr[f])}
  BY <1>1, TailInOrder, TailRange
<1>3. SUFFICES ASSUME SameFlow(Head(ptr[f]), o)
               PROVE  Before(Head(ptr[f]), o)
  BY DEF Before
<1>4. g = f
  BY <1>2, <1>3 DEF OneFifo, Queued
<1>5. CASE o \in Range(ptr[f])
  BY <1>2, <1>5
<1>6. CASE o \in Range(ring[f])
  BY <1>2, <1>6 DEF OrderInv
<1>7. QED BY <1>4, <1>5, <1>6 DEF Queued

LEMMA TransmitOrder ==
  ASSUME NEW Pc, TypeOKWith(Pc), SoleOwner, OrderInv, LastInv, OneFifo,
         NEW f \in Fifo, Transmit(f)
  PROVE  /\ OrderInv' /\ LastInv'
         /\ \A g \in Fifo : Queued(g)' \subseteq Queued(g)
<1>1. PICK m : m = Head(ptr[f])
  OBVIOUS
<1>2. /\ ptr[f] # <<>> /\ ptr' = [ptr EXCEPT ![f] = Tail(@)]
      /\ UNCHANGED <<pkt, arrived, bufs, ring>>
      /\ last' = last \/ last' = [last EXCEPT ![<<Home[m], pkt[m].flow>>] = pkt[m].n]
  BY <1>1 DEF Transmit, rxVars
<1>3. /\ ptr \in [Fifo -> Seq(MBuf)] /\ last \in [Port \X Flow -> Nat]
      /\ InOrder(ptr[f]) /\ IsInjective(ptr[f])
  BY OrderTypes DEF OrderInv, SoleOwner
<1>4. /\ InOrder(Tail(ptr[f])) /\ m \in Range(ptr[f])
      /\ Range(Tail(ptr[f])) = Range(ptr[f]) \ {m}
  BY <1>1, <1>2, <1>3, TailInOrder, TailRange
<1>5. ptr'[f] = Tail(ptr[f]) /\ \A g \in Fifo : g # f => ptr'[g] = ptr[g]
  BY <1>2, <1>3
<1>6. Queued(f)' = Queued(f) \ {m} /\ \A g \in Fifo : g # f => Queued(g)' = Queued(g)
  <2>1. Range(ring[f]) \cap Range(ptr[f]) = {}
    BY HeldOnce
  <2>2. QED BY <1>2, <1>4, <1>5, <2>1 DEF Queued
<1>7. m \in Queued(f)
  BY <1>4 DEF Queued
<1>8. \A g \in Fifo : InOrder(ring'[g]) /\ InOrder(ptr'[g])
  BY <1>2, <1>4, <1>5 DEF OrderInv
<1>9. \A g \in Fifo : Range(ptr'[g]) \subseteq Range(ptr[g])
  BY <1>4, <1>5
<1>10. \A g \in Fifo : InOrder(ring[g])' /\ InOrder(ptr[g])'
  <2>1. pkt' = pkt
    BY <1>2
  <2>2. QED BY <1>8, <2>1 DEF InOrder, Before, SameFlow
<1>11. \A g \in Fifo : \A x \in Range(ptr[g])', y \in Range(ring[g])' : Before(x, y)'
  BY <1>2, <1>9 DEF OrderInv, Before, SameFlow
<1>12. \A g \in Fifo : Queued(g)' \subseteq Queued(g)
  BY <1>6
<1>13. OrderInv'
  BY <1>2, <1>10, <1>11, <1>12 DEF OrderInv, Passed
<1>14. \A g \in Fifo : \A o \in Queued(g)' : last'[<<Home[o], pkt[o].flow>>] < pkt[o].n
  <2> SUFFICES ASSUME NEW g \in Fifo, NEW o \in Queued(g)'
               PROVE  last'[<<Home[o], pkt[o].flow>>] < pkt[o].n
    OBVIOUS
  <2>1. o \in Queued(g) /\ o # m
    <3>1. o \in Queued(g) /\ (g = f => o # m)
      BY <1>6
    <3>2. g # f => o # m
      BY <3>1, <1>7, HeldOnce
    <3>3. QED BY <3>1, <3>2
  <2>2. last[<<Home[o], pkt[o].flow>>] < pkt[o].n
    BY <2>1 DEF LastInv
  <2>3. Before(m, o)
    BY <1>1, <1>2, <2>1, OldestQueued
  <2>4. <<Home[o], pkt[o].flow>> \in Port \X Flow
    BY <2>1, OrderTypes DEF OrderInv
  <2>5. CASE last' = last
    BY <2>2, <2>5
  <2>6. CASE last' = [last EXCEPT ![<<Home[m], pkt[m].flow>>] = pkt[m].n]
    <3>1. CASE SameFlow(m, o)
      BY <1>3, <2>3, <2>4, <2>6, <3>1 DEF Before, SameFlow
    <3>2. CASE ~SameFlow(m, o)
      <4>1. <<Home[m], pkt[m].flow>> # <<Home[o], pkt[o].flow>>
        BY <3>2 DEF SameFlow
      <4>2. QED BY <1>3, <2>2, <2>4, <2>6, <4>1
    <3>3. QED BY <3>1, <3>2
  <2>7. QED BY <1>2, <2>5, <2>6
<1>15. \A x \in Port \X Flow : last'[x] <= Passed(x[1])
  <2>1. pkt[m].n <= Passed(Home[m])
    BY <1>7 DEF OrderInv
  <2> SUFFICES ASSUME NEW x \in Port \X Flow
               PROVE  last'[x] <= Passed(x[1])
    OBVIOUS
  <2>2. last[x] <= Passed(x[1])
    BY DEF LastInv
  <2>3. last'[x] = last[x] \/ (x = <<Home[m], pkt[m].flow>> /\ last'[x] = pkt[m].n)
    BY <1>2, <1>3
  <2>4. CASE x = <<Home[m], pkt[m].flow>> /\ last'[x] = pkt[m].n
    <3>1. x[1] = Home[m]
      BY <2>4
    <3>2. QED BY <2>1, <2>4, <3>1
  <2>5. QED BY <2>2, <2>3, <2>4
<1>16. LastInv'
  BY <1>2, <1>14, <1>15 DEF LastInv, Passed
<1>17. QED BY <1>12, <1>13, <1>16

LEMMA SharedRxOrder ==
  ASSUME NEW Pc, SharedPc \subseteq Pc, TypeOKWith(Pc), SoleOwner, OrderInv, LastInv,
         NEW p \in Port, p \notin spoiled, SharedRx(p)
  PROVE  /\ OrderInv' /\ LastInv'
         /\ \A f \in Fifo : Queued(f)' = Queued(f) /\ \A m \in Queued(f) : pkt'[m] = pkt[m]
<1>1. CASE RxFreed(p) \/ LoadCounter(p) \/ StoreCounter(p)
  <2>1. UNCHANGED <<arrived, bufs, pkt, ring, ptr, last>>
    BY <1>1 DEF RxFreed, LoadCounter, StoreCounter, wrkVars
  <2>2. QED BY <2>1, OrderStays DEF Queued
<1>2. CASE RxBurstOf(p)
  <2>1. \A f \in Fifo : Queued(f)' = Queued(f)
    BY <1>2 DEF Queued, RxBurstOf, wrkVars
  <2>2. ASSUME NEW f \in Fifo, NEW m \in Queued(f)
        PROVE  pkt'[m] = pkt[m]
    <3>1. m \in MBuf \ pool
      BY OrderTypes, HeldOnce
    <3>2. QED BY <1>2, <3>1, RxBurstInOrder
  <2>3. QED BY <1>2, <2>1, <2>2, RxBurstOrder
<1>3. CASE DropNonIp(p)
  <2>1. /\ bufs[p] # <<>> /\ StartFree(p, "none", 0)
        /\ UNCHANGED <<arrived, pkt, ring, ptr, last>>
    BY <1>3 DEF DropNonIp, wrkVars
  <2>2. QED BY <2>1, StartFreeOrder DEF Queued
<1>4. QED BY <1>1, <1>2, <1>3 DEF SharedRx

LEMMA WorkerOrder ==
  ASSUME NEW Pc, SharedPc \subseteq Pc, TypeOKWith(Pc), SoleOwner, OrderInv, LastInv, OneFifo,
         NEW f \in Fifo, Worker(f)
  PROVE  /\ OrderInv' /\ LastInv' /\ pkt' = pkt
         /\ \A g \in Fifo : Queued(g)' \subseteq Queued(g)
<1>1. CASE FetchBurst(f)
  BY <1>1, FetchBurstOrder DEF FetchBurst
<1>2. CASE Transmit(f)
  BY <1>2, TransmitOrder DEF Transmit
<1>3. CASE WrkFreed(f)
  <2>1. UNCHANGED <<arrived, bufs, pkt, ring, ptr, last>>
    BY <1>3 DEF WrkFreed, rxVars, wrkVars
  <2>2. QED BY <2>1, OrderStays DEF Queued
<1>4. QED BY <1>1, <1>2, <1>3 DEF Worker
-----------------------------------------------------------------------------
(* The steps of the ordered distributor *)

LEMMA HeldMember ==
  /\ \A m : m \in Held <=> \/ \E p \in Port : m \in Range(bufs[p])
                           \/ \E f \in Fifo : m \in Queued(f)
  /\ \A m : m \in Held' <=> \/ \E p \in Port : m \in Range(bufs'[p])
                            \/ \E f \in Fifo : m \in Queued(f)'
BY DEF Held, Queued

LEMMA FlightMember ==
  /\ \A x \in Port \X Flow : \A k : k \in Flight[x] <=>
       \E m \in Held : Home[m] = x[1] /\ pkt[m].flow = x[2] /\ k = pkt[m].n
  /\ \A x \in Port \X Flow : \A k : k \in Flight'[x] <=>
       \E m \in Held' : Home[m] = x[1] /\ pkt'[m].flow = x[2] /\ k = pkt'[m].n
BY DEF Flight, Inside

LEMMA FlightType ==
  ASSUME NEW Pc, TypeOKWith(Pc)
  PROVE  Held \subseteq MBuf /\ Flight \in [Port \X Flow -> SUBSET Nat]
<1>1. Held \subseteq MBuf
  <2>1. \A p \in Port : Range(bufs[p]) \subseteq MBuf
    BY OrderTypes, RangeInSet
  <2>2. QED BY <2>1, OrderTypes, HeldMember
<1>2. ASSUME NEW x \in Port \X Flow
      PROVE  Flight[x] \subseteq Nat
  <2>1. \A m \in Held : pkt[m].n \in Nat
    BY <1>1, OrderTypes
  <2>2. \A k : k \in Flight[x] => k \in Nat
    BY <2>1, FlightMember
  <2>3. QED BY <2>2
<1>3. Flight = [x \in Port \X Flow |-> Flight[x]]
  BY DEF Flight
<1>4. QED BY <1>1, <1>2, <1>3

(* A step that keeps the packets inside is invisible.                      *)
LEMMA SameFlight ==
  ASSUME Held' = Held, \A m \in Held : pkt'[m] = pkt[m], last' = last, spoiled' = spoiled
  PROVE  UNCHANGED Ordered!vars
<1>1. ASSUME NEW x \in Port \X Flow
      PROVE  Inside(x[1], x[2])' = Inside(x[1], x[2])
  BY DEF Inside
<1>2. Flight' = Flight
  BY <1>1 DEF Flight
<1>3. QED BY <1>2 DEF Ordered!vars

(* One packet leaves: its flow loses its number, provided that no other    *)
(* packet of the flow has the same.                                        *)
LEMMA TakeOut ==
  ASSUME NEW Pc, TypeOKWith(Pc),
         NEW m \in Held, pkt[m].flow \in Flow, Held' = Held \ {m}, pkt' = pkt,
         \A o \in Held \ {m} : SameFlow(m, o) => pkt[o].n # pkt[m].n
  PROVE  LET x == <<Home[m], pkt[m].flow>>
         IN  /\ x \in Port \X Flow /\ pkt[m].n \in Flight[x]
             /\ Flight' = [Flight EXCEPT ![x] = @ \ {pkt[m].n}]
<1>1. PICK x : x = <<Home[m], pkt[m].flow>>
  OBVIOUS
<1>2. PICK n : n = pkt[m].n
  OBVIOUS
<1>3. m \in MBuf /\ x \in Port \X Flow /\ x[1] = Home[m] /\ x[2] = pkt[m].flow
  BY <1>1, FlightType, OrderTypes
<1>4. n \in Flight[x]
  BY <1>2, <1>3, FlightMember
<1>5. /\ Flight \in [Port \X Flow -> SUBSET Nat]
      /\ Flight' \in [Port \X Flow -> SUBSET Nat]
  <2>1. Flight \in [Port \X Flow -> SUBSET Nat]
    BY FlightType
  <2>2. \A y \in Port \X Flow : Flight'[y] \subseteq Flight[y]
    BY FlightMember
  <2>3. Flight' = [y \in Port \X Flow |-> Flight'[y]]
    BY DEF Flight
  <2>4. QED BY <2>1, <2>2, <2>3
<1>6. ASSUME NEW y \in Port \X Flow, y # x
      PROVE  Flight'[y] = Flight[y]
  <2>1. ~(Home[m] = y[1] /\ pkt[m].flow = y[2])
    BY <1>3, <1>6
  <2>2. \A k : k \in Flight'[y] <=> k \in Flight[y]
    BY <2>1, FlightMember
  <2>3. QED BY <1>5, <2>2
<1>7. Flight'[x] = Flight[x] \ {n}
  <2>1. \A o \in Held \ {m} : Home[o] = x[1] /\ pkt[o].flow = x[2] => pkt[o].n # n
    BY <1>2, <1>3 DEF SameFlow
  <2>2. \A k : k \in Flight'[x] <=>
          \E o \in Held \ {m} : Home[o] = x[1] /\ pkt[o].flow = x[2] /\ k = pkt[o].n
    BY <1>3, FlightMember
  <2>3. \A k : k \in Flight[x] <=>
          \E o \in Held : Home[o] = x[1] /\ pkt[o].flow = x[2] /\ k = pkt[o].n
    BY <1>3, FlightMember
  <2>4. \A k : k \in Flight'[x] <=> (k \in Flight[x] /\ k # n)
    BY <1>2, <2>1, <2>2, <2>3
  <2>5. QED BY <1>3, <1>5, <2>4
<1>8. Flight' = [Flight EXCEPT ![x] = @ \ {n}]
  BY <1>3, <1>5, <1>6, <1>7
<1>9. QED BY <1>1, <1>2, <1>3, <1>4, <1>8

(* The head of a burst leaves the burst alone, the next packet of a worker *)
(* leaves its FIFO alone.                                                  *)
LEMMA BurstHeld ==
  ASSUME NEW Pc, TypeOKWith(Pc), SoleOwner, NEW p \in Port, bufs[p] # <<>>,
         bufs' = [bufs EXCEPT ![p] = Tail(@)], UNCHANGED <<ring, ptr>>,
         NEW m, m = Head(bufs[p])
  PROVE  Held' = Held \ {m} /\ m \in Held
<1>1. bufs \in [Port -> Seq(MBuf)] /\ IsInjective(bufs[p])
  BY OrderTypes DEF SoleOwner
<1>2. m \in Range(bufs[p]) /\ Range(Tail(bufs[p])) = Range(bufs[p]) \ {m}
  BY <1>1, TailRange
<1>3. /\ Range(bufs'[p]) = Range(bufs[p]) \ {m}
      /\ \A q \in Port : q # p => Range(bufs'[q]) = Range(bufs[q])
  BY <1>1, <1>2
<1>4. /\ \A q \in Port : q # p => m \notin Range(bufs[q])
      /\ \A f \in Fifo : m \notin Queued(f)
  BY <1>2, HeldOnce
<1>5. \A f \in Fifo : Queued(f)' = Queued(f)
  BY DEF Queued
<1>6. QED BY <1>2, <1>3, <1>4, <1>5, HeldMember

LEMMA TransmitHeld ==
  ASSUME NEW Pc, TypeOKWith(Pc), SoleOwner, NEW f \in Fifo, ptr[f] # <<>>,
         ptr' = [ptr EXCEPT ![f] = Tail(@)], UNCHANGED <<ring, bufs>>,
         NEW m, m = Head(ptr[f])
  PROVE  Held' = Held \ {m} /\ m \in Queued(f) /\ m \in Held
<1>1. ptr \in [Fifo -> Seq(MBuf)] /\ IsInjective(ptr[f])
  BY OrderTypes DEF SoleOwner
<1>2. m \in Range(ptr[f]) /\ Range(Tail(ptr[f])) = Range(ptr[f]) \ {m}
  BY <1>1, TailRange
<1>3. /\ Range(ptr'[f]) = Range(ptr[f]) \ {m}
      /\ \A g \in Fifo : g # f => Range(ptr'[g]) = Range(ptr[g])
  BY <1>1, <1>2
<1>4. m \in Queued(f) /\ m \notin Range(ring[f])
  BY <1>2, HeldOnce DEF Queued
<1>5. /\ \A p \in Port : m \notin Range(bufs[p])
      /\ \A g \in Fifo : g # f => m \notin Queued(g)
  BY <1>4, HeldOnce
<1>6. Queued(f)' = Queued(f) \ {m} /\ \A g \in Fifo : g # f => Queued(g)' = Queued(g)
  BY <1>3, <1>4 DEF Queued
<1>7. QED BY <1>4, <1>5, <1>6, HeldMember
LEMMA InitRefines ==
  ASSUME Init
  PROVE  Ordered!Init
<1>1. \A m : m \notin Held
  <2>1. \A f \in Fifo : Queued(f) = {}
    BY EmptyRange DEF Init, Queued
  <2>2. \A p \in Port : Range(bufs[p]) = {}
    BY EmptyRange DEF Init
  <2>3. QED BY <2>1, <2>2, HeldMember
<1>2. \A x \in Port \X Flow : Flight[x] = {}
  BY <1>1 DEF Flight, Inside
<1>3. Flight = [x \in Port \X Flow |-> {}]
  BY <1>2 DEF Flight
<1>4. QED BY <1>3 DEF Init, Ordered!Init

(* The head of a burst is the only packet of its flow with its number.     *)
LEMMA BurstHeadAlone ==
  ASSUME NEW Pc, TypeOKWith(Pc), SoleOwner, OrderInv, LateInv,
         NEW p \in Port, bufs[p] # <<>>, NEW m, m = Head(bufs[p]),
         NEW o \in Held \ {m}, SameFlow(m, o)
  PROVE  pkt[o].n # pkt[m].n
<1>1. /\ bufs[p] \in Seq(MBuf) /\ Passed(p) \in Int
      /\ \A q \in Port : bufs[q] \in Seq(MBuf)
  BY OrderTypes
<1>2. /\ 1 \in DOMAIN bufs[p] /\ m = bufs[p][1] /\ m \in Range(bufs[p])
  BY <1>1, HeadTailProperties, LenProperties, EmptySeq DEF Range
<1>3. pkt[m].n = Passed(p) + 1 /\ Home[m] = p /\ Home[o] = p
  BY <1>2 DEF OrderInv, LateInv, SameFlow
<1>4. CASE \E q \in Port : o \in Range(bufs[q])
  <2>1. o \in Range(bufs[p])
    BY <1>3, <1>4 DEF LateInv
  <2>2. PICK i \in DOMAIN bufs[p] : o = bufs[p][i]
    BY <2>1 DEF Range
  <2>3. i \in Nat /\ i # 1
    BY <1>1, <1>2, <2>2, LenProperties
  <2>4. pkt[o].n = Passed(p) + i
    BY <2>2 DEF OrderInv
  <2>5. QED BY <1>1, <1>3, <2>3, <2>4
<1>5. CASE \E f \in Fifo : o \in Queued(f)
  <2>1. pkt[o].n <= Passed(p)
    BY <1>3, <1>5 DEF OrderInv
  <2>2. pkt[o].n \in Nat
    BY <1>5, OrderTypes
  <2>3. QED BY <1>1, <1>3, <2>1, <2>2
<1>6. QED BY <1>4, <1>5, HeldMember

(* The packet a worker transmits next is the oldest of its flow inside.    *)
LEMMA OldestInside ==
  ASSUME NEW Pc, TypeOKWith(Pc), SoleOwner, OrderInv, LateInv, OneFifo,
         NEW f \in Fifo, ptr[f] # <<>>, NEW m \in Queued(f), m = Head(ptr[f]),
         NEW o \in Held \ {m}, SameFlow(m, o)
  PROVE  pkt[m].n < pkt[o].n
<1>1. CASE \E g \in Fifo : o \in Queued(g)
  BY <1>1, OldestQueued DEF Before
<1>2. CASE \E q \in Port : o \in Range(bufs[q])
  <2>1. PICK q \in Port : o \in Range(bufs[q])
    BY <1>2
  <2>2. PICK i \in DOMAIN bufs[q] : o = bufs[q][i]
    BY <2>1 DEF Range
  <2>3. bufs[q] \in Seq(MBuf) /\ Passed(q) \in Int /\ pkt[m].n \in Nat
    BY OrderTypes
  <2>4. i \in Nat \ {0}
    BY <2>3, LenProperties
  <2>5. pkt[o].n = Passed(q) + i
    BY <2>2 DEF OrderInv
  <2>6. Home[m] = q
    BY <2>1 DEF LateInv, SameFlow
  <2>7. pkt[m].n <= Passed(q)
    BY <2>6 DEF OrderInv
  <2>8. QED BY <2>3, <2>4, <2>5, <2>7
<1>3. QED BY <1>1, <1>2, HeldMember

(* A drop from a burst discards a frame of a flow, or drops a frame of no  *)
(* flow unseen.                                                            *)
LEMMA StartFreeRefines ==
  ASSUME NEW Pc, TypeOKWith(Pc), SoleOwner, OrderInv, LateInv,
         NEW p \in Port, bufs[p] # <<>>, NEW c, NEW f0, StartFree(p, c, f0),
         spoiled = {}, UNCHANGED <<spoiled, pkt, ring, ptr, last>>
  PROVE  [Ordered!Next]_(Ordered!vars)
<1>1. PICK m : m = Head(bufs[p])
  OBVIOUS
<1>2. Held' = Held \ {m} /\ m \in Held /\ pkt' = pkt /\ last' = last
  BY <1>1, BurstHeld DEF StartFree
<1>3. CASE pkt[m].flow \in Flow
  <2>1. \A o \in Held \ {m} : SameFlow(m, o) => pkt[o].n # pkt[m].n
    BY <1>1, BurstHeadAlone
  <2>2. PICK x : x = <<Home[m], pkt[m].flow>>
    OBVIOUS
  <2>3. /\ x \in Port \X Flow /\ pkt[m].n \in Flight[x]
        /\ Flight' = [Flight EXCEPT ![x] = @ \ {pkt[m].n}]
    BY <1>2, <1>3, <2>1, <2>2, TakeOut
  <2>4. Ordered!Discard(x)
    BY <1>2, <2>3 DEF Ordered!Discard
  <2>5. QED BY <2>3, <2>4 DEF Ordered!Ordinary, Ordered!Next
<1>4. CASE pkt[m].flow \notin Flow
  <2>1. ASSUME NEW x \in Port \X Flow
        PROVE  Inside(x[1], x[2])' = Inside(x[1], x[2])
    <3>1. x[2] # pkt[m].flow
      BY <1>4
    <3>2. QED BY <1>2, <3>1 DEF Inside
  <2>2. Flight' = Flight
    BY <2>1 DEF Flight
  <2>3. QED BY <1>2, <2>2 DEF Ordered!vars
<1>5. QED BY <1>3, <1>4

LEMMA EnqueueRefines ==
  ASSUME NEW Pc, TypeOKWith(Pc), SoleOwner,
         NEW p \in Port, NEW f \in Fifo, bufs[p] # <<>>, Enqueue(p, f),
         UNCHANGED <<spoiled, pkt, ptr, last>>
  PROVE  UNCHANGED Ordered!vars
<1>1. PICK m : m = Head(bufs[p])
  OBVIOUS
<1>2. /\ bufs \in [Port -> Seq(MBuf)] /\ ring \in [Fifo -> Seq(MBuf)]
      /\ IsInjective(bufs[p])
  BY OrderTypes DEF SoleOwner
<1>3. /\ m \in Range(bufs[p]) /\ Range(Tail(bufs[p])) = Range(bufs[p]) \ {m}
      /\ m \in MBuf
  BY <1>1, <1>2, TailRange
<1>4. /\ Range(bufs'[p]) = Range(bufs[p]) \ {m}
      /\ \A q \in Port : q # p => Range(bufs'[q]) = Range(bufs[q])
  BY <1>2, <1>3 DEF Enqueue
<1>5. Range(ring'[f]) = Range(ring[f]) \cup {m} /\ \A g \in Fifo : g # f => ring'[g] = ring[g]
  BY <1>1, <1>2, <1>3, AppendRange DEF Enqueue
<1>6. Queued(f)' = Queued(f) \cup {m} /\ \A g \in Fifo : g # f => Queued(g)' = Queued(g)
  BY <1>5 DEF Queued
<1>7. \A o : o \in Held' <=> o \in Held
  BY <1>3, <1>4, <1>6, HeldMember
<1>8. Held' = Held
  <2>1. PICK a : a = Held'
    OBVIOUS
  <2>2. PICK b : b = Held
    OBVIOUS
  <2>3. a \subseteq b /\ b \subseteq a
    BY <1>7, <2>1, <2>2
  <2>4. a = b
    BY <2>3
  <2>5. QED BY <2>1, <2>2, <2>4
<1>9. QED BY <1>8, SameFlight
LEMMA RxBurstRefines ==
  ASSUME NEW Pc, TypeOKWith(Pc), TypeOKWith(Pc)', SoleOwner, OrderInv, LastInv, LateInv,
         NEW p \in Port, p \notin spoiled, RxBurstOf(p)
  PROVE  Ordered!Arrive
<1>1. PICK k \in Nat \ {0}, ms \in Seq(MBuf) :
        /\ Len(ms) = k /\ Range(ms) \subseteq pool
        /\ \A m \in Range(ms) : Home[m] = p
        /\ bufs' = [bufs EXCEPT ![p] = ms]
        /\ arrived' = [arrived EXCEPT ![p] = @ + k]
        /\ \A m \in MBuf \ Range(ms) : pkt'[m] = pkt[m]
        /\ \A i \in 1 .. k : pkt'[ms[i]].n = arrived[p] + i
  BY RxBurstInOrder
<1>2. UNCHANGED <<ring, ptr, last>> /\ bufs[p] = <<>>
  BY DEF RxBurstOf, wrkVars
<1>3. /\ bufs \in [Port -> Seq(MBuf)] /\ Held \subseteq MBuf
      /\ \A q \in Port : arrived[q] \in Nat /\ Passed(q) \in Int
      /\ Passed(p) = arrived[p]
  <2>1. Len(bufs[p]) = 0
    BY <1>2
  <2>2. Passed(p) = arrived[p]
    BY <2>1, OrderTypes DEF Passed
  <2>3. QED BY <2>2, OrderTypes, FlightType
<1>4. Range(bufs'[p]) = Range(ms) /\ \A q \in Port : q # p => Range(bufs'[q]) = Range(bufs[q])
  BY <1>1, <1>3
<1>5. \A f \in Fifo : Queued(f)' = Queued(f)
  BY <1>2 DEF Queued
<1>6. \A m : m \in Held' <=> m \in Held \/ m \in Range(ms)
  BY <1>2, <1>4, <1>5, EmptyRange, HeldMember
<1>7. \A m \in Held : m \notin Range(ms) /\ pkt'[m] = pkt[m]
  <2>1. \A m \in Held : m \notin pool
    BY HeldMember, HeldOnce
  <2>2. QED BY <1>1, <1>3, <2>1
<1>8. \A m \in Held : Home[m] = p => pkt[m].n <= arrived[p]
  <2> SUFFICES ASSUME NEW m \in Held, Home[m] = p
               PROVE  pkt[m].n <= arrived[p]
    OBVIOUS
  <2>1. \A q \in Port : m \notin Range(bufs[q])
    BY <1>2, EmptyRange DEF LateInv
  <2>2. PICK f \in Fifo : m \in Queued(f)
    BY <2>1, HeldMember
  <2>3. QED BY <1>3, <2>2 DEF OrderInv
<1>9. \A m \in Range(ms) : Home[m] = p /\ \E i \in 1 .. k : pkt'[m].n = arrived[p] + i
  <2>1. DOMAIN ms = 1 .. k
    BY <1>1, LenProperties
  <2>2. QED BY <1>1, <2>1 DEF Range
<1>10. Flight' \in [Port \X Flow -> SUBSET Nat]
  <2>1. Held' \subseteq MBuf /\ \A m \in MBuf : pkt'[m].n \in Nat
    <3>1. /\ bufs' \in [Port -> Seq(MBuf)] /\ pkt' \in [MBuf -> Packet]
          /\ \A f \in Fifo : Queued(f) \subseteq MBuf
      BY OrderTypes DEF TypeOKWith
    <3>2. \A q \in Port : Range(bufs'[q]) \subseteq MBuf
      BY <3>1, RangeInSet
    <3>3. \A m : m \in Held' => m \in MBuf
      BY <1>5, <3>1, <3>2, HeldMember
    <3>4. \A m \in MBuf : pkt'[m].n \in Nat
      BY <3>1 DEF Packet
    <3>5. QED BY <3>3, <3>4
  <2>2. \A m \in Held' : pkt'[m].n \in Nat
    BY <2>1
  <2>3. \A x \in Port \X Flow : \A n : n \in Flight'[x] => n \in Nat
    BY <2>2, FlightMember
  <2>4. Flight' = [x \in Port \X Flow |-> Flight'[x]]
    BY DEF Flight
  <2>5. QED BY <2>3, <2>4
<1>11. ASSUME NEW x \in Port \X Flow
       PROVE  Flight[x] \subseteq Flight'[x]
  <2> SUFFICES ASSUME NEW n \in Flight[x]
               PROVE  n \in Flight'[x]
    OBVIOUS
  <2>1. PICK m \in Held : Home[m] = x[1] /\ pkt[m].flow = x[2] /\ n = pkt[m].n
    BY FlightMember
  <2>2. m \in Held' /\ pkt'[m] = pkt[m]
    BY <1>6, <1>7
  <2>3. QED BY <2>1, <2>2, FlightMember
<1>12. ASSUME NEW x \in Port \X Flow, NEW n \in Flight'[x] \ Flight[x],
              NEW j \in Flight[x] \cup {last[x]}
       PROVE  j < n
  <2>1. PICK m \in Held' : Home[m] = x[1] /\ pkt'[m].flow = x[2] /\ n = pkt'[m].n
    BY FlightMember
  <2>2. m \in Range(ms)
    <3>1. ASSUME m \in Held
          PROVE  FALSE
      BY <1>7, <2>1, <3>1, FlightMember
    <3>2. QED BY <1>6, <3>1
  <2>3. PICK i \in 1 .. k : n = arrived[p] + i
    BY <1>9, <2>1, <2>2
  <2>4. x[1] = p
    BY <1>9, <2>1, <2>2
  <2>5. j \in Nat /\ j <= arrived[p]
    <3>1. CASE j = last[x]
      BY <1>3, <2>4, <3>1, OrderTypes DEF LastInv
    <3>2. CASE j \in Flight[x]
      <4>1. PICK o \in Held : Home[o] = x[1] /\ j = pkt[o].n
        BY <3>2, FlightMember
      <4>2. pkt[o].n \in Nat
        BY <1>3, OrderTypes
      <4>3. QED BY <1>8, <2>4, <4>1, <4>2
    <3>3. QED BY <3>1, <3>2
  <2>6. arrived[p] \in Nat
    BY <1>3
  <2>7. QED BY <2>3, <2>5, <2>6
<1>13. QED BY <1>2, <1>10, <1>11, <1>12 DEF Ordered!Arrive

LEMMA TransmitRefines ==
  ASSUME NEW Pc, TypeOKWith(Pc), SoleOwner, OrderInv, LateInv, OneFifo,
         NEW f \in Fifo, spoiled = {}, Transmit(f)
  PROVE  Ordered!Next
<1>1. PICK m : m = Head(ptr[f])
  OBVIOUS
<1>2. /\ ptr[f] # <<>> /\ ptr' = [ptr EXCEPT ![f] = Tail(@)]
      /\ UNCHANGED <<spoiled, pkt, bufs, ring>>
      /\ last' = last \/ last' = [last EXCEPT ![<<Home[m], pkt[m].flow>>] = pkt[m].n]
  BY <1>1 DEF Transmit, memVars, rxVars
<1>3. Held' = Held \ {m} /\ m \in Queued(f) /\ m \in Held
  BY <1>1, <1>2, TransmitHeld
<1>4. \A o \in Held \ {m} : SameFlow(m, o) => pkt[m].n < pkt[o].n
  BY <1>1, <1>2, <1>3, OldestInside
<1>5. pkt[m].flow \in Flow /\ pkt[m].n \in Nat /\ m \in MBuf
  BY <1>3, OrderTypes DEF OrderInv
<1>6. \A o \in Held : pkt[o].n \in Nat
  BY FlightType, OrderTypes
<1>7. \A o \in Held \ {m} : SameFlow(m, o) => pkt[o].n # pkt[m].n
  BY <1>4, <1>5, <1>6
<1>8. PICK x : x = <<Home[m], pkt[m].flow>>
  OBVIOUS
<1>9. /\ x \in Port \X Flow /\ pkt[m].n \in Flight[x]
      /\ Flight' = [Flight EXCEPT ![x] = @ \ {pkt[m].n}]
  BY <1>2, <1>3, <1>5, <1>7, <1>8, TakeOut
<1>10. ASSUME NEW j \in Flight[x]
       PROVE  pkt[m].n <= j
  <2>1. PICK o \in Held : Home[o] = x[1] /\ pkt[o].flow = x[2] /\ j = pkt[o].n
    BY <1>9, FlightMember
  <2>2. SameFlow(m, o)
    BY <1>8, <2>1 DEF SameFlow
  <2>3. CASE o = m
    BY <1>5, <2>1, <2>3
  <2>4. CASE o # m
    BY <1>4, <1>5, <1>6, <2>1, <2>2, <2>4
  <2>5. QED BY <2>3, <2>4
<1>11. CASE last' = last
  BY <1>2, <1>9, <1>11 DEF Ordered!Discard, Ordered!Ordinary, Ordered!Next
<1>12. CASE last' = [last EXCEPT ![x] = pkt[m].n]
  BY <1>2, <1>9, <1>10, <1>12 DEF Ordered!Deliver, Ordered!Ordinary, Ordered!Next
<1>13. QED BY <1>2, <1>8, <1>11, <1>12

LEMMA SharedRxRefines ==
  ASSUME NEW Pc, SharedPc \subseteq Pc, TypeOKWith(Pc), TypeOKWith(Pc)',
         SoleOwner, OrderInv, LastInv, LateInv, spoiled = {}, spoiled' = {},
         NEW p \in Port, SharedRx(p)
  PROVE  [Ordered!Next]_(Ordered!vars)
<1>1. CASE RxFreed(p) \/ LoadCounter(p) \/ StoreCounter(p)
  <2>1. UNCHANGED <<bufs, pkt, ring, ptr, last>>
    BY <1>1 DEF RxFreed, LoadCounter, StoreCounter, wrkVars
  <2>2. QED BY <2>1, SameFlight DEF Held
<1>2. CASE RxBurstOf(p)
  BY <1>2, RxBurstRefines DEF Ordered!Ordinary, Ordered!Next
<1>3. CASE DropNonIp(p)
  <2>1. /\ bufs[p] # <<>> /\ StartFree(p, "none", 0)
        /\ UNCHANGED <<spoiled, pkt, ring, ptr, last>>
    BY <1>3 DEF DropNonIp, memVars, wrkVars
  <2>2. QED BY <2>1, StartFreeRefines
<1>4. QED BY <1>1, <1>2, <1>3 DEF SharedRx

LEMMA WorkerRefines ==
  ASSUME NEW Pc, SharedPc \subseteq Pc, TypeOKWith(Pc),
         SoleOwner, OrderInv, LastInv, LateInv, OneFifo, spoiled = {}, spoiled' = {},
         NEW f \in Fifo, Worker(f)
  PROVE  [Ordered!Next]_(Ordered!vars)
<1>1. CASE FetchBurst(f)
  <2>1. UNCHANGED <<bufs, pkt, last>> /\ \A g \in Fifo : Queued(g)' = Queued(g)
    BY <1>1, FetchBurstOrder DEF FetchBurst, rxVars
  <2>2. \A m : m \in Held' <=> m \in Held
    BY <2>1, HeldMember
  <2>3. Held' = Held
    <3>1. PICK a : a = Held'
      OBVIOUS
    <3>2. PICK b : b = Held
      OBVIOUS
    <3>3. a \subseteq b /\ b \subseteq a
      BY <2>2, <3>1, <3>2
    <3>4. a = b
      BY <3>3
    <3>5. QED BY <3>1, <3>2, <3>4
  <2>4. QED BY <2>1, <2>3, SameFlight
<1>2. CASE Transmit(f)
  BY <1>2, TransmitRefines
<1>3. CASE WrkFreed(f)
  <2>1. UNCHANGED <<bufs, pkt, ring, ptr, last>>
    BY <1>3 DEF WrkFreed, rxVars, wrkVars
  <2>2. QED BY <2>1, SameFlight DEF Held
<1>4. QED BY <1>1, <1>2, <1>3 DEF Worker

-----------------------------------------------------------------------------
(* The invariants that every variant has, put together *)

(* A counter is chosen whenever one is about to be loaded or stored.       *)
CounterChosen == \A p \in Port : pc[p] \in {"load", "store"} => given[p].ctr # "none"

BaseInv(Pc) == TypeOKWith(Pc) /\ CounterChosen /\ OwnInv /\ LateInv /\ AddsInv

LEMMA InitBase ==
  ASSUME NEW Pc, SharedPc \subseteq Pc, Init
  PROVE  BaseInv(Pc)
<1>1. TypeOKWith(Pc)
  BY InitTypeOK DEF SharedPc
<1>2. CounterChosen
  BY DEF Init, CounterChosen
<1>3. QED BY <1>1, <1>2, InitOwns, InitLate, InitAdds DEF BaseInv

LEMMA StutterBase ==
  ASSUME NEW Pc, BaseInv(Pc), UNCHANGED vars
  PROVE  BaseInv(Pc)'
<1>1. TypeOKWith(Pc)' /\ CounterChosen'
  BY DEF BaseInv, TypeOKWith, CounterChosen, vars
<1>2. OwnInv'
  <2>1. PutIdle'
    BY DEF BaseInv, OwnInv, PutIdle, vars
  <2>2. QED BY <2>1, StayOwns DEF BaseInv, vars
<1>3. LateInv'
  BY LateStays DEF BaseInv, vars
<1>4. AddsInv'
  BY AddsStay DEF BaseInv, Reached, vars
<1>5. QED BY <1>1, <1>2, <1>3, <1>4 DEF BaseInv

LEMMA SharedRxBase ==
  ASSUME NEW Pc, SharedPc \subseteq Pc, BaseInv(Pc), NEW p \in Port, SharedRx(p)
  PROVE  BaseInv(Pc)'
<1>0. /\ TypeOKWith(Pc) /\ CounterChosen /\ OwnInv /\ LateInv /\ AddsInv
      /\ pc \in [Port -> Pc] /\ given \in [Port -> Handover]
  BY DEF BaseInv, TypeOKWith
<1>1. OwnInv' /\ LateInv' /\ AddsInv'
  <2>1. arrived[p] \in Nat
    BY <1>0 DEF TypeOKWith
  <2>2. OwnInv'
    BY <1>0, <2>1, SharedRxOwns
  <2>3. LateInv'
    BY <1>0, SharedRxLate
  <2>4. AddsInv'
    BY <1>0, SharedRxAdds
  <2>5. QED
    BY <2>2, <2>3, <2>4
<1>2. CASE RxFreed(p)
  <2>1. CounterChosen'
    BY <1>0, <1>2 DEF CounterChosen, RxFreed
  <2>2. QED BY <1>0, <1>1, <1>2, <2>1, RxFreedType DEF BaseInv
<1>3. CASE RxBurstOf(p)
  <2>1. CounterChosen'
    BY <1>0, <1>3 DEF CounterChosen, RxBurstOf
  <2>2. QED BY <1>0, <1>1, <1>3, <2>1, RxBurstType DEF BaseInv
<1>4. CASE DropNonIp(p)
  <2>1. CounterChosen'
    BY <1>0, <1>4 DEF CounterChosen, DropNonIp, StartFree
  <2>2. QED BY <1>0, <1>1, <1>4, <2>1, DropNonIpType DEF BaseInv
<1>5. CASE LoadCounter(p)
  <2>1. given[p].ctr # "none"
    BY <1>0, <1>5 DEF CounterChosen, LoadCounter
  <2>2. /\ \A q \in Port : given'[q].ctr = given[q].ctr
        /\ \A q \in Port : q # p => pc'[q] = pc[q]
    BY <1>0, <1>5 DEF LoadCounter, Handover
  <2>3. CounterChosen'
    BY <1>0, <2>1, <2>2 DEF CounterChosen
  <2>4. QED BY <1>0, <1>1, <1>5, <2>1, <2>3, LoadStoreType DEF BaseInv
<1>6. CASE StoreCounter(p)
  <2>1. given[p].ctr # "none"
    BY <1>0, <1>6 DEF CounterChosen, StoreCounter
  <2>2. CounterChosen'
    BY <1>0, <1>6 DEF CounterChosen, StoreCounter
  <2>3. QED BY <1>0, <1>1, <1>6, <2>1, <2>2, LoadStoreType DEF BaseInv
<1>7. QED BY <1>2, <1>3, <1>4, <1>5, <1>6 DEF SharedRx

LEMMA WorkerBase ==
  ASSUME NEW Pc, SharedPc \subseteq Pc, BaseInv(Pc), NEW f \in Fifo, Worker(f)
  PROVE  BaseInv(Pc)'
<1>1. TypeOKWith(Pc)'
  BY FetchBurstType, TransmitType, WrkFreedType DEF BaseInv, Worker
<1>2. UNCHANGED <<pc, given>>
  BY DEF Worker, FetchBurst, Transmit, WrkFreed, rxVars
<1>3. CounterChosen'
  BY <1>2 DEF BaseInv, CounterChosen
<1>4. QED BY <1>1, <1>3, WorkerOwns, WorkerLate, WorkerAdds DEF BaseInv

(* What the variants do with a packet: hand it over, drop it, or move to   *)
(* another point of the search for a FIFO.                                 *)
Searching(p) == pc[p] \notin {"free", "load", "store"}

LEMMA EnqueueBase ==
  ASSUME NEW Pc, SharedPc \subseteq Pc, BaseInv(Pc), NEW p \in Port, NEW f \in Fifo,
         Searching(p), bufs[p] # <<>>, Enqueue(p, f), rxStat' \in [Port -> RxStats],
         UNCHANGED <<pool, spoiled, pkt, arrived, ptr, txq, putRx, putWrk, rxQueue,
                     wrkStat, last>>
  PROVE  BaseInv(Pc)'
<1>1. PICK m : m = Head(bufs[p])
  OBVIOUS
<1>2. /\ bufs \in [Port -> Seq(MBuf)] /\ pkt \in [MBuf -> Packet]
      /\ ring \in [Fifo -> Seq(MBuf)] /\ given \in [Port -> Handover]
      /\ pc \in [Port -> Pc]
  BY DEF BaseInv, TypeOKWith
<1>3. m \in MBuf /\ Tail(bufs[p]) \in Seq(MBuf) /\ pkt[m] \in Packet
  BY <1>1, <1>2, HeadTailProperties
<1>4. /\ ring' = [ring EXCEPT ![f] = Append(@, m)]
      /\ bufs' = [bufs EXCEPT ![p] = Tail(@)]
      /\ given' = [given EXCEPT ![p] =
                     [m |-> m, was |-> pkt[m], fifo |-> f, ctr |-> "add", val |-> 0]]
      /\ pc' = [pc EXCEPT ![p] = "load"]
  BY <1>1 DEF Enqueue
<1>5. ring' \in [Fifo -> Seq(MBuf)]
  <2>1. Append(ring[f], m) \in Seq(MBuf)
    BY <1>2, <1>3, AppendProperties
  <2>2. QED BY <1>2, <1>4, <2>1
<1>6. bufs' \in [Port -> Seq(MBuf)] /\ pc' \in [Port -> Pc]
  BY <1>2, <1>3, <1>4 DEF SharedPc
<1>7. given' \in [Port -> Handover]
  BY <1>2, <1>3, <1>4 DEF Handover
<1>8. TypeOKWith(Pc)'
  BY <1>5, <1>6, <1>7 DEF BaseInv, TypeOKWith, RxStats
<1>9. CounterChosen'
  BY <1>2, <1>4 DEF BaseInv, CounterChosen
<1>10. OwnInv' /\ LateInv'
  BY <1>2, EnqueueOwns, EnqueueLate DEF BaseInv, Searching
<1>11. AddsInv'
  BY EnqueueAdds DEF BaseInv, Searching, Counting
<1>12. QED BY <1>8, <1>9, <1>10, <1>11 DEF BaseInv

LEMMA StartFreeBase ==
  ASSUME NEW Pc, SharedPc \subseteq Pc, BaseInv(Pc), NEW p \in Port, NEW f \in Fifo,
         NEW c \in {"drp", "none"},
         Searching(p), bufs[p] # <<>>, StartFree(p, c, f), rxStat' \in [Port -> RxStats],
         UNCHANGED <<pool, spoiled, pkt, arrived, ring, ptr, txq, putWrk, rxQueue,
                     wrkStat, last>>
  PROVE  BaseInv(Pc)'
<1>1. given \in [Port -> Handover] /\ pc \in [Port -> Pc]
  BY DEF BaseInv, TypeOKWith
<1>2. /\ bufs' \in [Port -> Seq(MBuf)] /\ putRx' \in [Port -> SUBSET MBuf]
      /\ given' \in [Port -> Handover] /\ pc' \in [Port -> Pc]
  BY StartFreeType DEF BaseInv
<1>3. TypeOKWith(Pc)'
  BY <1>2 DEF BaseInv, TypeOKWith, RxStats
<1>4. CounterChosen'
  BY <1>1 DEF BaseInv, CounterChosen, StartFree
<1>5. OwnInv' /\ LateInv'
  BY <1>1, StartFreeOwns, StartFreeLate DEF BaseInv, Searching
<1>6. AddsInv'
  BY StartFreeAdds DEF BaseInv, Searching, Counting
<1>7. QED BY <1>3, <1>4, <1>5, <1>6 DEF BaseInv

LEMMA SearchBase ==
  ASSUME NEW Pc, BaseInv(Pc), NEW p \in Port, NEW c \in Pc,
         Searching(p), c \notin {"free", "load", "store"},
         pc' = [pc EXCEPT ![p] = c], rxStat' \in [Port -> RxStats],
         UNCHANGED <<pool, spoiled, pkt, arrived, bufs, given, ring, ptr, txq, putRx,
                     putWrk, rxQueue, wrkStat, last>>
  PROVE  BaseInv(Pc)'
<1>1. pc \in [Port -> Pc]
  BY DEF BaseInv, TypeOKWith
<1>2. pc'[p] = c /\ \A q \in Port : q # p => pc'[q] = pc[q]
  BY <1>1
<1>3. TypeOKWith(Pc)' /\ CounterChosen'
  BY <1>1 DEF BaseInv, TypeOKWith, CounterChosen, RxStats
<1>4. OwnInv'
  <2>1. PutIdle'
    BY <1>2 DEF BaseInv, OwnInv, PutIdle, Searching
  <2>2. QED BY <2>1, StayOwns DEF BaseInv
<1>5. LateInv'
  BY <1>2, LateStays DEF BaseInv, Counting
<1>6. AddsInv'
  BY <1>2, AddsStay DEF BaseInv, Counting, Searching, Reached
<1>7. QED BY <1>3, <1>4, <1>5, <1>6 DEF BaseInv

=============================================================================
