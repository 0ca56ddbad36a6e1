------------------------- MODULE EventPipelineProofs -------------------------
(***************************************************************************)
(* Theorems about EventPipeline, for every configuration, any number of    *)
(* ports and workers, any ring and burst: its types, that no event is lost *)
(* or doubled, and that what is transmitted has been through all stages.   *)
(***************************************************************************)
EXTENDS EventPipeline, SequenceTheorems, FiniteSetTheorems, WellFoundedInduction, TLAPS

-----------------------------------------------------------------------------
(* Numbers in sequences                                                    *)

LEMMA SplitLen ==
  ASSUME NEW S, NEW s \in Seq(S), NEW h \in 0 .. Len(s)
  PROVE  LET a == SubSeq(s, 1, h)
             b == SubSeq(s, h + 1, Len(s))
         IN  /\ a \in Seq(S) /\ Len(a) = h
             /\ \A i \in 1 .. h : a[i] = s[i]
             /\ b \in Seq(S) /\ Len(b) = Len(s) - h
             /\ \A i \in 1 .. Len(s) - h : b[i] = s[i + h]
<1> DEFINE a == SubSeq(s, 1, h)
           b == SubSeq(s, h + 1, Len(s))
<1>1. Len(s) \in Nat /\ DOMAIN s = 1 .. Len(s) /\ \A i \in 1 .. Len(s) : s[i] \in S
  BY LenProperties, ElementOfSeq
<1>2. /\ a \in Seq(S) /\ Len(a) = h
      /\ \A i \in 1 .. h : a[i] = s[i]
  BY <1>1, SubSeqProperties
<1>3. /\ b \in Seq(S) /\ Len(b) = Len(s) - h
      /\ \A i \in 1 .. Len(s) - h : b[i] = s[i + h]
  <2>1. h + 1 \in Int /\ Len(s) \in Int /\ \A i \in h + 1 .. Len(s) : s[i] \in S
    BY <1>1
  <2>2. /\ b \in Seq(S)
        /\ Len(b) = IF h + 1 <= Len(s) THEN Len(s) - (h + 1) + 1 ELSE 0
        /\ \A i \in 1 .. Len(s) - (h + 1) + 1 : b[i] = s[(h + 1) + i - 1]
    BY <2>1, SubSeqProperties
  <2> HIDE DEF b
  <2>0. Len(s) \in Int /\ h \in Int /\ 0 <= h /\ h <= Len(s)
    BY <1>1
  <2>3. Len(b) = Len(s) - h
    <3>1. CASE h + 1 <= Len(s)
      BY <3>1, <2>0, <2>2
    <3>2. CASE ~(h + 1 <= Len(s))
      <4>1. Len(b) = 0 BY <3>2, <2>2
      <4>2. Len(s) - h = 0 BY <3>2, <2>0
      <4>3. QED BY <4>1, <4>2
    <3>3. QED BY <3>1, <3>2
  <2>4. ASSUME NEW i \in 1 .. Len(s) - h
        PROVE  b[i] = s[i + h]
    <3>1. i \in 1 .. Len(s) - (h + 1) + 1 /\ (h + 1) + i - 1 = i + h
      BY <1>1
    <3>2. QED BY <2>2, <3>1
  <2>5. QED BY <2>2, <2>3, <2>4
<1>4. QED BY <1>2, <1>3

LEMMA LargestBelow ==
  ASSUME NEW h \in Nat, NEW S, S \subseteq 0 .. h, S # {}
  PROVE  \E m \in S : \A k \in S : k <= m
<1> DEFINE Above(m) == m + 1 .. h
           T == {Above(m) : m \in S}
<1>1. T \subseteq FiniteSubsetsOf(0 .. h) /\ T # {}
  <2>1. ASSUME NEW m \in S
        PROVE  Above(m) \in FiniteSubsetsOf(0 .. h)
    <3>1. m + 1 \in Int /\ h \in Int /\ Above(m) \subseteq 0 .. h
      OBVIOUS
    <3>2. IsFiniteSet(Above(m))
      BY <3>1, FS_Interval
    <3>3. QED BY <3>1, <3>2 DEF FiniteSubsetsOf
  <2>2. QED BY <2>1
<1>2. PICK x \in T : \A y \in T : ~ (<<y, x>> \in StrictSubsetOrdering(0 .. h))
  BY <1>1, FS_StrictSubsetOrderingWellFounded, WFMin
<1>3. PICK m \in S : x = Above(m)
  BY <1>2
<1>4. ASSUME NEW k \in S, k > m
      PROVE  FALSE
  <2>1. Above(k) \subseteq Above(m) /\ Above(k) # Above(m)
    <3>1. k \in Above(m) /\ k \notin Above(k)
      BY <1>4
    <3>2. \A i \in Above(k) : i \in Above(m)
      BY <1>4
    <3>3. QED BY <3>1, <3>2
  <2>2. Above(k) \in T /\ Above(m) \in T /\ Above(k) \subseteq 0 .. h /\ Above(m) \subseteq 0 .. h
    OBVIOUS
  <2>3. <<Above(k), Above(m)>> \in StrictSubsetOrdering(0 .. h)
    <3> HIDE DEF Above
    <3>1. QED BY <2>1, <2>2 DEF StrictSubsetOrdering
  <2>4. QED BY <1>2, <1>3, <2>2, <2>3
<1>5. QED BY <1>4

-----------------------------------------------------------------------------
(* A layout L gives each place of P a sequence of numbers, -1 for nothing. *)
(* The number i stands at position j of p, and nowhere else.               *)
Stands(L, p, j, i) == j \in 1 .. Len(L[p]) /\ L[p][j] = i
Only(P, L, p, j, i) ==
  /\ Stands(L, p, j, i)
  /\ \A q \in P : \A h \in Nat : Stands(L, q, h, i) => q = p /\ h = j

(* The numbers below m stand at one position each, and no others do.       *)
Once(P, L, m) ==
  /\ \A p \in P : \A j \in 1 .. Len(L[p]) : L[p][j] \in -1 .. m - 1
  /\ \A i \in 0 .. m - 1 : \E p \in P, j \in Nat : Only(P, L, p, j, i)

(* The first k numbers at A go to the end of B.                            *)
LEMMA ShiftOnce ==
  ASSUME NEW P, NEW L, NEW M, NEW m, Once(P, L, m),
         NEW A \in P, NEW B \in P, A # B, NEW k \in Nat,
         Len(L[A]) \in Nat, Len(L[B]) \in Nat, k <= Len(L[A]),
         \A p \in P \ {A, B} : M[p] = L[p],
         Len(M[A]) = Len(L[A]) - k,
         \A j \in 1 .. Len(L[A]) - k : M[A][j] = L[A][j + k],
         Len(M[B]) = Len(L[B]) + k,
         \A j \in 1 .. Len(L[B]) : M[B][j] = L[B][j],
         \A j \in 1 .. k : M[B][Len(L[B]) + j] = L[A][j]
  PROVE  Once(P, M, m)
<1> DEFINE b == Len(L[B])
<1>1. ASSUME NEW q \in P, NEW h \in Nat, NEW i, Stands(M, q, h, i)
      PROVE  \/ q \notin {A, B} /\ Stands(L, q, h, i)
             \/ q = A /\ Stands(L, A, h + k, i)
             \/ q = B /\ h <= b /\ Stands(L, B, h, i)
             \/ q = B /\ h > b /\ h - b \in Nat /\ Stands(L, A, h - b, i) /\ h - b <= k
  <2>1. CASE q \notin {A, B}
    BY <1>1, <2>1 DEF Stands
  <2>2. CASE q = A
    <3>1. h \in 1 .. Len(L[A]) - k /\ h + k \in 1 .. Len(L[A])
      BY <1>1, <2>2 DEF Stands
    <3>2. QED BY <1>1, <2>2, <3>1 DEF Stands
  <2>3. CASE q = B /\ h <= b
    BY <1>1, <2>3 DEF Stands
  <2>4. CASE q = B /\ h > b
    <3>1. PICK j \in 1 .. k : h = b + j
      <4>1. h \in 1 .. b + k
        BY <1>1, <2>4 DEF Stands
      <4>2. h - b \in 1 .. k /\ h = b + (h - b)
        BY <4>1, <2>4
      <4>3. QED BY <4>2
    <3>2. M[B][h] = L[A][j] /\ j = h - b /\ j \in 1 .. Len(L[A])
      BY <3>1
    <3>3. QED BY <1>1, <2>4, <3>1, <3>2 DEF Stands
  <2>5. QED BY <2>1, <2>2, <2>3, <2>4
<1>2. ASSUME NEW p \in P, NEW j \in Nat, NEW i, Stands(L, p, j, i)
      PROVE  /\ p \notin {A, B} => Stands(M, p, j, i)
             /\ p = A /\ j <= k => Stands(M, B, b + j, i)
             /\ p = A /\ j > k => j - k \in Nat /\ Stands(M, A, j - k, i)
             /\ p = B => Stands(M, B, j, i)
  <2>1. CASE p \notin {A, B}
    BY <1>2, <2>1 DEF Stands
  <2>2. CASE p = A /\ j <= k
    <3>1. j \in 1 .. k /\ b + j \in 1 .. b + k
      BY <1>2, <2>2 DEF Stands
    <3>2. QED BY <1>2, <2>2, <3>1 DEF Stands
  <2>3. CASE p = A /\ j > k
    <3>1. j - k \in 1 .. Len(L[A]) - k /\ (j - k) + k = j
      BY <1>2, <2>3 DEF Stands
    <3>2. QED BY <1>2, <2>3, <3>1 DEF Stands
  <2>4. CASE p = B
    BY <1>2, <2>4 DEF Stands
  <2>5. QED BY <2>1, <2>2, <2>3, <2>4
<1>3. \A p \in P : \A j \in 1 .. Len(M[p]) : M[p][j] \in -1 .. m - 1
  <2>1. ASSUME NEW p \in P, NEW j \in 1 .. Len(M[p])
        PROVE  M[p][j] \in -1 .. m - 1
    <3>1. j \in Nat /\ Stands(M, p, j, M[p][j])
      BY DEF Stands
    <3>2. PICK q \in P, h \in Nat : Stands(L, q, h, M[p][j])
      BY <1>1, <3>1
    <3>3. QED BY <3>2 DEF Stands, Once
  <2>2. QED BY <2>1
<1>4. ASSUME NEW i \in 0 .. m - 1
      PROVE  \E p \in P, j \in Nat : Only(P, M, p, j, i)
  <2>1. PICK p \in P, j \in Nat : Only(P, L, p, j, i)
    BY DEF Once
  <2>2. Stands(L, p, j, i) /\ \A q \in P : \A h \in Nat : Stands(L, q, h, i) => q = p /\ h = j
    BY <2>1 DEF Only
  <2> HIDE DEF b
  <2>0. b \in Nat
    BY DEF b
  <2>3. CASE p \notin {A, B}
    <3>1. Only(P, M, p, j, i)
      BY <1>1, <1>2, <2>2, <2>3 DEF Only
    <3>2. QED BY <3>1
  <2>4. CASE p = A /\ j <= k
    <3>1. Stands(M, B, b + j, i)
      BY <1>2, <2>2, <2>4
    <3>2. ASSUME NEW q \in P, NEW h \in Nat, Stands(M, q, h, i)
          PROVE  q = B /\ h = b + j
      <4>1. q = A => h + k = j
        BY <1>1, <2>2, <2>4, <3>2
      <4>2. q # A
        <5>1. q = A => h >= 1
          BY <3>2 DEF Stands
        <5>2. QED BY <4>1, <5>1, <2>4
      <4>3. q = B /\ h > b /\ h - b = j
        BY <1>1, <2>2, <2>4, <3>2, <4>2
      <4>4. QED BY <4>3, <2>0
    <3>3. Only(P, M, B, b + j, i) /\ b + j \in Nat
      BY <3>1, <3>2, <2>0 DEF Only
    <3>4. QED BY <3>3
  <2>5. CASE p = A /\ j > k
    <3>1. j - k \in Nat /\ Stands(M, A, j - k, i)
      BY <1>2, <2>2, <2>5
    <3>2. ASSUME NEW q \in P, NEW h \in Nat, Stands(M, q, h, i)
          PROVE  q = A /\ h = j - k
      <4>1. q = A /\ h + k = j
        BY <1>1, <2>2, <2>5, <3>2
      <4>2. QED BY <4>1
    <3>3. Only(P, M, A, j - k, i)
      BY <3>1, <3>2 DEF Only
    <3>4. QED BY <3>1, <3>3
  <2>6. CASE p = B
    <3>1. Only(P, M, p, j, i)
      BY <1>1, <1>2, <2>2, <2>6 DEF Only
    <3>2. QED BY <3>1
  <2>7. QED BY <2>3, <2>4, <2>5, <2>6
<1>5. QED BY <1>3, <1>4 DEF Once

(* The number at position k of A goes to the end of B.                     *)
LEMMA TakeOnce ==
  ASSUME NEW P, NEW L, NEW M, NEW m \in Nat, Once(P, L, m),
         NEW A \in P, NEW B \in P, A # B, NEW k \in Nat,
         k \in 1 .. Len(L[A]), L[A][k] # -1,
         Len(L[A]) \in Nat, Len(L[B]) \in Nat,
         \A p \in P \ {A, B} : M[p] = L[p],
         Len(M[A]) = Len(L[A]),
         \A j \in 1 .. Len(L[A]) : M[A][j] = IF j = k THEN -1 ELSE L[A][j],
         Len(M[B]) = Len(L[B]) + 1,
         \A j \in 1 .. Len(L[B]) : M[B][j] = L[B][j],
         M[B][Len(L[B]) + 1] = L[A][k]
  PROVE  Once(P, M, m)
<1> DEFINE b == Len(L[B])
<1>0. Stands(L, A, k, L[A][k])
  BY DEF Stands
<1>1. ASSUME NEW q \in P, NEW h \in Nat, NEW i, Stands(M, q, h, i), i # -1
      PROVE  \/ q \notin {A, B} /\ Stands(L, q, h, i)
             \/ q = A /\ h # k /\ Stands(L, A, h, i)
             \/ q = B /\ h <= b /\ Stands(L, B, h, i)
             \/ q = B /\ h = b + 1 /\ i = L[A][k]
  <2>1. CASE q \notin {A, B}
    BY <1>1, <2>1 DEF Stands
  <2>2. CASE q = A
    BY <1>1, <2>2 DEF Stands
  <2>3. CASE q = B
    <3>1. h \in 1 .. b + 1
      BY <1>1, <2>3 DEF Stands
    <3>2. QED BY <1>1, <2>3, <3>1 DEF Stands
  <2>4. QED BY <2>1, <2>2, <2>3
<1>2. ASSUME NEW p \in P, NEW j \in Nat, NEW i, Stands(L, p, j, i)
      PROVE  /\ p \notin {A, B} => Stands(M, p, j, i)
             /\ p = A /\ j # k => Stands(M, A, j, i)
             /\ p = B => Stands(M, B, j, i)
  <2>1. CASE p \notin {A, B}
    BY <1>2, <2>1 DEF Stands
  <2>2. CASE p = A
    BY <1>2, <2>2 DEF Stands
  <2>3. CASE p = B
    BY <1>2, <2>3 DEF Stands
  <2>4. QED BY <2>1, <2>2, <2>3
<1>3. Stands(M, B, b + 1, L[A][k])
  BY DEF Stands
<1>4. \A p \in P : \A j \in 1 .. Len(M[p]) : M[p][j] \in -1 .. m - 1
  <2>1. ASSUME NEW p \in P, NEW j \in 1 .. Len(M[p]), M[p][j] # -1
        PROVE  M[p][j] \in -1 .. m - 1
    <3>1. j \in Nat /\ Stands(M, p, j, M[p][j])
      BY DEF Stands
    <3>2. PICK q \in P, h \in Nat : Stands(L, q, h, M[p][j])
      BY <1>0, <1>1, <2>1, <3>1
    <3>3. QED BY <3>2 DEF Stands, Once
  <2>2. -1 \in -1 .. m - 1
    OBVIOUS
  <2>3. QED BY <2>1, <2>2
<1>5. ASSUME NEW i \in 0 .. m - 1
      PROVE  \E p \in P, j \in Nat : Only(P, M, p, j, i)
  <2>1. PICK p \in P, j \in Nat : Only(P, L, p, j, i)
    BY DEF Once
  <2>2. Stands(L, p, j, i) /\ \A q \in P : \A h \in Nat : Stands(L, q, h, i) => q = p /\ h = j
    BY <2>1 DEF Only
  <2> HIDE DEF b
  <2>0. b \in Nat /\ i # -1
    BY DEF b
  <2>3. CASE ~(p = A /\ j = k)
    <3>1. i # L[A][k]
      BY <1>0, <2>2, <2>3
    <3>2. Stands(M, p, j, i)
      BY <1>2, <2>2, <2>3
    <3>3. \A q \in P : \A h \in Nat : Stands(M, q, h, i) => q = p /\ h = j
      BY <1>1, <2>0, <2>2, <3>1
    <3>4. QED BY <3>2, <3>3 DEF Only
  <2>4. CASE p = A /\ j = k
    <3>1. i = L[A][k]
      BY <2>2, <2>4 DEF Stands
    <3>2. ASSUME NEW q \in P, NEW h \in Nat, Stands(M, q, h, i)
          PROVE  q = B /\ h = b + 1
      BY <1>1, <2>0, <2>2, <2>4, <3>2
    <3>3. b + 1 \in Nat /\ Only(P, M, B, b + 1, i)
      BY <1>3, <2>0, <3>1, <3>2 DEF Only
    <3>4. QED BY <3>3
  <2>5. QED BY <2>3, <2>4
<1>6. QED BY <1>4, <1>5 DEF Once

(* The first position of A, where nothing stands, goes.                    *)
LEMMA DropOnce ==
  ASSUME NEW P, NEW L, NEW M, NEW m, Once(P, L, m), NEW A \in P,
         Len(L[A]) \in Nat \ {0}, L[A][1] = -1,
         \A p \in P \ {A} : M[p] = L[p],
         Len(M[A]) = Len(L[A]) - 1,
         \A j \in 1 .. Len(L[A]) - 1 : M[A][j] = L[A][j + 1]
  PROVE  Once(P, M, m)
<1>1. ASSUME NEW q \in P, NEW h \in Nat, NEW i, Stands(M, q, h, i)
      PROVE  \/ q # A /\ Stands(L, q, h, i)
             \/ q = A /\ Stands(L, A, h + 1, i)
  <2>1. CASE q # A
    BY <1>1, <2>1 DEF Stands
  <2>2. CASE q = A
    <3>1. h \in 1 .. Len(L[A]) - 1 /\ h + 1 \in 1 .. Len(L[A])
      BY <1>1, <2>2 DEF Stands
    <3>2. QED BY <1>1, <2>2, <3>1 DEF Stands
  <2>3. QED BY <2>1, <2>2
<1>2. ASSUME NEW p \in P, NEW j \in Nat, NEW i, Stands(L, p, j, i), i # -1
      PROVE  /\ p # A => Stands(M, p, j, i)
             /\ p = A => j - 1 \in Nat /\ Stands(M, A, j - 1, i)
  <2>1. CASE p # A
    BY <1>2, <2>1 DEF Stands
  <2>2. CASE p = A
    <3>1. j - 1 \in 1 .. Len(L[A]) - 1 /\ (j - 1) + 1 = j
      BY <1>2, <2>2 DEF Stands
    <3>2. QED BY <1>2, <2>2, <3>1 DEF Stands
  <2>3. QED BY <2>1, <2>2
<1>3. \A p \in P : \A j \in 1 .. Len(M[p]) : M[p][j] \in -1 .. m - 1
  <2>1. ASSUME NEW p \in P, NEW j \in 1 .. Len(M[p])
        PROVE  M[p][j] \in -1 .. m - 1
    <3>1. j \in Nat /\ Stands(M, p, j, M[p][j])
      BY DEF Stands
    <3>2. PICK q \in P, h \in Nat : Stands(L, q, h, M[p][j])
      BY <1>1, <3>1
    <3>3. QED BY <3>2 DEF Stands, Once
  <2>2. QED BY <2>1
<1>4. ASSUME NEW i \in 0 .. m - 1
      PROVE  \E p \in P, j \in Nat : Only(P, M, p, j, i)
  <2>1. PICK p \in P, j \in Nat : Only(P, L, p, j, i)
    BY DEF Once
  <2>2. Stands(L, p, j, i) /\ \A q \in P : \A h \in Nat : Stands(L, q, h, i) => q = p /\ h = j
    BY <2>1 DEF Only
  <2>3. i # -1
    OBVIOUS
  <2>4. CASE p # A
    <3>1. Only(P, M, p, j, i)
      BY <1>1, <1>2, <2>2, <2>3, <2>4 DEF Only
    <3>2. QED BY <3>1
  <2>5. CASE p = A
    <3>1. j - 1 \in Nat /\ Stands(M, A, j - 1, i)
      BY <1>2, <2>2, <2>3, <2>5
    <3>2. ASSUME NEW q \in P, NEW h \in Nat, Stands(M, q, h, i)
          PROVE  q = A /\ h = j - 1
      <4>1. q = A /\ h + 1 = j
        BY <1>1, <2>2, <2>5, <3>2
      <4>2. QED BY <4>1
    <3>3. QED BY <3>1, <3>2 DEF Only
  <2>6. QED BY <2>4, <2>5
<1>5. QED BY <1>3, <1>4 DEF Once

(* The next number is put at the end of B.                                 *)
LEMMA NewOnce ==
  ASSUME NEW P, NEW L, NEW M, NEW m \in Nat, Once(P, L, m), NEW B \in P,
         Len(L[B]) \in Nat,
         \A p \in P \ {B} : M[p] = L[p],
         Len(M[B]) = Len(L[B]) + 1,
         \A j \in 1 .. Len(L[B]) : M[B][j] = L[B][j],
         M[B][Len(L[B]) + 1] = m
  PROVE  Once(P, M, m + 1)
<1> DEFINE b == Len(L[B])
<1>1. ASSUME NEW q \in P, NEW h \in Nat, NEW i, Stands(M, q, h, i)
      PROVE  Stands(L, q, h, i) \/ (q = B /\ h = b + 1 /\ i = m)
  <2>1. CASE q # B
    BY <1>1, <2>1 DEF Stands
  <2>2. CASE q = B
    <3>1. h \in 1 .. b + 1
      BY <1>1, <2>2 DEF Stands
    <3>2. QED BY <1>1, <2>2, <3>1 DEF Stands
  <2>3. QED BY <2>1, <2>2
<1>2. ASSUME NEW p \in P, NEW j \in Nat, NEW i, Stands(L, p, j, i)
      PROVE  Stands(M, p, j, i) /\ i \in -1 .. m - 1
  <2>1. Stands(M, p, j, i)
    BY <1>2 DEF Stands
  <2>2. QED BY <1>2, <2>1 DEF Stands, Once
<1>3. \A p \in P : \A j \in 1 .. Len(M[p]) : M[p][j] \in -1 .. m
  <2>1. ASSUME NEW p \in P, NEW j \in 1 .. Len(M[p])
        PROVE  M[p][j] \in -1 .. m
    <3>1. j \in Nat /\ Stands(M, p, j, M[p][j])
      BY DEF Stands
    <3>2. M[p][j] = m \/ M[p][j] \in -1 .. m - 1
      BY <1>1, <1>2, <3>1
    <3>3. QED BY <3>2
  <2>2. QED BY <2>1
<1>4. ASSUME NEW i \in 0 .. m - 1
      PROVE  \E p \in P, j \in Nat : Only(P, M, p, j, i)
  <2>1. PICK p \in P, j \in Nat : Only(P, L, p, j, i)
    BY DEF Once
  <2>2. i # m
    OBVIOUS
  <2>3. Only(P, M, p, j, i)
    BY <1>1, <1>2, <2>1, <2>2 DEF Only
  <2>4. QED BY <2>3
<1>5. \E p \in P, j \in Nat : Only(P, M, p, j, m)
  <2>1. Stands(M, B, b + 1, m) /\ b + 1 \in Nat
    BY DEF Stands
  <2>2. m \notin -1 .. m - 1
    OBVIOUS
  <2>3. Only(P, M, B, b + 1, m)
    BY <1>1, <1>2, <2>1, <2>2 DEF Only
  <2>4. QED BY <2>1, <2>3
<1>6. (m + 1) - 1 = m /\ \A i \in 0 .. m : i = m \/ i \in 0 .. m - 1
  OBVIOUS
<1>7. QED BY <1>3, <1>4, <1>5, <1>6 DEF Once

-----------------------------------------------------------------------------
(* Events, queues and steering                                             *)

LEMMA EventFields ==
  ASSUME NEW e \in Event
  PROVE  /\ e.id \in Nat /\ e.port \in EthPort /\ e.queue_id \in Nat
         /\ e.sub_event_type \in Nat /\ e.sched_type \in Sched
         /\ e.op \in {"NEW", "FORWARD", "RELEASE"} /\ e.visits \in Nat
BY DEF Event

LEMMA ConfigFields ==
  ASSUME NEW c \in Config
  PROVE  /\ c.pipeline \in {"generic", "tx"} /\ c.burst \in BOOLEAN
         /\ c.all_type_queues \in BOOLEAN /\ c.num_stages \in Nat \ {0}
         /\ c.queue_type \in Sched
BY SteeringAssumption

LEMMA ForwardIs ==
  ASSUME NEW e \in Event, NEW s \in Sched
  PROVE  LET f == Forward(e, s)
         IN  /\ f \in Event /\ f.op = "FORWARD" /\ f.sched_type = s
             /\ f.id = e.id /\ f.port = e.port /\ f.queue_id = e.queue_id
             /\ f.sub_event_type = e.sub_event_type /\ f.visits = e.visits
BY DEF Forward, Event

(* What a steered event keeps, and what becomes of the rest.               *)
LEMMA SteeredIs ==
  ASSUME NEW c \in Config, NEW e \in Event
  PROVE  LET f == Steered(c, e)
         IN  /\ f \in Event /\ f.op = "FORWARD" /\ f.id = e.id /\ f.visits = e.visits
             /\ f.queue_id \in {e.queue_id, e.queue_id + 1}
<1>1. "ATOMIC" \in Sched /\ c.queue_type \in Sched /\ e.queue_id \in Nat /\ e.sub_event_type \in Nat
  BY ConfigFields, EventFields DEF Sched
<1>2. ASSUME NEW f \in Event
      PROVE  /\ [f EXCEPT !.queue_id = e.queue_id + 1] \in Event
             /\ [f EXCEPT !.queue_id = f.queue_id + 1] \in Event
             /\ [f EXCEPT !.sub_event_type = f.sub_event_type + 1] \in Event
  BY <1>1, EventFields DEF Event
<1>3. CASE Steered(c, e) = Generic(c, e)
  BY <1>1, <1>2, <1>3, ForwardIs DEF Generic, next_qid, Event
<1>4. CASE Steered(c, e) = SingleAtq(e)
  BY <1>1, <1>4, ForwardIs DEF SingleAtq
<1>5. CASE Steered(c, e) = Single(e)
  BY <1>1, <1>2, <1>5, ForwardIs DEF Single, Event
<1>6. CASE Steered(c, e) = MultiAtq(c, e)
  BY <1>1, <1>2, <1>6, ForwardIs DEF MultiAtq, Event
<1>7. CASE Steered(c, e) = Multi(c, e)
  BY <1>1, <1>2, <1>7, ForwardIs DEF Multi, next_qid, Event
<1>8. QED BY <1>3, <1>4, <1>5, <1>6, <1>7 DEF Steered

LEMMA QueueFacts ==
  ASSUME cdata \in Config
  PROVE  /\ nb_queues(cdata) \in Nat \ {0}
         /\ LinkedToWorkers(cdata) \subseteq Queue
         /\ cdata.pipeline = "generic" => TxQueue \in Queue
         /\ \A m \in Nat, p \in EthPort : Injected(cdata, m, p) \in Event
         /\ \A m \in Nat, p \in EthPort :
              LET e == Injected(cdata, m, p)
              IN  e.queue_id \in Queue /\ e.id = m /\ e.op = "NEW"
<1> DEFINE s == cdata.num_stages
           N == NumPorts
<1>1. s \in Nat \ {0} /\ N \in Nat \ {0}
  BY ConfigFields, SteeringAssumption
<1>2. N * s \in Nat /\ N * s + N \in Nat \ {0}
  BY <1>1
<1>3. nb_queues(cdata) \in Nat \ {0}
  BY <1>1, <1>2 DEF nb_queues
<1>4. LinkedToWorkers(cdata) \subseteq Queue
  BY <1>1, <1>3 DEF LinkedToWorkers, Queue, nb_queues
<1>5. cdata.pipeline = "generic" => TxQueue \in Queue
  BY <1>1 DEF TxQueue, Queue, nb_queues
<1>6. ASSUME NEW p \in EthPort
      PROVE  p * rx_stride(cdata) \in Queue /\ p * rx_stride(cdata) \in Nat
  <2>1. p \in Nat /\ p <= N - 1
    BY <1>1 DEF EthPort
  <2>2. CASE cdata.pipeline = "generic"
    BY <1>3, <2>1, <2>2 DEF rx_stride, Queue
  <2>3. CASE cdata.pipeline # "generic" /\ cdata.all_type_queues
    BY <1>1, <2>1, <2>3 DEF rx_stride, Queue, nb_queues
  <2>4. CASE cdata.pipeline # "generic" /\ ~cdata.all_type_queues
    <3> DEFINE u == p * (s + 1)
               v == N * s + N
    <3>1. u \in Nat /\ v \in Nat /\ u <= v - 1
      <4> HIDE DEF s, N
      <4>1. p * (s + 1) \in Nat /\ p * (s + 1) <= (N - 1) * (s + 1)
        BY <1>1, <2>1
      <4>2. (N - 1) * (s + 1) = N * s + N - s - 1
        BY <1>1
      <4>3. QED BY <1>1, <1>2, <4>1, <4>2
    <3>2. p * rx_stride(cdata) = u /\ nb_queues(cdata) = v
      BY <2>4 DEF rx_stride, nb_queues
    <3> HIDE DEF u, v
    <3>3. u \in 0 .. v - 1
      BY <3>1
    <3>4. QED BY <3>1, <3>2, <3>3 DEF Queue
  <2>5. QED BY <2>2, <2>3, <2>4
<1>7. ASSUME NEW m \in Nat, NEW p \in EthPort
      PROVE  LET e == Injected(cdata, m, p)
             IN  e \in Event /\ e.queue_id \in Queue /\ e.id = m /\ e.op = "NEW"
  BY <1>6, ConfigFields DEF Injected, Event, Sched
<1>8. QED BY <1>3, <1>4, <1>5, <1>7

LEMMA RestIs ==
  ASSUME TypeOK, NEW w \in Worker
  PROVE  /\ Rest(w) \in Seq(Event) /\ Len(Rest(w)) = Len(events[w]) - n[w]
         /\ \A j \in 1 .. Len(Rest(w)) : Rest(w)[j] = events[w][j + n[w]]
<1>1. events[w] \in Seq(Event) /\ n[w] \in Nat /\ n[w] <= Len(events[w]) /\ Len(events[w]) \in Nat
  BY LenProperties DEF TypeOK
<1>2. n[w] \in 0 .. Len(events[w])
  BY <1>1
<1> DEFINE s == events[w]
           k == n[w]
<1>3. Rest(w) = SubSeq(s, k + 1, Len(s))
  BY DEF Rest
<1> HIDE DEF s, k
<1>4. /\ SubSeq(s, k + 1, Len(s)) \in Seq(Event) /\ Len(SubSeq(s, k + 1, Len(s))) = Len(s) - k
      /\ \A j \in 1 .. Len(s) - k : SubSeq(s, k + 1, Len(s))[j] = s[j + k]
  BY <1>1, <1>2, SplitLen DEF s, k
<1>5. QED BY <1>3, <1>4 DEF s, k

(* An enqueue takes as many events as it can: there is such a number.      *)
LEMMA TakesIs ==
  ASSUME TypeOK, NEW w \in Worker
  PROVE  /\ Takes(w) \in 0 .. Len(Rest(w)) /\ Takes(w) <= Room(w)
         /\ \A j \in 1 .. Takes(w) : Rest(w)[j].queue_id \in Queue
<1> DEFINE r == Rest(w)
           S == {m \in 0 .. Len(r) : m <= Room(w) /\ \A j \in 1 .. m : r[j].queue_id \in Queue}
           Stops(m) == \/ m = Len(r) \/ m = Room(w) \/ r[m + 1].queue_id \notin Queue
<1>1. Len(r) \in Nat /\ Room(w) \in Nat
  <2>1. Len(ring[w]) \in Nat /\ Len(ring[w]) <= RingRoom /\ RingRoom \in Nat
    BY PipelineAssumption, LenProperties DEF TypeOK
  <2>2. QED BY <2>1, RestIs, LenProperties DEF Room
<1> HIDE DEF r
<1>2. S \subseteq 0 .. Len(r) /\ 0 \in S
  BY <1>1
<1>3. PICK m \in S : \A k \in S : k <= m
  BY <1>1, <1>2, LargestBelow
<1>4. Stops(m)
  <2>1. SUFFICES ASSUME m # Len(r), m # Room(w), r[m + 1].queue_id \in Queue
                 PROVE  FALSE
    OBVIOUS
  <2>2. m + 1 \in 0 .. Len(r) /\ m + 1 <= Room(w) /\ m \in Nat
    BY <1>1, <2>1
  <2>3. \A j \in 1 .. m + 1 : j \in 1 .. m \/ j = m + 1
    BY <2>2
  <2>4. m + 1 \in S
    BY <2>1, <2>2, <2>3
  <2>5. QED BY <1>3, <2>2, <2>4
<1>5. Takes(w) = CHOOSE k \in 0 .. Len(r) :
                   k <= Room(w) /\ (\A j \in 1 .. k : r[j].queue_id \in Queue) /\ Stops(k)
  BY DEF Takes, r
<1>6. QED BY <1>3, <1>4, <1>5 DEF r

-----------------------------------------------------------------------------
(* The invariant                                                           *)

(* Events wait in the queue they name, and in rings for a queue there is.  *)
Homed == \A k \in Queue : \A j \in 1 .. Len(queue[k]) :
           queue[k][j].queue_id = k /\ queue[k][j].op # "RELEASE"
Bound == \A w \in Worker : \A j \in 1 .. Len(ring[w]) : ring[w][j].queue_id \in Queue

(* A worker has a burst only while it works on it, and what it has not yet *)
(* come to is not released.                                                *)
HandOf(w) ==
  /\ at[w] \in {"loop", "stopped"} => events[w] = <<>>
  /\ at[w] = "each" => /\ n[w] < Len(events[w])
                       /\ \A j \in n[w] + 1 .. Len(events[w]) : events[w][j].op # "RELEASE"
  /\ ~cdata.burst => Len(events[w]) <= 1

LeftBehind == left # <<>> => GivesUp /\ done

(* The numbers of the events at each place.                                *)
Ids(s) == [j \in 1 .. Len(s) |-> IF s[j].op = "RELEASE" THEN -1 ELSE s[j].id]
Layout == [p \in Place |-> Ids(At(p))]
AllOnce == Once(Place, Layout, received)

EInv == TypeOK /\ Homed /\ Bound /\ (\A w \in Worker : HandOf(w)) /\ LeftBehind /\ AllOnce

LEMMA IdsIs ==
  ASSUME NEW s \in Seq(Event)
  PROVE  /\ Len(Ids(s)) = Len(s) /\ Len(s) \in Nat
         /\ \A j \in 1 .. Len(s) :
              /\ Ids(s)[j] = IF s[j].op = "RELEASE" THEN -1 ELSE s[j].id
              /\ s[j] \in Event
<1>1. Len(s) \in Nat /\ \A j \in 1 .. Len(s) : s[j] \in Event
  BY LenProperties, ElementOfSeq
<1>2. DOMAIN Ids(s) = 1 .. Len(s) /\ Ids(s) \in Seq(Int)
  <2>1. \A j \in 1 .. Len(s) : s[j].id \in Int
    BY <1>1, EventFields
  <2>2. Ids(s) \in [1 .. Len(s) -> Int]
    BY <2>1 DEF Ids
  <2>3. QED BY <1>1, <2>2, SeqDef
<1>3. Len(Ids(s)) = Len(s)
  BY <1>1, <1>2, LenProperties
<1>4. QED BY <1>1, <1>3 DEF Ids

LEMMA Places ==
  /\ \A k \in Queue : <<"queue", k>> \in Place /\ At(<<"queue", k>>) = queue[k]
  /\ \A w \in Worker : /\ <<"ring", w>> \in Place /\ At(<<"ring", w>>) = ring[w]
                       /\ <<"hand", w>> \in Place /\ At(<<"hand", w>>) = InHand(w)
  /\ <<"sent", 0>> \in Place /\ At(<<"sent", 0>>) = sent
  /\ <<"left", 0>> \in Place /\ At(<<"left", 0>>) = left
  /\ \A p \in Place :
       \/ \E k \in Queue : p = <<"queue", k>>
       \/ \E w \in Worker : p = <<"ring", w>> \/ p = <<"hand", w>>
       \/ p = <<"sent", 0>> \/ p = <<"left", 0>>
BY DEF Place, At

LEMMA PlaceTypes == TypeOK => \A p \in Place : At(p) \in Seq(Event)
<1> SUFFICES ASSUME TypeOK, NEW p \in Place
             PROVE  At(p) \in Seq(Event)
  OBVIOUS
<1>1. \A w \in Worker : InHand(w) \in Seq(Event)
  BY RestIs DEF InHand, TypeOK
<1>2. QED BY <1>1, Places DEF TypeOK

(* An event is at one place only.                                          *)
LEMMA OnceIsOnce == TypeOK /\ LeftBehind /\ AllOnce => EachEventOnce
<1> SUFFICES ASSUME TypeOK, LeftBehind, AllOnce, NEW id \in 0 .. received - 1
             PROVE  Cardinality(Spots(id)) = 1
  BY DEF EachEventOnce, LeftBehind
<1>1. PICK p \in Place, j \in Nat : Only(Place, Layout, p, j, id)
  BY DEF AllOnce, Once
<1>2. id \in Nat /\ id # -1
  BY DEF TypeOK
<1>3. \A q \in Place, h \in Nat : Stands(Layout, q, h, id) <=> h \in Live(id, At(q))
  <2>1. ASSUME NEW q \in Place, NEW h \in Nat
        PROVE  Stands(Layout, q, h, id) <=> h \in Live(id, At(q))
    <3>1. Layout[q] = Ids(At(q)) /\ At(q) \in Seq(Event)
      BY PlaceTypes DEF Layout
    <3> DEFINE s == At(q)
    <3> HIDE DEF s
    <3>2. h \in 1 .. Len(s) => (Ids(s)[h] = id <=> s[h].id = id /\ s[h].op # "RELEASE")
      BY <1>2, <3>1, IdsIs DEF s
    <3>3. Len(Ids(s)) = Len(s)
      BY <3>1, IdsIs DEF s
    <3>4. QED BY <3>1, <3>2, <3>3 DEF Stands, Live, s
  <2>2. QED BY <2>1
<1>4. Spots(id) = {<<p, j>>}
  <2>1. j \in Live(id, At(p)) /\ \A q \in Place : \A h \in Live(id, At(q)) : q = p /\ h = j
    <3>1. \A q \in Place : \A h \in Live(id, At(q)) : h \in Nat
      BY DEF Live
    <3>2. QED BY <1>1, <1>3, <3>1 DEF Only
  <2>2. <<p, j>> \in Spots(id)
    BY <2>1 DEF Spots
  <2>3. ASSUME NEW x \in Spots(id)
        PROVE  x = <<p, j>>
    <3>1. PICK q \in Place : x \in {q} \X Live(id, At(q))
      BY DEF Spots
    <3>2. PICK h \in Live(id, At(q)) : x = <<q, h>>
      BY <3>1
    <3>3. QED BY <2>1, <3>2
  <2>4. QED BY <2>2, <2>3
<1>5. QED BY <1>4, FS_Singleton

-----------------------------------------------------------------------------
(* How events move from place to place                                     *)

LEMMA PlacesNext ==
  ASSUME cdata' = cdata
  PROVE  /\ Place' = Place /\ Queue' = Queue
         /\ \A k \in Queue : At(<<"queue", k>>)' = queue'[k]
         /\ \A w \in Worker : /\ At(<<"ring", w>>)' = ring'[w]
                              /\ At(<<"hand", w>>)' = InHand(w)'
         /\ At(<<"sent", 0>>)' = sent' /\ At(<<"left", 0>>)' = left'
BY DEF Place, At, Queue

(* What a step does not touch stays as it is.                              *)
LEMMA Elsewhere ==
  ASSUME cdata' = cdata, NEW X,
         \A k \in Queue : <<"queue", k>> \notin X => queue'[k] = queue[k],
         \A w \in Worker : <<"ring", w>> \notin X => ring'[w] = ring[w],
         \A w \in Worker : <<"hand", w>> \notin X =>
           at'[w] = at[w] /\ events'[w] = events[w] /\ n'[w] = n[w],
         <<"sent", 0>> \notin X => sent' = sent,
         <<"left", 0>> \notin X => left' = left
  PROVE  \A p \in Place \ X : At(p)' = At(p)
<1>1. \A w \in Worker : <<"hand", w>> \notin X => InHand(w)' = InHand(w)
  BY DEF InHand, Rest
<1>2. SUFFICES ASSUME NEW p \in Place, p \notin X
               PROVE  At(p)' = At(p)
  OBVIOUS
<1>3. CASE \E k \in Queue : p = <<"queue", k>>
  BY <1>2, <1>3, Places, PlacesNext
<1>4. ASSUME NEW w \in Worker, p = <<"ring", w>>
      PROVE  At(p)' = At(p)
  <2>1. At(p)' = ring'[w] /\ At(p) = ring[w]
    BY <1>4, Places, PlacesNext
  <2>2. QED BY <1>2, <1>4, <2>1
<1>5. ASSUME NEW w \in Worker, p = <<"hand", w>>
      PROVE  At(p)' = At(p)
  <2>1. At(p)' = InHand(w)' /\ At(p) = InHand(w)
    BY <1>5, Places, PlacesNext
  <2>2. QED BY <1>1, <1>2, <1>5, <2>1
<1>6. CASE p = <<"sent", 0>> \/ p = <<"left", 0>>
  BY <1>2, <1>6, Places, PlacesNext
<1>7. QED BY <1>3, <1>4, <1>5, <1>6, Places

(* The same event to those who count events.                               *)
Same(e, f) == e.id = f.id /\ (e.op = "RELEASE" <=> f.op = "RELEASE")

LEMMA SameId ==
  ASSUME NEW s \in Seq(Event), NEW t \in Seq(Event),
         NEW i \in 1 .. Len(s), NEW j \in 1 .. Len(t), Same(s[i], t[j])
  PROVE  Ids(s)[i] = Ids(t)[j]
BY IdsIs DEF Same

LEMMA StayStep ==
  ASSUME TypeOK, TypeOK', AllOnce, cdata' = cdata, received' = received,
         \A p \in Place : Ids(At(p)') = Ids(At(p))
  PROVE  AllOnce'
<1>1. Place' = Place
  BY PlacesNext
<1>2. Layout' = Layout
  BY <1>1 DEF Layout, Ids
<1>3. QED BY <1>1, <1>2 DEF AllOnce

LEMMA NextTypes ==
  ASSUME TypeOK', cdata' = cdata
  PROVE  \A p \in Place : At(p)' \in Seq(Event)
<1>1. (\A p \in Place : At(p) \in Seq(Event))'
  BY PlaceTypes, PTL
<1>2. QED BY <1>1, PlacesNext

LEMMA ShiftStep ==
  ASSUME TypeOK, TypeOK', AllOnce, cdata' = cdata, received' = received,
         NEW A \in Place, NEW B \in Place, A # B, NEW k \in Nat, k <= Len(At(A)),
         \A p \in Place \ {A, B} : At(p)' = At(p),
         Len(At(A)') = Len(At(A)) - k,
         \A j \in 1 .. Len(At(A)) - k : Same(At(A)'[j], At(A)[j + k]),
         Len(At(B)') = Len(At(B)) + k,
         \A j \in 1 .. Len(At(B)) : At(B)'[j] = At(B)[j],
         \A j \in 1 .. k : Same(At(B)'[Len(At(B)) + j], At(A)[j])
  PROVE  AllOnce'
<1> DEFINE a == At(A)
           b == At(B)
           c == At(A)'
           d == At(B)'
           L == Layout
           M == Layout'
<1>1. a \in Seq(Event) /\ b \in Seq(Event) /\ c \in Seq(Event) /\ d \in Seq(Event)
  BY PlaceTypes, NextTypes
<1>2. /\ L[A] = Ids(a) /\ L[B] = Ids(b) /\ M[A] = Ids(c) /\ M[B] = Ids(d)
      /\ \A p \in Place \ {A, B} : M[p] = L[p]
  BY PlacesNext DEF Layout, Ids
<1>3. Once(Place, L, received)
  BY DEF AllOnce
<1>4. SUFFICES Once(Place, M, received)
  BY PlacesNext DEF AllOnce, Once, Only, Stands
<1> HIDE DEF a, b, c, d, L, M
<1>5. /\ Len(c) = Len(a) - k /\ \A j \in 1 .. Len(a) - k : Same(c[j], a[j + k])
      /\ Len(d) = Len(b) + k /\ \A j \in 1 .. Len(b) : d[j] = b[j]
      /\ \A j \in 1 .. k : Same(d[Len(b) + j], a[j])
      /\ k <= Len(a)
  BY DEF a, b, c, d
<1>6. /\ Len(L[A]) = Len(a) /\ Len(L[B]) = Len(b) /\ Len(a) \in Nat /\ Len(b) \in Nat
      /\ Len(M[A]) = Len(a) - k /\ Len(M[B]) = Len(b) + k
  BY <1>1, <1>2, <1>5, IdsIs
<1>7. ASSUME NEW j \in 1 .. Len(a) - k
      PROVE  M[A][j] = L[A][j + k]
  <2>1. j + k \in 1 .. Len(a) /\ j \in 1 .. Len(c) /\ Same(c[j], a[j + k])
    BY <1>5, <1>6
  <2>2. QED BY <1>1, <1>2, <2>1, SameId
<1>8. ASSUME NEW j \in 1 .. Len(b)
      PROVE  M[B][j] = L[B][j]
  <2>1. j \in 1 .. Len(d) /\ Same(d[j], b[j])
    BY <1>5, <1>6 DEF Same
  <2>2. QED BY <1>1, <1>2, <2>1, SameId
<1>9. ASSUME NEW j \in 1 .. k
      PROVE  M[B][Len(b) + j] = L[A][j]
  <2>1. Len(b) + j \in 1 .. Len(d) /\ j \in 1 .. Len(a) /\ Same(d[Len(b) + j], a[j])
    BY <1>5, <1>6
  <2>2. QED BY <1>1, <1>2, <2>1, SameId
<1>10. /\ Len(L[A]) \in Nat /\ Len(L[B]) \in Nat /\ k <= Len(L[A])
       /\ Len(M[A]) = Len(L[A]) - k /\ Len(M[B]) = Len(L[B]) + k
  BY <1>5, <1>6
<1>11. /\ \A j \in 1 .. Len(L[A]) - k : M[A][j] = L[A][j + k]
       /\ \A j \in 1 .. Len(L[B]) : M[B][j] = L[B][j]
       /\ \A j \in 1 .. k : M[B][Len(L[B]) + j] = L[A][j]
  BY <1>6, <1>7, <1>8, <1>9
<1>12. QED BY <1>2, <1>3, <1>10, <1>11, ShiftOnce

LEMMA NewStep ==
  ASSUME TypeOK, TypeOK', AllOnce, cdata' = cdata, received' = received + 1,
         NEW B \in Place, NEW e \in Event, e.id = received, e.op # "RELEASE",
         \A p \in Place \ {B} : At(p)' = At(p),
         At(B)' = Append(At(B), e)
  PROVE  AllOnce'
<1> DEFINE b == At(B)
           d == At(B)'
           L == Layout
           M == Layout'
<1>1. b \in Seq(Event) /\ d \in Seq(Event)
  BY PlaceTypes, NextTypes
<1>2. /\ L[B] = Ids(b) /\ M[B] = Ids(d)
      /\ \A p \in Place \ {B} : M[p] = L[p]
  BY PlacesNext DEF Layout, Ids
<1>3. Once(Place, L, received) /\ received \in Nat
  BY DEF AllOnce, TypeOK
<1>4. SUFFICES Once(Place, M, received + 1)
  BY PlacesNext DEF AllOnce, Once, Only, Stands
<1>5. d = Append(b, e)
  OBVIOUS
<1> HIDE DEF b, d, L, M
<1>6. /\ Len(d) = Len(b) + 1 /\ d[Len(b) + 1] = e
      /\ \A j \in 1 .. Len(b) : d[j] = b[j]
  BY <1>1, <1>5, AppendProperties
<1>7. /\ Len(L[B]) = Len(b) /\ Len(b) \in Nat /\ Len(M[B]) = Len(b) + 1
  BY <1>1, <1>2, <1>6, IdsIs
<1>8. ASSUME NEW j \in 1 .. Len(b)
      PROVE  M[B][j] = L[B][j]
  <2>1. j \in 1 .. Len(d) /\ Same(d[j], b[j])
    BY <1>6, <1>7 DEF Same
  <2>2. QED BY <1>1, <1>2, <2>1, SameId
<1>9. M[B][Len(b) + 1] = received
  <2>1. Len(b) + 1 \in 1 .. Len(d)
    BY <1>6, <1>7
  <2>2. QED BY <1>1, <1>2, <1>6, <2>1, IdsIs
<1>10. /\ Len(L[B]) \in Nat /\ Len(M[B]) = Len(L[B]) + 1
       /\ \A j \in 1 .. Len(L[B]) : M[B][j] = L[B][j]
       /\ M[B][Len(L[B]) + 1] = received
  BY <1>7, <1>8, <1>9
<1>11. QED BY <1>2, <1>3, <1>10, NewOnce

LEMMA DropStep ==
  ASSUME TypeOK, TypeOK', AllOnce, cdata' = cdata, received' = received,
         NEW A \in Place, At(A) # <<>>, Head(At(A)).op = "RELEASE",
         \A p \in Place \ {A} : At(p)' = At(p),
         At(A)' = Tail(At(A))
  PROVE  AllOnce'
<1> DEFINE a == At(A)
           c == At(A)'
           L == Layout
           M == Layout'
<1>1. a \in Seq(Event) /\ c \in Seq(Event)
  BY PlaceTypes, NextTypes
<1>2. /\ L[A] = Ids(a) /\ M[A] = Ids(c)
      /\ \A p \in Place \ {A} : M[p] = L[p]
  BY PlacesNext DEF Layout, Ids
<1>3. Once(Place, L, received)
  BY DEF AllOnce
<1>4. SUFFICES Once(Place, M, received)
  BY PlacesNext DEF AllOnce, Once, Only, Stands
<1>5. c = Tail(a) /\ a # <<>> /\ Head(a).op = "RELEASE"
  OBVIOUS
<1> HIDE DEF a, c, L, M
<1>6. /\ Len(a) \in Nat \ {0} /\ Len(c) = Len(a) - 1 /\ a[1].op = "RELEASE"
      /\ \A j \in 1 .. Len(a) - 1 : c[j] = a[j + 1]
  BY <1>1, <1>5, HeadTailProperties, EmptySeq, LenProperties
<1>7. Len(L[A]) = Len(a) /\ Len(M[A]) = Len(a) - 1 /\ L[A][1] = -1
  BY <1>1, <1>2, <1>6, IdsIs
<1>8. ASSUME NEW j \in 1 .. Len(a) - 1
      PROVE  M[A][j] = L[A][j + 1]
  <2>1. j \in 1 .. Len(c) /\ j + 1 \in 1 .. Len(a) /\ Same(c[j], a[j + 1])
    BY <1>6 DEF Same
  <2>2. QED BY <1>1, <1>2, <2>1, SameId
<1>9. /\ Len(L[A]) \in Nat \ {0} /\ Len(M[A]) = Len(L[A]) - 1
      /\ \A j \in 1 .. Len(L[A]) - 1 : M[A][j] = L[A][j + 1]
  BY <1>6, <1>7, <1>8
<1>10. QED BY <1>2, <1>3, <1>7, <1>9, DropOnce

LEMMA TakeStep ==
  ASSUME TypeOK, TypeOK', AllOnce, cdata' = cdata, received' = received,
         NEW A \in Place, NEW B \in Place, A # B,
         NEW k \in Nat, k \in 1 .. Len(At(A)), At(A)[k].op # "RELEASE",
         \A p \in Place \ {A, B} : At(p)' = At(p),
         Len(At(A)') = Len(At(A)), At(A)'[k].op = "RELEASE",
         \A j \in 1 .. Len(At(A)) : j # k => At(A)'[j] = At(A)[j],
         At(B)' = Append(At(B), At(A)[k])
  PROVE  AllOnce'
<1> DEFINE a == At(A)
           b == At(B)
           c == At(A)'
           d == At(B)'
           L == Layout
           M == Layout'
<1>1. a \in Seq(Event) /\ b \in Seq(Event) /\ c \in Seq(Event) /\ d \in Seq(Event)
  BY PlaceTypes, NextTypes
<1>2. /\ L[A] = Ids(a) /\ L[B] = Ids(b) /\ M[A] = Ids(c) /\ M[B] = Ids(d)
      /\ \A p \in Place \ {A, B} : M[p] = L[p]
  BY PlacesNext DEF Layout, Ids
<1>3. Once(Place, L, received) /\ received \in Nat
  BY DEF AllOnce, TypeOK
<1>4. SUFFICES Once(Place, M, received)
  BY PlacesNext DEF AllOnce, Once, Only, Stands
<1>5. /\ d = Append(b, a[k]) /\ Len(c) = Len(a) /\ c[k].op = "RELEASE"
      /\ a[k].op # "RELEASE" /\ k \in 1 .. Len(a)
      /\ \A j \in 1 .. Len(a) : j # k => c[j] = a[j]
  OBVIOUS
<1> HIDE DEF a, b, c, d, L, M
<1>6. /\ a[k] \in Event /\ Len(d) = Len(b) + 1 /\ d[Len(b) + 1] = a[k]
      /\ \A j \in 1 .. Len(b) : d[j] = b[j]
  BY <1>1, <1>5, AppendProperties, IdsIs
<1>7. /\ Len(L[A]) = Len(a) /\ Len(L[B]) = Len(b) /\ Len(a) \in Nat /\ Len(b) \in Nat
      /\ Len(M[A]) = Len(a) /\ Len(M[B]) = Len(b) + 1
  BY <1>1, <1>2, <1>5, <1>6, IdsIs
<1>8. ASSUME NEW j \in 1 .. Len(a)
      PROVE  M[A][j] = IF j = k THEN -1 ELSE L[A][j]
  <2>1. CASE j = k
    BY <1>1, <1>2, <1>5, <2>1, IdsIs
  <2>2. CASE j # k
    <3>1. j \in 1 .. Len(c) /\ Same(c[j], a[j])
      BY <1>5, <2>2 DEF Same
    <3>2. QED BY <1>1, <1>2, <2>2, <3>1, SameId
  <2>3. QED BY <2>1, <2>2
<1>9. ASSUME NEW j \in 1 .. Len(b)
      PROVE  M[B][j] = L[B][j]
  <2>1. j \in 1 .. Len(d) /\ Same(d[j], b[j])
    BY <1>6, <1>7 DEF Same
  <2>2. QED BY <1>1, <1>2, <2>1, SameId
<1>10. M[B][Len(b) + 1] = L[A][k] /\ L[A][k] # -1
  <2>1. Len(b) + 1 \in 1 .. Len(d) /\ Same(d[Len(b) + 1], a[k])
    BY <1>6, <1>7 DEF Same
  <2>2. L[A][k] = a[k].id /\ a[k].id \in Nat
    BY <1>1, <1>2, <1>5, <1>6, IdsIs, EventFields
  <2> DEFINE i == Len(b) + 1
  <2>3. M[B][i] = L[A][k]
    <3> HIDE DEF i
    <3>1. i \in 1 .. Len(d) /\ Same(d[i], a[k])
      BY <2>1 DEF i
    <3>2. Ids(d)[i] = Ids(a)[k]
      BY <1>1, <1>5, <3>1, SameId
    <3>3. QED BY <1>2, <3>2
  <2>4. QED BY <2>2, <2>3
<1>11. /\ Len(L[A]) \in Nat /\ Len(L[B]) \in Nat /\ k \in 1 .. Len(L[A])
       /\ Len(M[A]) = Len(L[A]) /\ Len(M[B]) = Len(L[B]) + 1
  BY <1>5, <1>7
<1>12. /\ \A j \in 1 .. Len(L[A]) : M[A][j] = IF j = k THEN -1 ELSE L[A][j]
       /\ \A j \in 1 .. Len(L[B]) : M[B][j] = L[B][j]
       /\ M[B][Len(L[B]) + 1] = L[A][k]
  BY <1>7, <1>8, <1>9, <1>10
<1>13. QED BY <1>2, <1>3, <1>10, <1>11, <1>12, TakeOnce

-----------------------------------------------------------------------------
(* The steps                                                               *)

LEMMA AppendQueue ==
  ASSUME TypeOK, Homed, cdata' = cdata, NEW e \in Event,
         e.queue_id \in Queue, e.op # "RELEASE",
         queue' = [queue EXCEPT ![e.queue_id] = Append(@, e)]
  PROVE  /\ queue' \in [Queue -> Seq(Event)] /\ Homed'
         /\ queue'[e.queue_id] = Append(queue[e.queue_id], e)
         /\ \A k \in Queue \ {e.queue_id} : queue'[k] = queue[k]
<1> DEFINE k == e.queue_id
           s == queue[k]
<1>1. queue \in [Queue -> Seq(Event)] /\ s \in Seq(Event)
  BY DEF TypeOK
<1>2. /\ queue'[k] = Append(s, e)
      /\ \A h \in Queue \ {k} : queue'[h] = queue[h]
  BY <1>1
<1>3. /\ Append(s, e) \in Seq(Event) /\ Len(Append(s, e)) = Len(s) + 1 /\ Len(s) \in Nat
      /\ \A j \in 1 .. Len(s) : Append(s, e)[j] = s[j]
      /\ Append(s, e)[Len(s) + 1] = e
  BY <1>1, AppendProperties, LenProperties
<1>4. Homed'
  <2>1. Queue' = Queue
    BY DEF Queue
  <2>2. ASSUME NEW h \in Queue, NEW j \in 1 .. Len(queue'[h])
        PROVE  queue'[h][j].queue_id = h /\ queue'[h][j].op # "RELEASE"
    <3>1. CASE h # k
      BY <1>2, <2>2, <3>1 DEF Homed
    <3>2. CASE h = k
      <4> HIDE DEF s
      <4>1. j \in 1 .. Len(s) \/ j = Len(s) + 1
        BY <1>2, <1>3, <3>2
      <4>2. \A i \in 1 .. Len(s) : s[i].queue_id = k /\ s[i].op # "RELEASE"
        BY DEF Homed, s
      <4>3. QED BY <1>2, <1>3, <3>2, <4>1, <4>2
    <3>3. QED BY <3>1, <3>2
  <2>3. QED BY <2>1, <2>2 DEF Homed
<1>5. queue' \in [Queue -> Seq(Event)]
  BY <1>1, <1>3
<1>6. QED BY <1>2, <1>4, <1>5

LEMMA CutQueue ==
  ASSUME TypeOK, Homed, cdata' = cdata, NEW k \in Queue, NEW t \in Seq(Event), NEW m \in Nat,
         queue' = [queue EXCEPT ![k] = t],
         \A j \in 1 .. Len(t) : j + m \in 1 .. Len(queue[k]) /\ t[j] = queue[k][j + m]
  PROVE  /\ queue' \in [Queue -> Seq(Event)] /\ Homed'
         /\ queue'[k] = t /\ \A h \in Queue \ {k} : queue'[h] = queue[h]
<1>1. queue \in [Queue -> Seq(Event)]
  BY DEF TypeOK
<1>2. queue'[k] = t /\ \A h \in Queue \ {k} : queue'[h] = queue[h]
  BY <1>1
<1>3. Homed'
  <2>1. Queue' = Queue
    BY DEF Queue
  <2>2. QED BY <1>2, <2>1 DEF Homed
<1>4. queue' \in [Queue -> Seq(Event)]
  BY <1>1
<1>5. QED BY <1>2, <1>3, <1>4

LEMMA ReceiveStep ==
  ASSUME EInv, NEW p \in EthPort, Receive(p)
  PROVE  EInv'
<1>1. TypeOK /\ Homed /\ Bound /\ (\A w \in Worker : HandOf(w)) /\ LeftBehind /\ AllOnce
  BY DEF EInv
<1>2. received \in Nat /\ received < MaxEvents /\ received' = received + 1
  BY <1>1 DEF Receive, TypeOK
<1>3. PICK e \in Event : /\ e.queue_id \in Queue /\ e.id = received /\ e.op = "NEW"
                         /\ queue' = [queue EXCEPT ![e.queue_id] = Append(@, e)]
  BY <1>1, <1>2, QueueFacts DEF Receive, TypeOK
<1>4. UNCHANGED <<cdata, ring, at, events, n, sent, left, control>>
  BY DEF Receive
<1>5. /\ queue' \in [Queue -> Seq(Event)] /\ Homed'
      /\ queue'[e.queue_id] = Append(queue[e.queue_id], e)
      /\ \A k \in Queue \ {e.queue_id} : queue'[k] = queue[k]
  BY <1>1, <1>3, <1>4, AppendQueue
<1>6. TypeOK'
  <2>1. Queue' = Queue /\ received' \in 0 .. MaxEvents
    BY <1>2, <1>4, PipelineAssumption DEF Queue
  <2>2. QED BY <1>1, <1>4, <1>5, <2>1 DEF TypeOK, control
<1>7. Bound' /\ (\A w \in Worker : HandOf(w)') /\ LeftBehind'
  BY <1>1, <1>4 DEF Bound, HandOf, LeftBehind, GivesUp, Queue, control
<1>8. AllOnce'
  <2> DEFINE B == <<"queue", e.queue_id>>
  <2>1. B \in Place /\ At(B) = queue[e.queue_id] /\ At(B)' = queue'[e.queue_id]
    BY <1>3, <1>4, Places, PlacesNext
  <2>2. \A q \in Place \ {B} : At(q)' = At(q)
    BY <1>3, <1>4, <1>5, Elsewhere
  <2> HIDE DEF B
  <2>3. QED BY <1>1, <1>2, <1>3, <1>4, <1>5, <1>6, <2>1, <2>2, NewStep
<1>9. QED BY <1>5, <1>6, <1>7, <1>8 DEF EInv

LEMMA ScheduleStep ==
  ASSUME EInv, NEW w \in Worker, Schedule(w)
  PROVE  EInv'
<1>1. TypeOK /\ Homed /\ Bound /\ (\A v \in Worker : HandOf(v)) /\ LeftBehind /\ AllOnce
  BY DEF EInv
<1>2. UNCHANGED <<cdata, at, events, n, received, sent, left, control>>
  BY DEF Schedule
<1>3. ring[w] \in Seq(Event) /\ ring[w] # <<>> /\ ring \in [Worker -> Seq(Event)]
  BY <1>1 DEF Schedule, TypeOK
<1>4. PICK e \in Event : e = Head(ring[w])
  BY <1>3, HeadTailProperties
<1> DEFINE s == ring[w]
<1>5. /\ Tail(s) \in Seq(Event) /\ Len(s) \in Nat \ {0} /\ Len(Tail(s)) = Len(s) - 1 /\ s[1] = e
      /\ \A j \in 1 .. Len(s) - 1 : Tail(s)[j] = s[j + 1]
  BY <1>3, <1>4, HeadTailProperties, EmptySeq, LenProperties
<1>6. ring' = [ring EXCEPT ![w] = Tail(s)]
  BY DEF Schedule
<1>7. ring'[w] = Tail(s) /\ \A v \in Worker \ {w} : ring'[v] = ring[v]
  BY <1>3, <1>6
<1>8. e.queue_id \in Queue
  <2>1. 1 \in 1 .. Len(s)
    BY <1>5
  <2>2. QED BY <1>1, <1>5, <2>1 DEF Bound
<1>9. \/ e.op = "RELEASE" /\ queue' = queue
      \/ /\ e.op # "RELEASE" /\ queue' = [queue EXCEPT ![e.queue_id] = Append(@, e)]
  BY <1>4 DEF Schedule
<1>10. /\ queue' \in [Queue -> Seq(Event)] /\ Homed'
       /\ \A k \in Queue \ {e.queue_id} : queue'[k] = queue[k]
       /\ e.op # "RELEASE" => queue'[e.queue_id] = Append(queue[e.queue_id], e)
  <2>1. CASE e.op = "RELEASE"
    BY <1>1, <1>2, <1>9, <2>1 DEF TypeOK, Homed, Queue
  <2>2. CASE e.op # "RELEASE"
    BY <1>1, <1>2, <1>8, <1>9, <2>2, AppendQueue
  <2>3. QED BY <2>1, <2>2
<1>11. \A v \in Worker : ring'[v] \in Seq(Event) /\ Len(ring'[v]) <= RingRoom
  <2>1. \A v \in Worker : ring[v] \in Seq(Event) /\ Len(ring[v]) <= RingRoom
    BY <1>1 DEF TypeOK
  <2>2. Len(s) - 1 <= RingRoom
    BY <1>5, <2>1, PipelineAssumption
  <2>3. QED BY <1>5, <1>7, <2>1, <2>2
<1>12. TypeOK'
  <2>1. Queue' = Queue /\ ring' \in [Worker -> Seq(Event)]
    BY <1>2, <1>3, <1>5, <1>6 DEF Queue
  <2>2. QED BY <1>1, <1>2, <1>10, <1>11, <2>1 DEF TypeOK, control
<1>13. Bound'
  <2>1. ASSUME NEW v \in Worker, NEW j \in 1 .. Len(ring'[v])
        PROVE  ring'[v][j].queue_id \in Queue
    <3>1. CASE v # w
      BY <1>1, <1>7, <2>1, <3>1 DEF Bound
    <3>2. CASE v = w
      <4>1. j \in 1 .. Len(s) - 1
        BY <1>5, <1>7, <3>2
      <4>2. j + 1 \in 1 .. Len(s)
        BY <1>5, <4>1
      <4>3. QED BY <1>1, <1>5, <1>7, <3>2, <4>1, <4>2 DEF Bound
    <3>3. QED BY <3>1, <3>2
  <2>2. QED BY <1>2, <2>1 DEF Bound, Queue
<1>14. (\A v \in Worker : HandOf(v)') /\ LeftBehind'
  BY <1>1, <1>2 DEF HandOf, LeftBehind, GivesUp, control
<1>15. AllOnce'
  <2> DEFINE A == <<"ring", w>>
             B == <<"queue", e.queue_id>>
  <2>1. /\ A \in Place /\ At(A) = s /\ At(A)' = Tail(s)
        /\ B \in Place /\ At(B) = queue[e.queue_id] /\ At(B)' = queue'[e.queue_id] /\ A # B
    BY <1>2, <1>7, <1>8, Places, PlacesNext
  <2>2. \A q \in Place \ {A, B} : At(q)' = At(q)
    BY <1>2, <1>7, <1>10, Elsewhere
  <2>3. e.op = "RELEASE" => At(B)' = At(B)
    BY <1>9, <2>1
  <2> HIDE DEF A, B
  <2>4. CASE e.op = "RELEASE"
    <3>1. \A q \in Place \ {A} : At(q)' = At(q)
      BY <2>2, <2>3, <2>4
    <3>2. QED BY <1>1, <1>2, <1>3, <1>4, <1>12, <2>1, <2>4, <3>1, DropStep
  <2>5. CASE e.op # "RELEASE"
    <3> DEFINE b == At(B)
    <3>1. b \in Seq(Event) /\ At(B)' = Append(b, e)
      BY <1>1, <1>10, <2>1, <2>5, PlaceTypes
    <3> HIDE DEF b, s
    <3>2. /\ Len(Append(b, e)) = Len(b) + 1 /\ Append(b, e)[Len(b) + 1] = e
          /\ \A j \in 1 .. Len(b) : Append(b, e)[j] = b[j]
      BY <3>1, AppendProperties
    <3>3. /\ \A j \in 1 .. Len(s) - 1 : Same(At(A)'[j], s[j + 1])
          /\ \A j \in 1 .. 1 : Same(At(B)'[Len(b) + j], s[j])
      BY <1>5, <2>1, <3>1, <3>2 DEF Same
    <3>4. /\ 1 <= Len(At(A)) /\ Len(At(A)') = Len(At(A)) - 1
          /\ Len(At(B)') = Len(At(B)) + 1
          /\ \A j \in 1 .. Len(At(B)) : At(B)'[j] = At(B)[j]
      BY <1>5, <2>1, <3>1, <3>2 DEF b
    <3>5. /\ \A j \in 1 .. Len(At(A)) - 1 : Same(At(A)'[j], At(A)[j + 1])
          /\ \A j \in 1 .. 1 : Same(At(B)'[Len(At(B)) + j], At(A)[j])
      BY <2>1, <3>3 DEF b
    <3>6. QED BY <1>1, <1>2, <1>12, <2>1, <2>2, <3>4, <3>5, ShiftStep
  <2>6. QED BY <2>4, <2>5
<1>16. QED BY <1>2, <1>10, <1>12, <1>13, <1>14, <1>15 DEF EInv

LEMMA TxAdapterStep ==
  ASSUME EInv, TxAdapter
  PROVE  EInv'
<1>1. TypeOK /\ Homed /\ Bound /\ (\A v \in Worker : HandOf(v)) /\ LeftBehind /\ AllOnce
  BY DEF EInv
<1>2. UNCHANGED <<cdata, ring, at, events, n, received, left, control>>
  BY DEF TxAdapter
<1>3. PICK k \in Queue : k = TxQueue
  BY <1>1, QueueFacts DEF TxAdapter, TypeOK
<1> DEFINE s == queue[k]
<1>4. s \in Seq(Event) /\ s # <<>> /\ sent \in Seq(Event)
  BY <1>1, <1>3 DEF TxAdapter, TypeOK
<1>5. /\ queue' = [queue EXCEPT ![k] = Tail(s)] /\ sent' = Append(sent, Head(s))
  BY <1>3 DEF TxAdapter
<1>6. /\ Tail(s) \in Seq(Event) /\ Len(s) \in Nat \ {0} /\ Len(Tail(s)) = Len(s) - 1
      /\ Head(s) = s[1] /\ s[1] \in Event
      /\ \A j \in 1 .. Len(s) - 1 : Tail(s)[j] = s[j + 1]
  BY <1>4, HeadTailProperties, EmptySeq, LenProperties
<1>7. \A j \in 1 .. Len(Tail(s)) : j + 1 \in 1 .. Len(s) /\ Tail(s)[j] = s[j + 1]
  BY <1>6
<1>8. /\ queue' \in [Queue -> Seq(Event)] /\ Homed'
      /\ queue'[k] = Tail(s) /\ \A h \in Queue \ {k} : queue'[h] = queue[h]
  BY <1>1, <1>2, <1>5, <1>6, <1>7, CutQueue
<1>9. TypeOK'
  <2>1. Queue' = Queue /\ sent' \in Seq(Event)
    BY <1>2, <1>4, <1>5, <1>6, AppendProperties DEF Queue
  <2>2. QED BY <1>1, <1>2, <1>8, <2>1 DEF TypeOK, control
<1>10. Bound' /\ (\A w \in Worker : HandOf(w)') /\ LeftBehind'
  BY <1>1, <1>2 DEF Bound, HandOf, LeftBehind, GivesUp, Queue, control
<1>11. AllOnce'
  <2> DEFINE A == <<"queue", k>>
             B == <<"sent", 0>>
  <2>1. /\ A \in Place /\ At(A) = s /\ At(A)' = Tail(s)
        /\ B \in Place /\ At(B) = sent /\ At(B)' = Append(sent, s[1]) /\ A # B
    BY <1>2, <1>5, <1>6, <1>8, Places, PlacesNext
  <2>2. \A q \in Place \ {A, B} : At(q)' = At(q)
    BY <1>2, <1>8, Elsewhere
  <2>3. /\ Len(Append(sent, s[1])) = Len(sent) + 1 /\ Append(sent, s[1])[Len(sent) + 1] = s[1]
        /\ \A j \in 1 .. Len(sent) : Append(sent, s[1])[j] = sent[j]
    BY <1>4, <1>6, AppendProperties
  <2> HIDE DEF A, B, s
  <2>4. /\ 1 <= Len(At(A)) /\ Len(At(A)') = Len(At(A)) - 1
        /\ \A j \in 1 .. Len(At(A)) - 1 : Same(At(A)'[j], At(A)[j + 1])
    BY <1>6, <2>1 DEF Same
  <2>5. /\ Len(At(B)') = Len(At(B)) + 1
        /\ \A j \in 1 .. Len(At(B)) : At(B)'[j] = At(B)[j]
        /\ \A j \in 1 .. 1 : Same(At(B)'[Len(At(B)) + j], At(A)[j])
    BY <2>1, <2>3 DEF Same
  <2>6. QED BY <1>1, <1>2, <1>9, <2>1, <2>2, <2>4, <2>5, ShiftStep
<1>12. QED BY <1>8, <1>9, <1>10, <1>11 DEF EInv

(* Steps that touch no event.                                              *)
LEMMA QuietStep ==
  ASSUME EInv, UNCHANGED <<cdata, queue, ring, events, n, received, sent, left>>,
         at' \in [Worker -> {"loop", "each", "enqueue", "stopped"}],
         \A w \in Worker : at'[w] = at[w] \/ (at[w] = "loop" /\ at'[w] = "stopped"),
         service' \in {"up", "down"}, started' \in BOOLEAN, done' \in BOOLEAN, done => done',
         handler' \in {"idle", "stopping", "waiting", "closed", "exited"},
         menu' \in {"none", "shown", "quit"}
  PROVE  EInv'
<1>1. TypeOK /\ Homed /\ Bound /\ (\A v \in Worker : HandOf(v)) /\ LeftBehind /\ AllOnce
  BY DEF EInv
<1>2. TypeOK'
  BY <1>1 DEF TypeOK, Queue
<1>3. Homed' /\ Bound' /\ (\A v \in Worker : HandOf(v)') /\ LeftBehind'
  BY <1>1 DEF Homed, Bound, HandOf, LeftBehind, GivesUp, Queue
<1>4. AllOnce'
  <2>1. \A w \in Worker : InHand(w)' = InHand(w)
    BY DEF InHand, Rest
  <2>2. \A p \in Place : At(p)' = At(p)
    BY <2>1 DEF At
  <2>3. QED BY <1>1, <1>2, <2>2, StayStep
<1>5. QED BY <1>2, <1>3, <1>4 DEF EInv

LEMMA ControlStep ==
  ASSUME EInv, \/ ServiceEnds \/ FirstSignal \/ SecondSignal \/ DisplayQuits
               \/ StopDevices \/ Close
               \/ \E w \in Worker : WorkerEnds(w)
  PROVE  EInv'
<1>1. TypeOK
  BY DEF EInv
<1>2. CASE ServiceEnds
  BY <1>1, <1>2, QuietStep DEF ServiceEnds, TypeOK
<1>3. CASE FirstSignal
  BY <1>1, <1>3, QuietStep DEF FirstSignal, TypeOK
<1>8. CASE SecondSignal
  BY <1>1, <1>8, QuietStep DEF SecondSignal, TypeOK
<1>9. CASE DisplayQuits
  BY <1>1, <1>9, QuietStep DEF DisplayQuits, TypeOK
<1>4. CASE StopDevices
  BY <1>1, <1>4, QuietStep DEF StopDevices, TypeOK
<1>5. CASE Close
  BY <1>1, <1>5, QuietStep DEF Close, TypeOK
<1>6. ASSUME NEW w \in Worker, WorkerEnds(w)
      PROVE  EInv'
  BY <1>1, <1>6, QuietStep DEF WorkerEnds, TypeOK, control
<1>7. QED BY <1>2, <1>3, <1>8, <1>9, <1>4, <1>5, <1>6

(* A step of one worker leaves the bursts of the others alone.             *)
LEMMA OneHand ==
  ASSUME TypeOK, \A v \in Worker : HandOf(v), cdata' = cdata, NEW w \in Worker,
         \A v \in Worker \ {w} : at'[v] = at[v] /\ events'[v] = events[v] /\ n'[v] = n[v],
         HandOf(w)'
  PROVE  \A v \in Worker : HandOf(v)'
BY DEF HandOf

(* The types after a step of one worker.                                   *)
OneMoves(w) ==
  /\ UNCHANGED <<cdata, received, control>>
  /\ at' = [at EXCEPT ![w] = at'[w]] /\ events' = [events EXCEPT ![w] = events'[w]]
  /\ n' = [n EXCEPT ![w] = n'[w]] /\ ring' = [ring EXCEPT ![w] = ring'[w]]
  /\ at'[w] \in {"loop", "each", "enqueue", "stopped"}
  /\ events'[w] \in Seq(Event) /\ n'[w] \in Nat /\ n'[w] <= Len(events'[w])
  /\ ring'[w] \in Seq(Event) /\ Len(ring'[w]) <= RingRoom

LEMMA OneType ==
  ASSUME TypeOK, NEW w \in Worker, OneMoves(w),
         queue' \in [Queue -> Seq(Event)], sent' \in Seq(Event), left' \in Seq(Event)
  PROVE  /\ TypeOK'
         /\ \A v \in Worker \ {w} : /\ at'[v] = at[v] /\ events'[v] = events[v]
                                    /\ n'[v] = n[v] /\ ring'[v] = ring[v]
<1>1. /\ at \in [Worker -> {"loop", "each", "enqueue", "stopped"}]
      /\ events \in [Worker -> Seq(Event)] /\ n \in [Worker -> Nat]
      /\ ring \in [Worker -> Seq(Event)]
  BY DEF TypeOK
<1>2. \A v \in Worker \ {w} : /\ at'[v] = at[v] /\ events'[v] = events[v]
                              /\ n'[v] = n[v] /\ ring'[v] = ring[v]
  BY <1>1 DEF OneMoves
<1>3. /\ at' \in [Worker -> {"loop", "each", "enqueue", "stopped"}]
      /\ events' \in [Worker -> Seq(Event)] /\ n' \in [Worker -> Nat]
      /\ ring' \in [Worker -> Seq(Event)]
  BY <1>1 DEF OneMoves
<1>4. \A v \in Worker : n'[v] <= Len(events'[v]) /\ Len(ring'[v]) <= RingRoom
  BY <1>2 DEF TypeOK, OneMoves
<1>5. Queue' = Queue
  BY DEF Queue, OneMoves
<1>6. TypeOK'
  BY <1>3, <1>4, <1>5 DEF TypeOK, control, OneMoves
<1>7. QED BY <1>2, <1>6

LEMMA VisitIs ==
  ASSUME NEW e \in Event
  PROVE  LET f == [e EXCEPT !.visits = @ + 1]
         IN  /\ f \in Event /\ Same(f, e) /\ f.op = e.op /\ f.queue_id = e.queue_id
             /\ f.sub_event_type = e.sub_event_type /\ f.sched_type = e.sched_type
             /\ f.visits = e.visits + 1
BY DEF Event, Same

LEMMA VisitedIs ==
  ASSUME NEW es \in Seq(Event)
  PROVE  /\ Visited(es) \in Seq(Event) /\ Len(Visited(es)) = Len(es)
         /\ \A j \in 1 .. Len(es) :
              /\ Visited(es)[j] = [es[j] EXCEPT !.visits = @ + 1]
              /\ Same(Visited(es)[j], es[j]) /\ Visited(es)[j].op = es[j].op
<1>1. Len(es) \in Nat /\ \A j \in 1 .. Len(es) : es[j] \in Event
  BY LenProperties, ElementOfSeq
<1>2. ASSUME NEW j \in 1 .. Len(es)
      PROVE  LET f == [es[j] EXCEPT !.visits = @ + 1]
             IN  f \in Event /\ Same(f, es[j]) /\ f.op = es[j].op
  BY <1>1, VisitIs
<1>3. Visited(es) \in [1 .. Len(es) -> Event]
  BY <1>2 DEF Visited
<1>4. Visited(es) \in Seq(Event) /\ Len(Visited(es)) = Len(es)
  BY <1>1, <1>3, SeqDef, LenProperties
<1>5. QED BY <1>2, <1>4 DEF Visited

LEMMA JoinIs ==
  ASSUME NEW s \in Seq(Event), NEW t \in Seq(Event)
  PROVE  /\ s \o t \in Seq(Event) /\ Len(s \o t) = Len(s) + Len(t)
         /\ \A i \in 1 .. Len(s) : (s \o t)[i] = s[i]
         /\ \A i \in 1 .. Len(t) : (s \o t)[Len(s) + i] = t[i]
<1>1. Len(s) \in Nat /\ Len(t) \in Nat
  BY LenProperties
<1>2. /\ s \o t \in Seq(Event) /\ Len(s \o t) = Len(s) + Len(t)
      /\ \A i \in 1 .. Len(s) + Len(t) :
           (s \o t)[i] = IF i <= Len(s) THEN s[i] ELSE t[i - Len(s)]
  BY ConcatProperties
<1>3. PICK es, b, c : es = s \o t /\ b = Len(s) /\ c = Len(t)
  OBVIOUS
<1>4. /\ b \in Nat /\ c \in Nat
      /\ \A i \in 1 .. b + c : es[i] = IF i <= b THEN s[i] ELSE t[i - b]
  BY <1>1, <1>2, <1>3
<1>5. \A i \in 1 .. b : es[i] = s[i]
  BY <1>4
<1>6. ASSUME NEW i \in 1 .. c
      PROVE  es[b + i] = t[i]
  <2>1. b + i \in 1 .. b + c /\ ~(b + i <= b) /\ (b + i) - b = i
    BY <1>4
  <2>2. QED BY <1>4, <2>1
<1>7. QED BY <1>2, <1>3, <1>5, <1>6

LEMMA DequeueStep ==
  ASSUME EInv, NEW w \in Worker, NEW k \in Queue, NEW m \in 1 .. BatchSize, Dequeue(w, k, m)
  PROVE  EInv'
<1> DEFINE s == queue[k]
           X == SubSeq(s, 1, m)
           Y == SubSeq(s, m + 1, Len(s))
           vs == Visited(X)
           b == Len(events[w])
           es == events[w] \o vs
<1>1. TypeOK /\ Homed /\ Bound /\ (\A v \in Worker : HandOf(v)) /\ LeftBehind /\ AllOnce
  BY DEF EInv
<1>2. UNCHANGED <<cdata, ring, received, sent, left, control>>
  BY DEF Dequeue
<1>3. s \in Seq(Event) /\ m \in 0 .. Len(s) /\ m \in Nat \ {0} /\ Len(s) \in Nat
  BY <1>1, PipelineAssumption, LenProperties DEF Dequeue, TypeOK
<1>4. /\ X \in Seq(Event) /\ Len(X) = m
      /\ \A i \in 1 .. m : X[i] = s[i]
      /\ Y \in Seq(Event) /\ Len(Y) = Len(s) - m
      /\ \A i \in 1 .. Len(s) - m : Y[i] = s[i + m]
  BY <1>3, SplitLen
<1>13. /\ events[w] \in Seq(Event) /\ b \in Nat /\ at[w] \in {"loop", "each"}
       /\ (at[w] = "each" => n[w] = 0) /\ (at[w] = "loop" => events[w] = <<>>)
  BY <1>1, LenProperties DEF Dequeue, Dequeuing, HandOf, TypeOK
<1>16. /\ vs \in Seq(Event) /\ Len(vs) = m
       /\ \A i \in 1 .. m : Same(vs[i], s[i]) /\ vs[i].op = s[i].op
  <2>1. X \in Seq(Event) /\ Len(X) = m /\ \A i \in 1 .. m : X[i] = s[i]
    BY <1>4
  <2> HIDE DEF X, s
  <2>2. /\ Visited(X) \in Seq(Event) /\ Len(Visited(X)) = m
        /\ \A i \in 1 .. m : Same(Visited(X)[i], X[i]) /\ Visited(X)[i].op = X[i].op
    BY <2>1, VisitedIs
  <2>3. QED BY <2>1, <2>2
<1>5. /\ es \in Seq(Event) /\ Len(es) = b + m
      /\ \A i \in 1 .. b : es[i] = events[w][i]
      /\ \A i \in 1 .. m : Same(es[b + i], s[i]) /\ es[b + i].op = s[i].op
  <2>1. events[w] \in Seq(Event) /\ vs \in Seq(Event) /\ Len(vs) = m
    BY <1>13, <1>16
  <2> HIDE DEF vs, s
  <2>2. /\ es \in Seq(Event) /\ Len(es) = b + m
        /\ \A i \in 1 .. b : es[i] = events[w][i]
        /\ \A i \in 1 .. m : es[b + i] = vs[i]
    BY <2>1, JoinIs
  <2> HIDE DEF es, b
  <2>3. QED BY <1>16, <2>2
<1>6. /\ queue' = [queue EXCEPT ![k] = Y] /\ events' = [events EXCEPT ![w] = es]
      /\ at' = [at EXCEPT ![w] = "each"] /\ n' = [n EXCEPT ![w] = 0]
      /\ ring' = [ring EXCEPT ![w] = ring[w]]
  BY <1>1 DEF Dequeue, TypeOK
<1>7. ~cdata.burst => b + m <= 1
  BY <1>3, <1>13 DEF Dequeue, MaxBatch
<1> HIDE DEF X, Y, vs, es, b
<1>8. /\ queue' \in [Queue -> Seq(Event)] /\ Homed'
      /\ queue'[k] = Y /\ \A h \in Queue \ {k} : queue'[h] = queue[h]
  <2>1. \A j \in 1 .. Len(Y) : j + m \in 1 .. Len(s) /\ Y[j] = s[j + m]
    BY <1>3, <1>4
  <2>2. QED BY <1>1, <1>2, <1>3, <1>4, <1>6, <2>1, CutQueue
<1>9. at'[w] = "each" /\ events'[w] = es /\ n'[w] = 0 /\ ring'[w] = ring[w]
  BY <1>1, <1>6 DEF TypeOK
<1>14. /\ TypeOK'
       /\ \A v \in Worker \ {w} : /\ at'[v] = at[v] /\ events'[v] = events[v]
                                  /\ n'[v] = n[v] /\ ring'[v] = ring[v]
  <2>1. sent' \in Seq(Event) /\ left' \in Seq(Event) /\ ring[w] \in Seq(Event) /\ Len(ring[w]) <= RingRoom
    BY <1>1, <1>2 DEF TypeOK
  <2>2. OneMoves(w)
    <3>1. UNCHANGED <<cdata, received, control>>
      BY <1>2
    <3>2. /\ at' = [at EXCEPT ![w] = at'[w]] /\ events' = [events EXCEPT ![w] = events'[w]]
          /\ n' = [n EXCEPT ![w] = n'[w]] /\ ring' = [ring EXCEPT ![w] = ring'[w]]
      BY <1>6, <1>9
    <3>3. 0 <= Len(es)
      BY <1>3, <1>5, <1>13
    <3>4. QED BY <1>5, <1>9, <2>1, <3>1, <3>2, <3>3 DEF OneMoves
  <2>3. QED BY <1>1, <1>8, <2>1, <2>2, OneType
<1>10. \A v \in Worker : HandOf(v)'
  <2>1. \A j \in 1 .. b + m : es[j].op # "RELEASE"
    <3>1. \A j \in 1 .. m : es[b + j].op # "RELEASE"
      BY <1>1, <1>3, <1>5 DEF Homed
    <3>2. ASSUME NEW j \in 1 .. b
          PROVE  es[j].op # "RELEASE"
      <4>1. CASE at[w] = "each"
        <5>1. \A i \in n[w] + 1 .. Len(events[w]) : events[w][i].op # "RELEASE"
          BY <1>1, <4>1 DEF HandOf
        <5>2. QED BY <1>5, <1>13, <4>1, <5>1 DEF b
      <4>2. CASE at[w] = "loop"
        BY <1>13, <4>2, EmptySeq DEF b
      <4>3. QED BY <1>13, <4>1, <4>2
    <3>3. ASSUME NEW j \in 1 .. b + m, j > b
          PROVE  es[j].op # "RELEASE"
      <4>1. j - b \in 1 .. m /\ b + (j - b) = j
        BY <1>3, <1>13, <3>3
      <4>2. QED BY <3>1, <4>1
    <3>4. QED BY <1>3, <1>13, <3>2, <3>3
  <2>2. HandOf(w)'
    BY <1>2, <1>3, <1>5, <1>7, <1>9, <1>13, <1>14, <2>1 DEF HandOf
  <2>3. QED BY <1>1, <1>2, <1>9, <1>14, <2>2, OneHand
<1>11. Bound' /\ LeftBehind'
  BY <1>1, <1>2 DEF Bound, LeftBehind, GivesUp, Queue, control
<1>12. AllOnce'
  <2> DEFINE A == <<"queue", k>>
             B == <<"hand", w>>
  <2>1. InHand(w) = events[w] /\ InHand(w)' = es
    BY <1>9, <1>13 DEF InHand
  <2>2. /\ A \in Place /\ At(A) = s /\ At(A)' = Y
        /\ B \in Place /\ At(B) = events[w] /\ At(B)' = es /\ A # B
    BY <1>2, <1>8, <2>1, Places, PlacesNext
  <2>3. \A q \in Place \ {A, B} : At(q)' = At(q)
    BY <1>2, <1>8, <1>9, <1>14, Elsewhere
  <2> HIDE DEF A, B, s
  <2>4. /\ m \in Nat /\ m <= Len(At(A)) /\ Len(At(A)') = Len(At(A)) - m
        /\ \A j \in 1 .. Len(At(A)) - m : Same(At(A)'[j], At(A)[j + m])
    BY <1>3, <1>4, <2>2 DEF Same
  <2>5. Len(At(B)) = b /\ Len(At(B)') = Len(At(B)) + m
    BY <1>5, <2>2 DEF b
  <2>6. /\ \A j \in 1 .. Len(At(B)) : At(B)'[j] = At(B)[j]
        /\ \A j \in 1 .. m : Same(At(B)'[Len(At(B)) + j], At(A)[j])
    BY <1>5, <2>2, <2>5
  <2>7. QED BY <1>1, <1>2, <1>9, <1>14, <2>2, <2>3, <2>4, <2>5, <2>6, ShiftStep
<1>15. QED BY <1>8, <1>9, <1>14, <1>10, <1>11, <1>12 DEF EInv

(* The event a worker is at, and where it goes next.                       *)
LEMMA CurrentIs ==
  ASSUME TypeOK, NEW w \in Worker, HandOf(w), at[w] = "each"
  PROVE  /\ n[w] + 1 \in 1 .. Len(events[w]) /\ n[w] \in Nat /\ Len(events[w]) \in Nat
         /\ events[w] \in Seq(Event) /\ Current(w) \in Event
         /\ Current(w) = events[w][n[w] + 1] /\ Current(w).op # "RELEASE"
         /\ Counter(w) \in Nat /\ Counter(w) < Len(events[w])
         /\ Goto(w) \in {"each", "enqueue"} /\ (Goto(w) = "enqueue" => Counter(w) = 0)
         /\ (Goto(w) = "each" => Counter(w) = n[w] + 1)
<1> DEFINE s == events[w]
           k == n[w]
<1>1. s \in Seq(Event) /\ k \in Nat /\ k < Len(s) /\ Len(s) \in Nat
  BY LenProperties DEF TypeOK, HandOf
<1>2. k + 1 \in 1 .. Len(s) /\ \A j \in k + 1 .. Len(s) : s[j].op # "RELEASE"
  BY <1>1 DEF HandOf
<1>3. s[k + 1] \in Event /\ s[k + 1].op # "RELEASE"
  BY <1>1, <1>2, ElementOfSeq
<1>4. Current(w) = s[k + 1] /\ (EachDone(w) <=> k + 1 = Len(s))
  BY DEF Current, EachDone
<1>5. /\ Counter(w) = IF k + 1 = Len(s) THEN 0 ELSE k + 1
      /\ Goto(w) = IF k + 1 = Len(s) THEN "enqueue" ELSE "each"
  BY <1>4 DEF Counter, Goto
<1> HIDE DEF s, k
<1>6. Counter(w) \in Nat /\ Counter(w) < Len(s)
  BY <1>1, <1>2, <1>5
<1>7. QED BY <1>1, <1>2, <1>3, <1>4, <1>5, <1>6 DEF s, k

LEMMA SameIds ==
  ASSUME NEW s \in Seq(Event), NEW t \in Seq(Event), Len(s) = Len(t),
         \A j \in 1 .. Len(s) : Same(s[j], t[j])
  PROVE  Ids(s) = Ids(t)
BY DEF Ids, Same

(* A worker puts e in the place of the event it is at, and goes on.        *)
LEMMA GoesOn ==
  ASSUME EInv, NEW w \in Worker, at[w] = "each", NEW e \in Event,
         UNCHANGED <<cdata, queue, ring, received, left, control>>, sent' \in Seq(Event),
         events' = [events EXCEPT ![w] = [events[w] EXCEPT ![n[w] + 1] = e]],
         at' = [at EXCEPT ![w] = Goto(w)], n' = [n EXCEPT ![w] = Counter(w)]
  PROVE  /\ TypeOK' /\ Homed' /\ Bound' /\ (\A v \in Worker : HandOf(v)') /\ LeftBehind'
         /\ InHand(w)' = [events[w] EXCEPT ![n[w] + 1] = e]
         /\ \A v \in Worker \ {w} : /\ at'[v] = at[v] /\ events'[v] = events[v]
                                    /\ n'[v] = n[v] /\ ring'[v] = ring[v]
<1>1. TypeOK /\ Homed /\ Bound /\ (\A v \in Worker : HandOf(v)) /\ LeftBehind
  BY DEF EInv
<1> DEFINE s == events[w]
           k == n[w]
           t == [s EXCEPT ![k + 1] = e]
<1>2. /\ k + 1 \in 1 .. Len(s) /\ k \in Nat /\ Len(s) \in Nat /\ s \in Seq(Event)
      /\ Counter(w) \in Nat /\ Counter(w) < Len(s)
      /\ Goto(w) \in {"each", "enqueue"} /\ (Goto(w) = "enqueue" => Counter(w) = 0)
      /\ (Goto(w) = "each" => Counter(w) = k + 1)
  BY <1>1, CurrentIs
<1> HIDE DEF s, k
<1>3. /\ t \in Seq(Event) /\ Len(t) = Len(s)
      /\ \A j \in 1 .. Len(s) : j # k + 1 => t[j] = s[j]
  BY <1>2, ExceptSeq
<1> HIDE DEF t
<1>4. /\ at'[w] = Goto(w) /\ events'[w] = t /\ n'[w] = Counter(w) /\ ring'[w] = ring[w]
  BY <1>1 DEF TypeOK, s, k, t
<1>5. OneMoves(w)
  <2>1. UNCHANGED <<cdata, received, control>>
    OBVIOUS
  <2>2. /\ at' = [at EXCEPT ![w] = at'[w]] /\ events' = [events EXCEPT ![w] = events'[w]]
        /\ n' = [n EXCEPT ![w] = n'[w]] /\ ring' = [ring EXCEPT ![w] = ring'[w]]
    BY <1>1, <1>4 DEF TypeOK, s, k, t
  <2>3. ring[w] \in Seq(Event) /\ Len(ring[w]) <= RingRoom
    BY <1>1 DEF TypeOK
  <2>4. Counter(w) <= Len(t)
    BY <1>2, <1>3
  <2>5. QED BY <1>2, <1>3, <1>4, <2>1, <2>2, <2>3, <2>4 DEF OneMoves
<1>6. /\ TypeOK'
      /\ \A v \in Worker \ {w} : /\ at'[v] = at[v] /\ events'[v] = events[v]
                                 /\ n'[v] = n[v] /\ ring'[v] = ring[v]
  <2>1. queue' \in [Queue -> Seq(Event)] /\ left' \in Seq(Event)
    BY <1>1 DEF TypeOK
  <2>2. QED BY <1>1, <1>5, <2>1, OneType
<1>7. HandOf(w)'
  <2>1. \A j \in k + 1 .. Len(s) : s[j].op # "RELEASE"
    BY <1>1 DEF HandOf, s, k
  <2>2. ~cdata.burst => Len(s) <= 1
    BY <1>1 DEF HandOf, s
  <2>3. Goto(w) = "each" => \A j \in Counter(w) + 1 .. Len(t) : t[j].op # "RELEASE"
    BY <1>2, <1>3, <2>1
  <2>4. QED BY <1>2, <1>3, <1>4, <2>2, <2>3 DEF HandOf
<1>8. \A v \in Worker : HandOf(v)'
  BY <1>1, <1>6, <1>7, OneHand
<1>9. Homed' /\ Bound' /\ LeftBehind'
  BY <1>1 DEF Homed, Bound, LeftBehind, GivesUp, Queue, control
<1>10. InHand(w)' = t
  <2>1. CASE Goto(w) = "each"
    BY <1>4, <2>1 DEF InHand
  <2>2. CASE Goto(w) = "enqueue"
    <3>1. Rest(w)' = SubSeq(t, 0 + 1, Len(t))
      BY <1>2, <1>4, <2>2 DEF Rest
    <3>2. QED BY <1>3, <1>4, <2>2, <3>1, SubSeqFull DEF InHand
  <2>3. QED BY <1>2, <2>1, <2>2
<1>11. QED BY <1>6, <1>8, <1>9, <1>10 DEF s, k, t

LEMMA SteerStep ==
  ASSUME EInv, NEW w \in Worker, Steer(w)
  PROVE  EInv'
<1>1. TypeOK /\ (\A v \in Worker : HandOf(v)) /\ AllOnce /\ at[w] = "each"
  BY DEF EInv, Steer
<1>2. PICK k \in Nat : k = n[w]
  BY <1>1 DEF TypeOK
<1>3. PICK e \in Event : e = Steered(cdata, events[w][k + 1])
                         /\ Same(e, events[w][k + 1])
  <2>1. Current(w) \in Event /\ Current(w) = events[w][k + 1] /\ Current(w).op # "RELEASE"
    BY <1>1, <1>2, CurrentIs
  <2>2. cdata \in Config
    BY <1>1 DEF TypeOK
  <2>3. /\ Steered(cdata, Current(w)) \in Event /\ Steered(cdata, Current(w)).op = "FORWARD"
        /\ Steered(cdata, Current(w)).id = Current(w).id
    BY <2>1, <2>2, SteeredIs
  <2>4. QED BY <2>1, <2>3 DEF Same
<1>4. UNCHANGED <<cdata, queue, ring, received, sent, left, control>>
  BY DEF Steer
<1>5. /\ events' = [events EXCEPT ![w] = [events[w] EXCEPT ![n[w] + 1] = e]]
      /\ at' = [at EXCEPT ![w] = Goto(w)] /\ n' = [n EXCEPT ![w] = Counter(w)]
  BY <1>1, <1>2, <1>3 DEF Steer
<1> DEFINE t == [events[w] EXCEPT ![n[w] + 1] = e]
<1>6. sent' \in Seq(Event)
  BY <1>1, <1>4 DEF TypeOK
<1>7. /\ TypeOK' /\ Homed' /\ Bound' /\ (\A v \in Worker : HandOf(v)') /\ LeftBehind'
      /\ InHand(w)' = t
      /\ \A v \in Worker \ {w} : /\ at'[v] = at[v] /\ events'[v] = events[v]
                                 /\ n'[v] = n[v] /\ ring'[v] = ring[v]
  BY <1>1, <1>4, <1>5, <1>6, GoesOn
<1>8. AllOnce'
  <2> DEFINE A == <<"hand", w>>
  <2>1. A \in Place /\ At(A) = events[w] /\ At(A)' = t
    BY <1>1, <1>4, <1>7, Places, PlacesNext DEF InHand
  <2>2. \A q \in Place \ {A} : At(q)' = At(q)
    BY <1>4, <1>7, Elsewhere
  <2>3. Ids(t) = Ids(events[w])
    <3>1. events[w] \in Seq(Event) /\ n[w] + 1 \in 1 .. Len(events[w])
      BY <1>1, CurrentIs
    <3>2. /\ t \in Seq(Event) /\ Len(t) = Len(events[w]) /\ t[n[w] + 1] = e
          /\ \A j \in 1 .. Len(events[w]) : j # n[w] + 1 => t[j] = events[w][j]
      BY <3>1, ExceptSeq
    <3> HIDE DEF t
    <3>3. \A j \in 1 .. Len(t) : Same(t[j], events[w][j])
      BY <1>2, <1>3, <3>2 DEF Same
    <3>4. QED BY <3>1, <3>2, <3>3, SameIds
  <2> HIDE DEF A, t
  <2>4. \A q \in Place : Ids(At(q)') = Ids(At(q))
    BY <2>1, <2>2, <2>3
  <2>5. QED BY <1>1, <1>4, <1>7, <2>4, StayStep
<1>9. QED BY <1>7, <1>8 DEF EInv

LEMMA ReleasedIs ==
  ASSUME NEW e \in Event
  PROVE  [e EXCEPT !.op = "RELEASE"] \in Event /\ [e EXCEPT !.op = "RELEASE"].op = "RELEASE"
BY DEF Event

LEMMA TransmitBurstStep ==
  ASSUME EInv, NEW w \in Worker, Transmit(w), TransmitBurst(w)
  PROVE  EInv'
<1>1. TypeOK /\ (\A v \in Worker : HandOf(v)) /\ AllOnce /\ at[w] = "each"
  BY DEF EInv, Transmit
<1>2. PICK k \in Nat : k = n[w] + 1
  BY <1>1 DEF TypeOK
<1> DEFINE s == events[w]
<1>3. s \in Seq(Event) /\ k \in 1 .. Len(s) /\ s[k] \in Event /\ s[k].op # "RELEASE" /\ Current(w) = s[k]
  BY <1>1, <1>2, CurrentIs
<1>4. PICK e \in Event : e = [s[k] EXCEPT !.op = "RELEASE"] /\ e.op = "RELEASE"
  BY <1>3, ReleasedIs
<1>5. UNCHANGED <<cdata, queue, ring, received, left, control>> /\ sent' = Append(sent, s[k])
  BY <1>3 DEF Transmit
<1> DEFINE t == [s EXCEPT ![n[w] + 1] = e]
<1>6. /\ events' = [events EXCEPT ![w] = t]
      /\ at' = [at EXCEPT ![w] = Goto(w)] /\ n' = [n EXCEPT ![w] = Counter(w)]
  BY <1>1, <1>2, <1>4 DEF TransmitBurst
<1>7. sent \in Seq(Event) /\ sent' \in Seq(Event)
  BY <1>1, <1>3, <1>5, AppendProperties DEF TypeOK
<1>8. /\ TypeOK' /\ Homed' /\ Bound' /\ (\A v \in Worker : HandOf(v)') /\ LeftBehind'
      /\ InHand(w)' = t
      /\ \A v \in Worker \ {w} : /\ at'[v] = at[v] /\ events'[v] = events[v]
                                 /\ n'[v] = n[v] /\ ring'[v] = ring[v]
  BY <1>1, <1>5, <1>6, <1>7, GoesOn
<1>9. /\ t \in Seq(Event) /\ Len(t) = Len(s) /\ t[k].op = "RELEASE"
      /\ \A j \in 1 .. Len(s) : j # k => t[j] = s[j]
  BY <1>2, <1>3, <1>4, ExceptSeq
<1>10. AllOnce'
  <2> DEFINE A == <<"hand", w>>
             B == <<"sent", 0>>
  <2>1. /\ A \in Place /\ At(A) = s /\ At(A)' = t
        /\ B \in Place /\ At(B) = sent /\ At(B)' = Append(sent, s[k]) /\ A # B
    BY <1>1, <1>5, <1>8, Places, PlacesNext DEF InHand
  <2>2. \A q \in Place \ {A, B} : At(q)' = At(q)
    BY <1>5, <1>8, Elsewhere
  <2> HIDE DEF A, B, s, t
  <2>3. /\ k \in 1 .. Len(At(A)) /\ At(A)[k].op # "RELEASE" /\ At(B)' = Append(At(B), At(A)[k])
        /\ Len(At(A)') = Len(At(A)) /\ At(A)'[k].op = "RELEASE"
        /\ \A j \in 1 .. Len(At(A)) : j # k => At(A)'[j] = At(A)[j]
    BY <1>3, <1>9, <2>1
  <2>4. QED BY <1>1, <1>5, <1>8, <2>1, <2>2, <2>3, TakeStep
<1>11. QED BY <1>8, <1>10 DEF EInv

(* A worker is done with its burst and goes back to its loop.              *)
LEMMA GoesBack ==
  ASSUME EInv, NEW w \in Worker, NEW r \in Seq(Event), Len(r) <= RingRoom,
         UNCHANGED <<cdata, queue, received, control>>,
         sent' \in Seq(Event), left' \in Seq(Event), left' # <<>> => left # <<>> \/ (GivesUp /\ done),
         ring' = [ring EXCEPT ![w] = r], \A j \in 1 .. Len(r) : r[j].queue_id \in Queue,
         events' = [events EXCEPT ![w] = <<>>], at' = [at EXCEPT ![w] = "loop"],
         n' = [n EXCEPT ![w] = 0]
  PROVE  /\ TypeOK' /\ Homed' /\ Bound' /\ (\A v \in Worker : HandOf(v)') /\ LeftBehind'
         /\ InHand(w)' = <<>> /\ ring'[w] = r
         /\ \A v \in Worker \ {w} : /\ at'[v] = at[v] /\ events'[v] = events[v]
                                    /\ n'[v] = n[v] /\ ring'[v] = ring[v]
<1>1. TypeOK /\ Homed /\ Bound /\ (\A v \in Worker : HandOf(v)) /\ LeftBehind
  BY DEF EInv
<1>2. /\ at'[w] = "loop" /\ events'[w] = <<>> /\ n'[w] = 0 /\ ring'[w] = r
  BY <1>1 DEF TypeOK
<1>3. <<>> \in Seq(Event) /\ Len(<<>>) = 0
  OBVIOUS
<1>4. OneMoves(w)
  <2>1. UNCHANGED <<cdata, received, control>>
    OBVIOUS
  <2>2. /\ at' = [at EXCEPT ![w] = at'[w]] /\ events' = [events EXCEPT ![w] = events'[w]]
        /\ n' = [n EXCEPT ![w] = n'[w]] /\ ring' = [ring EXCEPT ![w] = ring'[w]]
    BY <1>2
  <2>3. n'[w] \in Nat /\ n'[w] <= Len(events'[w]) /\ events'[w] \in Seq(Event)
    <3> DEFINE z == events'[w]
    <3>1. z \in Seq(Event) /\ Len(z) = 0
      BY <1>2, <1>3
    <3> HIDE DEF z
    <3>2. 0 <= Len(z)
      BY <3>1
    <3>3. QED BY <1>2, <3>1, <3>2 DEF z
  <2>4. QED BY <1>2, <2>1, <2>2, <2>3 DEF OneMoves
<1>5. /\ TypeOK'
      /\ \A v \in Worker \ {w} : /\ at'[v] = at[v] /\ events'[v] = events[v]
                                 /\ n'[v] = n[v] /\ ring'[v] = ring[v]
  <2>1. queue' \in [Queue -> Seq(Event)]
    BY <1>1 DEF TypeOK
  <2>2. QED BY <1>1, <1>4, <2>1, OneType
<1>6. HandOf(w)'
  BY <1>2, <1>3 DEF HandOf
<1>7. \A v \in Worker : HandOf(v)'
  BY <1>1, <1>5, <1>6, OneHand
<1>8. Homed' /\ Bound'
  <2>1. Queue' = Queue
    BY DEF Queue
  <2>2. Homed'
    BY <1>1, <2>1 DEF Homed
  <2>3. \A v \in Worker : \A j \in 1 .. Len(ring'[v]) : ring'[v][j].queue_id \in Queue
    BY <1>1, <1>2, <1>5 DEF Bound
  <2>4. QED BY <2>1, <2>2, <2>3 DEF Bound
<1>9. LeftBehind'
  BY <1>1 DEF LeftBehind, GivesUp, control
<1>10. InHand(w)' = <<>>
  BY <1>2 DEF InHand
<1>11. QED BY <1>2, <1>5, <1>7, <1>8, <1>9, <1>10

LEMMA TransmitOneStep ==
  ASSUME EInv, NEW w \in Worker, Transmit(w), TransmitOne(w)
  PROVE  EInv'
<1>1. TypeOK /\ Bound /\ (\A v \in Worker : HandOf(v)) /\ AllOnce /\ at[w] = "each"
  BY DEF EInv, Transmit
<1> DEFINE s == events[w]
<1>2. /\ s \in Seq(Event) /\ Len(s) = 1 /\ n[w] = 0 /\ Current(w) = s[1] /\ s[1] \in Event
  <2>1. Len(s) <= 1
    BY <1>1 DEF HandOf, TransmitOne
  <2>2. /\ n[w] + 1 \in 1 .. Len(s) /\ n[w] \in Nat /\ Len(s) \in Nat /\ s \in Seq(Event)
        /\ Current(w) = s[n[w] + 1] /\ Current(w) \in Event
    BY <1>1, CurrentIs
  <2> DEFINE k == n[w]
             l == Len(s)
  <2>3. k = 0 /\ l = 1
    <3>1. k \in Nat /\ l \in Nat /\ k + 1 \in 1 .. l /\ l <= 1
      BY <2>1, <2>2
    <3> HIDE DEF k, l
    <3>2. QED BY <3>1
  <2>4. QED BY <2>2, <2>3
<1>3. /\ UNCHANGED <<cdata, queue, ring, received, left, control>>
      /\ sent' = Append(sent, s[1])
  BY <1>2 DEF Transmit
<1>4. /\ ring' = [ring EXCEPT ![w] = ring[w]] /\ n' = [n EXCEPT ![w] = 0]
      /\ ring[w] \in Seq(Event) /\ Len(ring[w]) <= RingRoom
      /\ \A j \in 1 .. Len(ring[w]) : ring[w][j].queue_id \in Queue
  <2>1. n' = n /\ n \in [Worker -> Nat] /\ ring \in [Worker -> Seq(Event)]
    BY <1>1 DEF TransmitOne, TypeOK
  <2>2. QED BY <1>1, <1>2, <1>3, <2>1 DEF Bound, TypeOK
<1>5. events' = [events EXCEPT ![w] = <<>>] /\ at' = [at EXCEPT ![w] = "loop"]
  BY DEF TransmitOne
<1>6. sent \in Seq(Event) /\ sent' \in Seq(Event) /\ left' \in Seq(Event)
  BY <1>1, <1>2, <1>3, AppendProperties DEF TypeOK
<1>7. /\ TypeOK' /\ Homed' /\ Bound' /\ (\A v \in Worker : HandOf(v)') /\ LeftBehind'
      /\ InHand(w)' = <<>> /\ ring'[w] = ring[w]
      /\ \A v \in Worker \ {w} : /\ at'[v] = at[v] /\ events'[v] = events[v]
                                 /\ n'[v] = n[v] /\ ring'[v] = ring[v]
  BY <1>3, <1>4, <1>5, <1>6, GoesBack
<1>8. AllOnce'
  <2> DEFINE A == <<"hand", w>>
             B == <<"sent", 0>>
  <2>1. /\ A \in Place /\ At(A) = s /\ At(A)' = <<>>
        /\ B \in Place /\ At(B) = sent /\ At(B)' = Append(sent, s[1]) /\ A # B
    BY <1>1, <1>3, <1>7, Places, PlacesNext DEF InHand
  <2>2. \A q \in Place \ {A, B} : At(q)' = At(q)
    BY <1>3, <1>7, Elsewhere
  <2>3. /\ Len(Append(sent, s[1])) = Len(sent) + 1 /\ Append(sent, s[1])[Len(sent) + 1] = s[1]
        /\ \A j \in 1 .. Len(sent) : Append(sent, s[1])[j] = sent[j]
    BY <1>2, <1>6, AppendProperties
  <2> HIDE DEF A, B, s
  <2>4. /\ 1 <= Len(At(A)) /\ Len(At(A)') = Len(At(A)) - 1
        /\ \A j \in 1 .. Len(At(A)) - 1 : Same(At(A)'[j], At(A)[j + 1])
    <3>1. Len(At(A)) = 1 /\ Len(At(A)') = 0
      BY <1>2, <2>1
    <3>2. QED BY <3>1
  <2>5. /\ Len(At(B)') = Len(At(B)) + 1
        /\ \A j \in 1 .. Len(At(B)) : At(B)'[j] = At(B)[j]
        /\ \A j \in 1 .. 1 : Same(At(B)'[Len(At(B)) + j], At(A)[j])
    BY <2>1, <2>3 DEF Same
  <2>6. QED BY <1>1, <1>3, <1>7, <2>1, <2>2, <2>4, <2>5, ShiftStep
<1>9. QED BY <1>7, <1>8 DEF EInv

(* What an enqueue takes of the rest of a burst.                           *)
LEMMA EnqueueIs ==
  ASSUME TypeOK, Bound, NEW w \in Worker, at[w] = "enqueue", NEW m, m = Takes(w),
         NEW r, r = ring[w] \o SubSeq(Rest(w), 1, m)
  PROVE  /\ m \in Nat /\ m <= Len(Rest(w)) /\ Rest(w) \in Seq(Event) /\ Len(Rest(w)) \in Nat
         /\ r \in Seq(Event) /\ Len(r) <= RingRoom
         /\ \A j \in 1 .. Len(r) : r[j].queue_id \in Queue
         /\ Len(r) = Len(ring[w]) + m
         /\ \A j \in 1 .. Len(ring[w]) : r[j] = ring[w][j]
         /\ \A j \in 1 .. m : Same(r[Len(ring[w]) + j], Rest(w)[j])
<1> DEFINE q == ring[w]
           s == Rest(w)
           t == SubSeq(s, 1, m)
<1>1. /\ q \in Seq(Event) /\ Len(q) \in Nat /\ \A j \in 1 .. Len(q) : q[j].queue_id \in Queue
      /\ s \in Seq(Event) /\ Len(s) \in Nat
      /\ m \in 0 .. Len(s) /\ m <= RingRoom - Len(q)
      /\ \A j \in 1 .. m : s[j].queue_id \in Queue
  BY RestIs, TakesIs, LenProperties DEF TypeOK, Bound, Room
<1>2. r = q \o t
  OBVIOUS
<1> HIDE DEF q, s
<1>3. t \in Seq(Event) /\ Len(t) = m /\ \A j \in 1 .. m : t[j] = s[j]
  BY <1>1, SplitLen
<1> HIDE DEF t
<1>4. /\ r \in Seq(Event) /\ Len(r) = Len(q) + m
      /\ \A j \in 1 .. Len(q) + m : r[j] = IF j <= Len(q) THEN q[j] ELSE t[j - Len(q)]
  <2>1. /\ q \o t \in Seq(Event) /\ Len(q \o t) = Len(q) + Len(t)
        /\ \A j \in 1 .. Len(q) + Len(t) :
             (q \o t)[j] = IF j <= Len(q) THEN q[j] ELSE t[j - Len(q)]
    <3>1. q \in Seq(Event) /\ t \in Seq(Event)
      BY <1>1, <1>3
    <3>2. QED BY <3>1, ConcatProperties
  <2>2. Len(t) = m
    BY <1>3
  <2>3. QED BY <1>2, <2>1, <2>2
<1>5. \A j \in 1 .. Len(q) : r[j] = q[j]
  BY <1>1, <1>4
<1>6. ASSUME NEW j \in 1 .. m
      PROVE  r[Len(q) + j] = s[j]
  <2>1. Len(q) + j \in 1 .. Len(q) + m /\ ~(Len(q) + j <= Len(q)) /\ (Len(q) + j) - Len(q) = j
    BY <1>1
  <2>2. QED BY <1>3, <1>4, <2>1
<1>7. ASSUME NEW j \in 1 .. Len(r)
      PROVE  r[j].queue_id \in Queue
  <2>1. CASE j <= Len(q)
    BY <1>1, <1>4, <1>5, <2>1
  <2>2. CASE j > Len(q)
    <3>1. PICK i \in 1 .. m : j = Len(q) + i
      <4>1. j - Len(q) \in 1 .. m /\ j = Len(q) + (j - Len(q))
        BY <1>1, <1>4, <2>2
      <4>2. QED BY <4>1
    <3>2. QED BY <1>1, <1>6, <3>1
  <2>3. QED BY <1>1, <1>4, <2>1, <2>2
<1>8. Len(r) <= RingRoom /\ m \in Nat /\ m <= Len(s)
  BY <1>1, <1>4, PipelineAssumption
<1>9. QED BY <1>1, <1>4, <1>5, <1>6, <1>7, <1>8 DEF q, s, Same

LEMMA EnqueueStep ==
  ASSUME EInv, NEW w \in Worker, Enqueue(w)
  PROVE  EInv'
<1>1. TypeOK /\ Homed /\ Bound /\ (\A v \in Worker : HandOf(v)) /\ LeftBehind /\ AllOnce
      /\ at[w] = "enqueue"
  BY DEF EInv, Enqueue
<1>2. PICK m, r, s : m = Takes(w) /\ r = ring[w] \o SubSeq(Rest(w), 1, m) /\ s = Rest(w)
  OBVIOUS
<1>3. /\ m \in Nat /\ m <= Len(s) /\ s \in Seq(Event) /\ Len(s) \in Nat
      /\ r \in Seq(Event) /\ Len(r) <= RingRoom
      /\ \A j \in 1 .. Len(r) : r[j].queue_id \in Queue
      /\ Len(r) = Len(ring[w]) + m
      /\ \A j \in 1 .. Len(ring[w]) : r[j] = ring[w][j]
      /\ \A j \in 1 .. m : Same(r[Len(ring[w]) + j], s[j])
  BY <1>1, <1>2, EnqueueIs
<1>4. /\ UNCHANGED <<cdata, queue, received, sent, left, control>>
      /\ ring' = [ring EXCEPT ![w] = r]
  BY <1>2 DEF Enqueue
<1>5. sent' \in Seq(Event) /\ left' \in Seq(Event)
  BY <1>1, <1>4 DEF TypeOK
<1> DEFINE A == <<"hand", w>>
           B == <<"ring", w>>
<1>6. A \in Place /\ At(A) = s /\ B \in Place /\ At(B) = ring[w] /\ A # B
  BY <1>1, <1>2, Places DEF InHand
(* Either way the worker's burst is shorter by m, and its ring longer.     *)
<1>7. ASSUME TypeOK', ring'[w] = r, Len(InHand(w)') = Len(s) - m,
             \A j \in 1 .. Len(s) - m : InHand(w)'[j] = s[j + m],
             \A v \in Worker \ {w} : /\ at'[v] = at[v] /\ events'[v] = events[v]
                                     /\ n'[v] = n[v] /\ ring'[v] = ring[v]
      PROVE  AllOnce'
  <2>1. At(A)' = InHand(w)' /\ At(B)' = r
    BY <1>4, <1>7, PlacesNext
  <2>2. \A q \in Place \ {A, B} : At(q)' = At(q)
    BY <1>4, <1>7, Elsewhere
  <2> HIDE DEF A, B
  <2>3. /\ m <= Len(At(A)) /\ Len(At(A)') = Len(At(A)) - m
        /\ \A j \in 1 .. Len(At(A)) - m : Same(At(A)'[j], At(A)[j + m])
    BY <1>3, <1>6, <1>7, <2>1 DEF Same
  <2>4. /\ Len(At(B)') = Len(At(B)) + m
        /\ \A j \in 1 .. Len(At(B)) : At(B)'[j] = At(B)[j]
        /\ \A j \in 1 .. m : Same(At(B)'[Len(At(B)) + j], At(A)[j])
    BY <1>3, <1>6, <2>1
  <2>5. QED BY <1>1, <1>3, <1>4, <1>6, <1>7, <2>2, <2>3, <2>4, ShiftStep
<1>8. CASE /\ m = Len(s)
           /\ events' = [events EXCEPT ![w] = <<>>] /\ n' = [n EXCEPT ![w] = 0]
           /\ at' = [at EXCEPT ![w] = "loop"]
  <2>1. /\ TypeOK' /\ Homed' /\ Bound' /\ (\A v \in Worker : HandOf(v)') /\ LeftBehind'
        /\ InHand(w)' = <<>> /\ ring'[w] = r
        /\ \A v \in Worker \ {w} : /\ at'[v] = at[v] /\ events'[v] = events[v]
                                   /\ n'[v] = n[v] /\ ring'[v] = ring[v]
    BY <1>3, <1>4, <1>5, <1>8, GoesBack
  <2>2. Len(InHand(w)') = Len(s) - m /\ Len(s) - m = 0
    BY <1>3, <1>8, <2>1, EmptySeq
  <2>3. AllOnce'
    BY <1>7, <2>1, <2>2
  <2>4. QED BY <2>1, <2>3 DEF EInv
<1>9. CASE m < Len(s) /\ n' = [n EXCEPT ![w] = @ + m] /\ UNCHANGED <<events, at>>
  <2> DEFINE es == events[w]
             k == n[w]
  <2>1. es \in Seq(Event) /\ Len(es) \in Nat /\ k \in Nat /\ k <= Len(es) /\ Len(s) = Len(es) - k
        /\ \A j \in 1 .. Len(s) : s[j] = es[j + k]
    BY <1>1, <1>2, RestIs, LenProperties DEF TypeOK
  <2>2. n'[w] = k + m /\ ring'[w] = r /\ events'[w] = es /\ at'[w] = "enqueue"
    BY <1>1, <1>4, <1>9 DEF TypeOK
  <2> HIDE DEF es, k
  <2>3. k + m \in Nat /\ k + m <= Len(es)
    BY <1>3, <1>9, <2>1
  <2>4. OneMoves(w)
    <3>1. UNCHANGED <<cdata, received, control>>
      BY <1>4
    <3>2. /\ at' = [at EXCEPT ![w] = at'[w]] /\ events' = [events EXCEPT ![w] = events'[w]]
          /\ n' = [n EXCEPT ![w] = n'[w]] /\ ring' = [ring EXCEPT ![w] = ring'[w]]
      BY <1>1, <1>4, <1>9, <2>2 DEF TypeOK, k
    <3>3. QED BY <1>3, <2>1, <2>2, <2>3, <3>1, <3>2 DEF OneMoves
  <2>5. /\ TypeOK'
        /\ \A v \in Worker \ {w} : /\ at'[v] = at[v] /\ events'[v] = events[v]
                                   /\ n'[v] = n[v] /\ ring'[v] = ring[v]
    <3>1. queue' \in [Queue -> Seq(Event)]
      BY <1>1, <1>4 DEF TypeOK
    <3>2. QED BY <1>1, <1>5, <2>4, <3>1, OneType
  <2>6. \A v \in Worker : HandOf(v)'
    <3>1. ~cdata.burst => Len(es) <= 1
      BY <1>1 DEF HandOf, es
    <3>2. HandOf(w)'
      BY <1>4, <2>2, <3>1 DEF HandOf
    <3>3. QED BY <1>1, <1>4, <2>5, <3>2, OneHand
  <2>7. Homed' /\ Bound' /\ LeftBehind'
    <3>1. Queue' = Queue
      BY <1>4 DEF Queue
    <3>2. \A v \in Worker : \A j \in 1 .. Len(ring'[v]) : ring'[v][j].queue_id \in Queue
      BY <1>1, <1>3, <2>2, <2>5 DEF Bound
    <3>3. QED BY <1>1, <1>4, <3>1, <3>2 DEF Homed, Bound, LeftBehind, GivesUp, control
  <2>8. AllOnce'
    <3> DEFINE t == SubSeq(es, (k + m) + 1, Len(es))
    <3>1. InHand(w)' = t
      BY <2>2 DEF InHand, Rest
    <3>2. /\ Len(t) = Len(es) - (k + m)
          /\ \A j \in 1 .. Len(es) - (k + m) : t[j] = es[j + (k + m)]
      BY <2>1, <2>3, SplitLen
    <3> HIDE DEF t
    <3>3. Len(t) = Len(s) - m
      BY <1>3, <2>1, <3>2
    <3>4. ASSUME NEW j \in 1 .. Len(s) - m
          PROVE  t[j] = s[j + m]
      <4>1. j \in 1 .. Len(es) - (k + m) /\ j + m \in 1 .. Len(s) /\ j + (k + m) = (j + m) + k
        BY <1>3, <2>1
      <4>2. QED BY <2>1, <3>2, <4>1
    <3>5. QED BY <1>7, <2>2, <2>5, <3>1, <3>3, <3>4
  <2>9. QED BY <2>5, <2>6, <2>7, <2>8 DEF EInv
<1>10. QED BY <1>2, <1>8, <1>9 DEF Enqueue

LEMMA GiveUpStep ==
  ASSUME EInv, NEW w \in Worker, GiveUp(w)
  PROVE  EInv'
<1>1. TypeOK /\ Bound /\ AllOnce /\ at[w] = "enqueue" /\ GivesUp /\ done
  BY DEF EInv, GiveUp
<1>2. PICK s : s = Rest(w)
  OBVIOUS
<1>3. s \in Seq(Event) /\ Len(s) \in Nat /\ left \in Seq(Event) /\ Len(left) \in Nat
  BY <1>1, <1>2, RestIs, LenProperties DEF TypeOK
<1>4. /\ UNCHANGED <<cdata, queue, ring, received, sent, control>>
      /\ left' = left \o s
      /\ events' = [events EXCEPT ![w] = <<>>] /\ at' = [at EXCEPT ![w] = "loop"]
      /\ n' = [n EXCEPT ![w] = 0]
  BY <1>2 DEF GiveUp
<1>5. /\ left \o s \in Seq(Event) /\ Len(left \o s) = Len(left) + Len(s)
      /\ \A j \in 1 .. Len(left) + Len(s) :
           (left \o s)[j] = IF j <= Len(left) THEN left[j] ELSE s[j - Len(left)]
  BY <1>3, ConcatProperties
<1>6. /\ ring' = [ring EXCEPT ![w] = ring[w]]
      /\ ring[w] \in Seq(Event) /\ Len(ring[w]) <= RingRoom
      /\ \A j \in 1 .. Len(ring[w]) : ring[w][j].queue_id \in Queue
  BY <1>1, <1>4 DEF Bound, TypeOK
<1>7. sent' \in Seq(Event) /\ left' \in Seq(Event)
  BY <1>1, <1>4, <1>5 DEF TypeOK
<1>8. /\ TypeOK' /\ Homed' /\ Bound' /\ (\A v \in Worker : HandOf(v)') /\ LeftBehind'
      /\ InHand(w)' = <<>> /\ ring'[w] = ring[w]
      /\ \A v \in Worker \ {w} : /\ at'[v] = at[v] /\ events'[v] = events[v]
                                 /\ n'[v] = n[v] /\ ring'[v] = ring[v]
  BY <1>1, <1>4, <1>6, <1>7, GoesBack
<1>9. AllOnce'
  <2> DEFINE A == <<"hand", w>>
             B == <<"left", 0>>
             t == left \o s
  <2>1. /\ A \in Place /\ At(A) = s /\ At(A)' = <<>>
        /\ B \in Place /\ At(B) = left /\ At(B)' = t /\ A # B
    BY <1>1, <1>2, <1>4, <1>8, Places, PlacesNext DEF InHand
  <2>2. \A q \in Place \ {A, B} : At(q)' = At(q)
    BY <1>4, <1>8, Elsewhere
  <2>3. Len(t) = Len(left) + Len(s) /\ \A j \in 1 .. Len(left) : t[j] = left[j]
    BY <1>3, <1>5
  <2>4. ASSUME NEW j \in 1 .. Len(s)
        PROVE  Same(t[Len(left) + j], s[j])
    <3>1. /\ Len(left) + j \in 1 .. Len(left) + Len(s) /\ ~(Len(left) + j <= Len(left))
          /\ (Len(left) + j) - Len(left) = j
      BY <1>3
    <3>2. QED BY <1>5, <3>1 DEF Same
  <2> HIDE DEF A, B, t
  <2>5. Len(s) <= Len(At(A)) /\ Len(At(A)') = Len(At(A)) - Len(s) /\ Len(At(A)) - Len(s) = 0
    BY <1>3, <2>1, EmptySeq
  <2>6. \A j \in 1 .. Len(At(A)) - Len(s) : Same(At(A)'[j], At(A)[j + Len(s)])
    BY <2>5
  <2>7. /\ Len(At(B)') = Len(At(B)) + Len(s)
        /\ \A j \in 1 .. Len(At(B)) : At(B)'[j] = At(B)[j]
        /\ \A j \in 1 .. Len(s) : Same(At(B)'[Len(At(B)) + j], At(A)[j])
    BY <2>1, <2>3, <2>4
  <2>8. QED BY <1>1, <1>3, <1>4, <1>8, <2>1, <2>2, <2>5, <2>6, <2>7, ShiftStep
<1>10. QED BY <1>8, <1>9 DEF EInv

-----------------------------------------------------------------------------
(* At the start every place is empty.                                      *)
LEMMA InitE == Init => EInv
<1> SUFFICES ASSUME Init
             PROVE  EInv
  OBVIOUS
<1>1. <<>> \in Seq(Event) /\ Len(<<>>) = 0
  BY EmptySeq
<1>2. TypeOK
  <2>1. <<>> \in Seq(Event) /\ Len(<<>>) <= RingRoom /\ 0 <= Len(<<>>) /\ 0 \in 0 .. MaxEvents
    BY <1>1, PipelineAssumption
  <2>2. queue \in [Queue -> Seq(Event)] /\ cdata \in Config
    BY <2>1 DEF Init
  <2>3. ring \in [Worker -> Seq(Event)] /\ events \in [Worker -> Seq(Event)]
    BY <2>1 DEF Init
  <2>4. at \in [Worker -> {"loop", "each", "enqueue", "stopped"}] /\ n \in [Worker -> Nat]
    BY DEF Init
  <2>5. \A w \in Worker : Len(ring[w]) <= RingRoom /\ n[w] <= Len(events[w])
    BY <2>1 DEF Init
  <2>6. QED BY <2>1, <2>2, <2>3, <2>4, <2>5 DEF Init, TypeOK
<1>3. Homed /\ Bound /\ (\A w \in Worker : HandOf(w)) /\ LeftBehind
  BY <1>1 DEF Init, Homed, Bound, HandOf, LeftBehind
<1>4. \A p \in Place : At(p) = <<>>
  <2>1. /\ \A k \in Queue : queue[k] = <<>>
        /\ \A w \in Worker : ring[w] = <<>> /\ InHand(w) = <<>>
        /\ sent = <<>> /\ left = <<>>
    BY DEF Init, InHand
  <2>2. QED BY <2>1, Places
<1>5. \A p \in Place : Len(Ids(At(p))) = 0
  BY <1>1, <1>4, IdsIs
<1>6. \A p \in Place : Len(Layout[p]) = 0
  BY <1>5 DEF Layout
<1>7. AllOnce
  BY <1>6 DEF Init, AllOnce, Once
<1>8. QED BY <1>2, <1>3, <1>7 DEF EInv

LEMMA WorkStep ==
  ASSUME EInv, NEW w \in Worker, Works(w)
  PROVE  EInv'
<1>1. CASE \E k \in Queue, m \in 1 .. BatchSize : Dequeue(w, k, m)
  BY <1>1, DequeueStep
<1>2. CASE WorkerEnds(w)
  BY <1>2, ControlStep
<1>3. CASE Steer(w)
  BY <1>3, SteerStep
<1>4. CASE Transmit(w)
  <2>1. TransmitBurst(w) \/ TransmitOne(w)
    BY <1>4 DEF Transmit
  <2>2. QED BY <1>4, <2>1, TransmitBurstStep, TransmitOneStep
<1>5. CASE Enqueue(w)
  BY <1>5, EnqueueStep
<1>6. CASE GiveUp(w)
  BY <1>6, GiveUpStep
<1>7. QED BY <1>1, <1>2, <1>3, <1>4, <1>5, <1>6 DEF Works

LEMMA NextE == EInv /\ [Next]_vars => EInv'
<1> SUFFICES ASSUME EInv, [Next]_vars
             PROVE  EInv'
  OBVIOUS
<1>1. CASE \E p \in EthPort : Receive(p)
  BY <1>1, ReceiveStep
<1>2. CASE Services
  BY <1>2, TxAdapterStep, ControlStep, ScheduleStep DEF Services
<1>3. CASE FirstSignal \/ SecondSignal \/ DisplayQuits \/ Handles
  BY <1>3, ControlStep DEF Handles
<1>4. CASE \E w \in Worker : Works(w)
  BY <1>4, WorkStep
<1>5. CASE UNCHANGED vars
  <2>1. TypeOK
    BY DEF EInv
  <2>2. /\ at' = at /\ service' = service /\ started' = started /\ done' = done
        /\ handler' = handler /\ menu' = menu
        /\ UNCHANGED <<cdata, queue, ring, events, n, received, sent, left>>
    BY <1>5 DEF vars
  <2>3. QED BY <2>1, <2>2, QuietStep DEF TypeOK
<1>6. QED BY <1>1, <1>2, <1>3, <1>4, <1>5 DEF Next

LEMMA AlwaysE == Spec => []EInv
BY InitE, NextE, PTL DEF Spec

(* Rings keep to the depth of the port, and a worker's place in its burst  *)
(* stays within the burst, whatever is taken of it at a time: the counters *)
(* and the enqueues of the worker loops of the three pipelines.            *)
THEOREM PipelineTypes == Spec => []TypeOK
<1>1. EInv => TypeOK
  BY DEF EInv
<1>2. QED BY <1>1, AlwaysE, PTL

(* Whatever the worker loops, adapters and the scheduler do, and whenever  *)
(* a signal comes: every frame received is one event at one place, and     *)
(* only worker_generic_burst leaves events behind, only when stopped.      *)
THEOREM EventsStayOnce == Spec => []EachEventOnce
<1>1. EInv => EachEventOnce
  BY OnceIsOnce DEF EInv
<1>2. QED BY <1>1, AlwaysE, PTL

-----------------------------------------------------------------------------
(* The way of an event through the stages                                  *)

(* Where an event is, for the loops that take it from the queue and for    *)
(* those that take it from the sub-event type; and the extra round, in     *)
(* which an event of the last stage is already in an atomic context.       *)
ByQueue(c)  == c.pipeline = "generic" \/ (~c.all_type_queues /\ c.num_stages # 1)
Stage(c, e) == IF ByQueue(c) THEN e.queue_id ELSE e.sub_event_type
Extra(c, e) == c.pipeline = "tx" /\ c.queue_type # "ATOMIC" /\ e.sched_type = "ATOMIC"
Due(c, e)   == Stage(c, e) + (IF Extra(c, e) THEN 1 ELSE 0)

Fits(c, e) ==
  /\ Stage(c, e) <= (IF c.pipeline = "generic" THEN c.num_stages ELSE c.num_stages - 1)
  /\ Extra(c, e) => Stage(c, e) = c.num_stages - 1
  /\ c.pipeline = "tx" => e.sched_type \in {c.queue_type, "ATOMIC"}

(* An event at rest has been with a worker once per stage behind it; one   *)
(* just dequeued once more.                                                *)
OnCourse(c, e) == Fits(c, e) /\ e.visits = Due(c, e)
InRound(c, e)  == /\ Fits(c, e) /\ e.visits = Due(c, e) + 1
                  /\ c.pipeline = "generic" => e.queue_id < c.num_stages

LEMMA ModSmall ==
  ASSUME NEW s \in Nat \ {0}, NEW x \in 0 .. s - 1
  PROVE  x % s = x
OBVIOUS

LEMMA InjectedOnCourse ==
  ASSUME NEW c \in Config, StagesFit(c), NEW m \in Nat, NEW p \in EthPort
  PROVE  OnCourse(c, Injected(c, m, p))
<1> DEFINE e == Injected(c, m, p)
<1>1. c.num_stages \in Nat \ {0} /\ c.pipeline \in {"generic", "tx"}
  BY ConfigFields
<1>2. e.sub_event_type = 0 /\ e.sched_type = c.queue_type /\ e.visits = 0
      /\ e.queue_id = p * rx_stride(c)
  BY DEF Injected
<1>3. Stage(c, e) = 0
  <2>1. CASE c.pipeline = "generic"
    <3>1. rx_stride(c) = 0 /\ p \in Nat
      BY <2>1, SteeringAssumption DEF rx_stride, EthPort
    <3>2. QED BY <1>2, <2>1, <3>1 DEF Stage, ByQueue
  <2>2. CASE ~ByQueue(c)
    BY <1>2, <2>2 DEF Stage
  <2>3. CASE c.pipeline # "generic" /\ ByQueue(c)
    <3>1. p = 0
      BY <2>3 DEF ByQueue, StagesFit, EthPort
    <3>2. rx_stride(c) \in Nat
      BY <1>1 DEF rx_stride
    <3>3. p * rx_stride(c) = 0
      BY <3>1, <3>2
    <3>4. QED BY <1>2, <3>3, <2>3 DEF Stage
  <2>4. QED BY <2>1, <2>2, <2>3
<1>4. ~Extra(c, e)
  BY <1>2 DEF Extra
<1> HIDE DEF e
<1>5. e.visits = Due(c, e)
  BY <1>2, <1>3, <1>4 DEF Due
<1>6. Fits(c, e)
  BY <1>1, <1>2, <1>3, <1>4 DEF Fits
<1>7. QED BY <1>5, <1>6 DEF OnCourse, e

(* A stage is less than their number, so that the modulo leaves it alone.  *)
LEMMA StageIs ==
  ASSUME NEW c \in Config, NEW e \in Event, Fits(c, e), c.pipeline = "tx"
  PROVE  /\ ByQueue(c) => cq_id(c, e) = e.queue_id
         /\ ~ByQueue(c) => SubStage(c, e) = e.sub_event_type
<1>1. c.num_stages \in Nat \ {0} /\ e.queue_id \in Nat /\ e.sub_event_type \in Nat
  BY ConfigFields, EventFields
<1>2. Stage(c, e) \in 0 .. c.num_stages - 1
  BY <1>1 DEF Fits, Stage
<1>3. Stage(c, e) % c.num_stages = Stage(c, e)
  BY <1>1, <1>2, ModSmall
<1>4. QED BY <1>3 DEF Stage, cq_id, SubStage

LEMMA LastStageIs ==
  ASSUME NEW c \in Config, NEW e \in Event, Fits(c, e), c.pipeline = "tx"
  PROVE  AtLastStage(c, e) <=> Stage(c, e) = c.num_stages - 1
<1>1. c.num_stages \in Nat \ {0} /\ e.queue_id \in Nat /\ e.sub_event_type \in Nat
      /\ Stage(c, e) <= c.num_stages - 1
  BY ConfigFields, EventFields DEF Fits
<1>2. CASE c.num_stages = 1
  <2>1. Stage(c, e) = 0
    BY <1>1, <1>2 DEF Stage
  <2>2. QED BY <1>2, <2>1 DEF AtLastStage
<1>3. CASE c.num_stages # 1 /\ c.all_type_queues
  <2>1. ~ByQueue(c)
    BY <1>3 DEF ByQueue
  <2>2. SubStage(c, e) = e.sub_event_type
    BY <2>1, StageIs
  <2>3. QED BY <1>3, <2>1, <2>2 DEF AtLastStage, Stage, lst_qid
<1>4. CASE c.num_stages # 1 /\ ~c.all_type_queues
  <2>1. ByQueue(c)
    BY <1>4 DEF ByQueue
  <2>2. cq_id(c, e) = e.queue_id
    BY <2>1, StageIs
  <2>3. e.queue_id <= c.num_stages - 1
    BY <1>1, <2>1 DEF Stage
  <2>4. QED BY <1>1, <1>4, <2>1, <2>2, <2>3 DEF AtLastStage, Stage, lst_qid
<1>5. QED BY <1>2, <1>3, <1>4

LEMMA TransmittedIsDone ==
  ASSUME NEW c \in Config, NEW e \in Event, InRound(c, e), Transmits(c, e)
  PROVE  e.visits = Rounds(c)
<1>1. /\ Fits(c, e) /\ e.visits = Due(c, e) + 1 /\ c.pipeline = "tx"
      /\ e.sched_type = "ATOMIC" /\ AtLastStage(c, e)
  BY DEF InRound, Transmits
<1>2. Stage(c, e) = c.num_stages - 1 /\ c.num_stages \in Nat
  BY <1>1, LastStageIs, ConfigFields
<1>3. Extra(c, e) <=> c.queue_type # "ATOMIC"
  BY <1>1 DEF Extra
<1>4. QED BY <1>1, <1>2, <1>3 DEF Due, Rounds

LEMMA AdapterIsDone ==
  ASSUME NEW c \in Config, NEW e \in Event, OnCourse(c, e), c.pipeline = "generic",
         e.queue_id = c.num_stages
  PROVE  e.visits = Rounds(c)
<1>1. Stage(c, e) = c.num_stages /\ ~Extra(c, e) /\ c.num_stages \in Nat
  BY ConfigFields DEF Stage, ByQueue, Extra
<1>2. QED BY <1>1 DEF OnCourse, Due, Rounds

(* Steering takes an event to its next stage, or to its extra round.       *)
LEMMA SteeredOnCourse ==
  ASSUME NEW c \in Config, StagesFit(c), NEW e \in Event, InRound(c, e), ~Transmits(c, e)
  PROVE  OnCourse(c, Steered(c, e))
<1>1. /\ Fits(c, e) /\ e.visits = Due(c, e) + 1
      /\ c.pipeline = "generic" => e.queue_id < c.num_stages
      /\ c.num_stages \in Nat \ {0} /\ c.pipeline \in {"generic", "tx"} /\ c.queue_type \in Sched
      /\ e.queue_id \in Nat /\ e.sub_event_type \in Nat /\ "ATOMIC" \in Sched
  BY ConfigFields, EventFields DEF InRound, Sched
<1>2. PICK f, a, q : f = Steered(c, e) /\ a = Forward(e, "ATOMIC") /\ q = Forward(e, c.queue_type)
  OBVIOUS
<1>3. /\ a \in Event /\ a.sched_type = "ATOMIC" /\ a.queue_id = e.queue_id
      /\ a.sub_event_type = e.sub_event_type /\ a.visits = e.visits
      /\ q \in Event /\ q.sched_type = c.queue_type /\ q.queue_id = e.queue_id
      /\ q.sub_event_type = e.sub_event_type /\ q.visits = e.visits
  BY <1>1, <1>2, ForwardIs
<1>4. ASSUME NEW g \in Event, NEW k \in Nat
      PROVE  /\ [g EXCEPT !.queue_id = k].queue_id = k
             /\ [g EXCEPT !.queue_id = k].sched_type = g.sched_type
             /\ [g EXCEPT !.queue_id = k].visits = g.visits
             /\ [g EXCEPT !.queue_id = k].sub_event_type = g.sub_event_type
             /\ [g EXCEPT !.sub_event_type = k].sub_event_type = k
             /\ [g EXCEPT !.sub_event_type = k].sched_type = g.sched_type
             /\ [g EXCEPT !.sub_event_type = k].visits = g.visits
             /\ [g EXCEPT !.sub_event_type = k].queue_id = g.queue_id
  BY DEF Event
(* On to the next stage, in the same kind of context.                      *)
<1>5. ASSUME ~Extra(c, e), f.visits = e.visits, f.sched_type = c.queue_type,
             Stage(c, f) = Stage(c, e) + 1,
             c.pipeline = "tx" => Stage(c, e) < c.num_stages - 1
      PROVE  OnCourse(c, f)
  <2>1. Stage(c, e) \in Nat
    BY <1>1 DEF Stage
  <2>2. ~Extra(c, f)
    BY <1>5 DEF Extra
  <2>3. Stage(c, f) <= (IF c.pipeline = "generic" THEN c.num_stages ELSE c.num_stages - 1)
    <3>1. CASE c.pipeline = "generic"
      <4>1. Stage(c, e) = e.queue_id
        BY <3>1 DEF Stage, ByQueue
      <4>2. QED BY <1>1, <1>5, <3>1, <4>1
    <3>2. CASE c.pipeline = "tx"
      BY <1>1, <1>5, <2>1, <3>2
    <3>3. QED BY <1>1, <3>1, <3>2
  <2>4. f.visits = Due(c, f)
    BY <1>1, <1>5, <2>1, <2>2 DEF Due
  <2>5. QED BY <1>5, <2>2, <2>3, <2>4 DEF OnCourse, Fits
(* Into the atomic context, for the extra round.                           *)
<1>6. ASSUME c.pipeline = "tx", ~ByQueue(c), Stage(c, e) = c.num_stages - 1, f = a
      PROVE  OnCourse(c, f)
  <2>1. e.sched_type # "ATOMIC"
    BY <1>1, <1>6, LastStageIs DEF Transmits
  <2>2. c.queue_type # "ATOMIC"
    BY <1>1, <1>6, <2>1 DEF Fits
  <2>3. Stage(c, f) = Stage(c, e) /\ Extra(c, f) /\ ~Extra(c, e)
    BY <1>3, <1>6, <2>1, <2>2 DEF Stage, Extra
  <2>4. f.visits = Due(c, f)
    BY <1>1, <1>3, <1>6, <2>3 DEF Due
  <2>5. QED BY <1>1, <1>3, <1>6, <2>3, <2>4 DEF OnCourse, Fits
<1>7. CASE c.pipeline = "generic"
  <2>1. f = [q EXCEPT !.queue_id = e.queue_id + 1]
    BY <1>2, <1>7 DEF Steered, Generic, next_qid
  <2>2. /\ f.visits = e.visits /\ f.sched_type = c.queue_type
        /\ f.queue_id = e.queue_id + 1
    BY <1>1, <1>3, <1>4, <2>1
  <2>3. Stage(c, f) = Stage(c, e) + 1 /\ ~Extra(c, e)
    BY <1>7, <2>2 DEF Stage, ByQueue, Extra
  <2>4. QED BY <1>2, <1>5, <1>7, <2>2, <2>3
<1>8. CASE c.pipeline = "tx" /\ c.num_stages = 1
  <2>1. Stage(c, e) = c.num_stages - 1 /\ ~ByQueue(c)
    BY <1>1, <1>8 DEF Fits, Stage, ByQueue
  <2>2. CASE c.all_type_queues
    <3>1. f = a
      BY <1>2, <1>8, <2>2 DEF Steered, SingleAtq
    <3>2. QED BY <1>2, <1>6, <1>8, <2>1, <3>1
  <2>3. CASE ~c.all_type_queues
    <3>1. f = [a EXCEPT !.queue_id = a.queue_id + 1]
      BY <1>2, <1>8, <2>3 DEF Steered, Single
    <3>2. /\ f.sched_type = "ATOMIC" /\ f.visits = e.visits
          /\ f.sub_event_type = e.sub_event_type
      BY <1>1, <1>3, <1>4, <3>1
    <3>3. OnCourse(c, a)
      <4>1. e.sched_type # "ATOMIC" /\ c.queue_type # "ATOMIC"
        BY <1>1, <1>8, <2>1, LastStageIs DEF Transmits, Fits
      <4>2. Stage(c, a) = Stage(c, e) /\ Extra(c, a) /\ ~Extra(c, e)
        BY <1>3, <1>8, <4>1 DEF Stage, Extra
      <4>3. a.visits = Due(c, a)
        BY <1>1, <1>3, <2>1, <4>2 DEF Due
      <4>4. QED BY <1>1, <1>3, <1>8, <2>1, <4>2, <4>3 DEF OnCourse, Fits
    <3>4. Stage(c, f) = Stage(c, a) /\ (Extra(c, f) <=> Extra(c, a))
          /\ f.visits = a.visits /\ f.sched_type = a.sched_type
      BY <1>3, <2>1, <3>2 DEF Stage, Extra
    <3>5. QED BY <1>2, <3>3, <3>4 DEF OnCourse, Fits, Due
  <2>4. QED BY <2>2, <2>3
<1>9. CASE c.pipeline = "tx" /\ c.num_stages # 1 /\ c.all_type_queues
  <2>1. ~ByQueue(c) /\ SubStage(c, e) = e.sub_event_type /\ Stage(c, e) = e.sub_event_type
    BY <1>1, <1>9, StageIs DEF ByQueue, Stage
  <2>2. f = MultiAtq(c, e)
    BY <1>2, <1>9 DEF Steered
  <2>3. CASE e.sub_event_type = c.num_stages - 1
    <3>1. f = a
      BY <1>2, <2>1, <2>2, <2>3 DEF MultiAtq, lst_qid
    <3>2. QED BY <1>2, <1>6, <1>9, <2>1, <2>3, <3>1
  <2>4. CASE e.sub_event_type # c.num_stages - 1
    <3>1. f = [q EXCEPT !.sub_event_type = q.sub_event_type + 1]
      BY <1>2, <2>1, <2>2, <2>4 DEF MultiAtq, lst_qid
    <3>2. /\ f.visits = e.visits /\ f.sched_type = c.queue_type
          /\ f.sub_event_type = e.sub_event_type + 1
      BY <1>1, <1>3, <1>4, <3>1
    <3>3. ~Extra(c, e) /\ Stage(c, e) < c.num_stages - 1
      BY <1>1, <1>9, <2>1, <2>4 DEF Fits
    <3>4. Stage(c, f) = Stage(c, e) + 1
      BY <2>1, <3>2 DEF Stage
    <3>5. QED BY <1>2, <1>5, <3>2, <3>3, <3>4
  <2>5. QED BY <2>3, <2>4
<1>10. CASE c.pipeline = "tx" /\ c.num_stages # 1 /\ ~c.all_type_queues
  <2>1. ByQueue(c) /\ cq_id(c, e) = e.queue_id /\ Stage(c, e) = e.queue_id
        /\ c.queue_type = "ATOMIC"
    BY <1>1, <1>10, StageIs DEF ByQueue, Stage, StagesFit
  <2>2. ~(e.queue_id >= c.num_stages - 1) /\ ~Extra(c, e)
    <3>1. e.sched_type = "ATOMIC" /\ e.queue_id # c.num_stages - 1
      BY <1>1, <1>10, <2>1, LastStageIs DEF Fits, Transmits
    <3>2. QED BY <1>1, <1>10, <2>1, <3>1 DEF Fits, Extra
  <2>3. f = [q EXCEPT !.queue_id = q.queue_id + 1]
    BY <1>2, <1>10, <2>1, <2>2 DEF Steered, Multi, lst_qid, next_qid
  <2>4. /\ f.visits = e.visits /\ f.sched_type = c.queue_type
        /\ f.queue_id = e.queue_id + 1
    BY <1>1, <1>3, <1>4, <2>3
  <2>5. Stage(c, f) = Stage(c, e) + 1 /\ Stage(c, e) < c.num_stages - 1
    BY <1>1, <2>1, <2>2, <2>4 DEF Stage
  <2>6. QED BY <1>2, <1>5, <2>2, <2>4, <2>5
<1>11. QED BY <1>1, <1>7, <1>8, <1>9, <1>10

-----------------------------------------------------------------------------
(* The way of every event                                                  *)

OnWay(c, s) == \A j \in 1 .. Len(s) : s[j].op # "RELEASE" => OnCourse(c, s[j])

(* What a worker has not yet come to is in its round.                      *)
HandOnWay(w) ==
  \A j \in 1 .. Len(events[w]) :
    IF at[w] = "each" /\ j > n[w] THEN InRound(cdata, events[w][j])
    ELSE events[w][j].op # "RELEASE" => OnCourse(cdata, events[w][j])

CourseInv ==
  /\ \A k \in Queue : OnWay(cdata, queue[k])
  /\ \A w \in Worker : OnWay(cdata, ring[w]) /\ HandOnWay(w)
  /\ SentAfterAllStages

LEMMA AppendOnWay ==
  ASSUME NEW c, NEW s \in Seq(Event), OnWay(c, s), NEW e \in Event,
         e.op # "RELEASE" => OnCourse(c, e)
  PROVE  OnWay(c, Append(s, e))
<1>1. /\ Len(Append(s, e)) = Len(s) + 1 /\ Len(s) \in Nat
      /\ \A j \in 1 .. Len(s) : Append(s, e)[j] = s[j]
      /\ Append(s, e)[Len(s) + 1] = e
  BY AppendProperties, LenProperties
<1>2. ASSUME NEW j \in 1 .. Len(Append(s, e)), Append(s, e)[j].op # "RELEASE"
      PROVE  OnCourse(c, Append(s, e)[j])
  <2>1. j \in 1 .. Len(s) \/ j = Len(s) + 1
    BY <1>1
  <2>2. QED BY <1>1, <1>2, <2>1 DEF OnWay
<1>3. QED BY <1>2 DEF OnWay

LEMMA SplitOnWay ==
  ASSUME NEW c, NEW s \in Seq(Event), OnWay(c, s), NEW m \in 0 .. Len(s)
  PROVE  OnWay(c, SubSeq(s, 1, m)) /\ OnWay(c, SubSeq(s, m + 1, Len(s)))
<1>1. PICK a, b : a = SubSeq(s, 1, m) /\ b = SubSeq(s, m + 1, Len(s))
  OBVIOUS
<1>2. /\ Len(a) = m /\ \A j \in 1 .. m : a[j] = s[j]
      /\ Len(b) = Len(s) - m /\ \A j \in 1 .. Len(s) - m : b[j] = s[j + m]
  BY <1>1, SplitLen
<1>3. Len(s) \in Nat
  BY LenProperties
<1>4. OnWay(c, a)
  BY <1>2, <1>3 DEF OnWay
<1>5. OnWay(c, b)
  <2>1. \A j \in 1 .. Len(s) - m : j + m \in 1 .. Len(s)
    BY <1>3
  <2>2. QED BY <1>2, <2>1 DEF OnWay
<1>6. QED BY <1>1, <1>4, <1>5

LEMMA JoinOnWay ==
  ASSUME NEW c, NEW s \in Seq(Event), NEW t \in Seq(Event), OnWay(c, s), OnWay(c, t)
  PROVE  OnWay(c, s \o t)
<1>1. /\ Len(s \o t) = Len(s) + Len(t) /\ Len(s) \in Nat /\ Len(t) \in Nat
      /\ \A j \in 1 .. Len(s) + Len(t) :
           (s \o t)[j] = IF j <= Len(s) THEN s[j] ELSE t[j - Len(s)]
  BY ConcatProperties, LenProperties
<1>2. ASSUME NEW j \in 1 .. Len(s) + Len(t), (s \o t)[j].op # "RELEASE"
      PROVE  OnCourse(c, (s \o t)[j])
  <2>1. CASE j <= Len(s)
    <3>1. j \in 1 .. Len(s) /\ (s \o t)[j] = s[j]
      BY <1>1, <2>1
    <3>2. QED BY <1>2, <3>1 DEF OnWay
  <2>2. CASE ~(j <= Len(s))
    <3>1. j - Len(s) \in 1 .. Len(t) /\ (s \o t)[j] = t[j - Len(s)]
      BY <1>1, <2>2
    <3>2. QED BY <1>2, <3>1 DEF OnWay
  <2>3. QED BY <2>1, <2>2
<1>3. QED BY <1>1, <1>2 DEF OnWay

(* A step that changes one queue, one ring and one hand at most.           *)
LEMMA CourseKept ==
  ASSUME CourseInv, cdata' = cdata, NEW w \in Worker, NEW k \in Queue,
         \A h \in Queue \ {k} : queue'[h] = queue[h],
         OnWay(cdata, queue'[k]), OnWay(cdata, ring'[w]), HandOnWay(w)', SentAfterAllStages',
         \A v \in Worker \ {w} : /\ at'[v] = at[v] /\ events'[v] = events[v]
                                 /\ n'[v] = n[v] /\ ring'[v] = ring[v]
  PROVE  CourseInv'
<1>1. Queue' = Queue
  BY DEF Queue
<1>2. \A h \in Queue : OnWay(cdata, queue'[h])
  BY DEF CourseInv
<1>3. \A v \in Worker : OnWay(cdata, ring'[v])
  BY DEF CourseInv
<1>4. \A v \in Worker : HandOnWay(v)'
  BY DEF CourseInv, HandOnWay
<1>5. \A h \in Queue : OnWay(cdata, queue[h])'
  BY <1>2 DEF OnWay
<1>6. \A v \in Worker : OnWay(cdata, ring[v])'
  BY <1>3 DEF OnWay
<1>7. QED BY <1>1, <1>4, <1>5, <1>6 DEF CourseInv

LEMMA EmptyHand ==
  ASSUME NEW w \in Worker, events'[w] = <<>>
  PROVE  HandOnWay(w)'
<1>1. \A j \in 1 .. Len(<<>>) : FALSE
  BY EmptySeq
<1>2. QED BY <1>1 DEF HandOnWay

LEMMA RestOnWay ==
  ASSUME TypeOK, NEW w \in Worker, HandOnWay(w), at[w] = "enqueue"
  PROVE  OnWay(cdata, events[w]) /\ OnWay(cdata, Rest(w))
<1>1. events[w] \in Seq(Event) /\ n[w] \in 0 .. Len(events[w])
  <2>1. n[w] \in Nat /\ n[w] <= Len(events[w]) /\ events[w] \in Seq(Event) /\ Len(events[w]) \in Nat
    BY LenProperties DEF TypeOK
  <2>2. QED BY <2>1
<1>2. OnWay(cdata, events[w])
  BY DEF HandOnWay, OnWay
<1>3. QED BY <1>1, <1>2, SplitOnWay DEF Rest

LEMMA DequeueOnWay ==
  ASSUME EInv, CourseInv, NEW w \in Worker, NEW k \in Queue, NEW m \in 1 .. BatchSize,
         Dequeue(w, k, m)
  PROVE  CourseInv'
<1>1. TypeOK /\ Homed
  BY DEF EInv
<1>2. PICK s : s = queue[k]
  OBVIOUS
<1>3. s \in Seq(Event) /\ Len(s) \in Nat /\ m \in 0 .. Len(s) /\ OnWay(cdata, s)
  BY <1>1, <1>2, PipelineAssumption, LenProperties DEF Dequeue, TypeOK, CourseInv
<1>4. PICK x, y, vs, b, es :
        /\ x = SubSeq(s, 1, m) /\ y = SubSeq(s, m + 1, Len(s))
        /\ vs = Visited(x) /\ b = Len(events[w]) /\ es = events[w] \o vs
  OBVIOUS
<1>13. /\ events[w] \in Seq(Event) /\ b \in Nat /\ at[w] \in {"loop", "each"}
       /\ (at[w] = "each" => n[w] = 0) /\ (at[w] = "loop" => events[w] = <<>>)
  BY <1>1, <1>4, LenProperties DEF Dequeue, Dequeuing, EInv, HandOf, TypeOK
<1>5. /\ x \in Seq(Event) /\ Len(x) = m /\ \A j \in 1 .. m : x[j] = s[j]
      /\ OnWay(cdata, y)
  BY <1>3, <1>4, SplitLen, SplitOnWay
<1>6. /\ vs \in Seq(Event) /\ Len(vs) = m
      /\ \A j \in 1 .. m : vs[j] = [x[j] EXCEPT !.visits = @ + 1]
  BY <1>4, <1>5, VisitedIs
<1>14. /\ Len(es) = b + m
       /\ \A j \in 1 .. b : es[j] = events[w][j]
       /\ \A j \in 1 .. m : es[b + j] = vs[j]
  <2>1. events[w] \in Seq(Event) /\ vs \in Seq(Event)
    BY <1>6, <1>13
  <2>2. /\ Len(events[w] \o vs) = Len(events[w]) + Len(vs)
        /\ \A j \in 1 .. Len(events[w]) : (events[w] \o vs)[j] = events[w][j]
        /\ \A j \in 1 .. Len(vs) : (events[w] \o vs)[Len(events[w]) + j] = vs[j]
    BY <2>1, JoinIs
  <2>3. es = events[w] \o vs /\ b = Len(events[w]) /\ Len(vs) = m
    BY <1>4, <1>6
  <2>4. QED BY <2>2, <2>3
<1>7. UNCHANGED <<cdata, ring, sent>>
  BY DEF Dequeue
<1>8. /\ queue'[k] = y /\ \A h \in Queue \ {k} : queue'[h] = queue[h]
      /\ events'[w] = es /\ at'[w] = "each" /\ n'[w] = 0
      /\ \A v \in Worker \ {w} : at'[v] = at[v] /\ events'[v] = events[v] /\ n'[v] = n[v]
  BY <1>1, <1>2, <1>4 DEF Dequeue, TypeOK
<1>9. ASSUME NEW j \in 1 .. m
      PROVE  InRound(cdata, vs[j])
  <2>1. /\ s[j] \in Event /\ x[j] = s[j] /\ s[j].queue_id = k /\ OnCourse(cdata, s[j])
    <3>1. j \in 1 .. Len(s)
      BY <1>3
    <3>2. QED BY <1>1, <1>2, <1>3, <1>5, <3>1, ElementOfSeq DEF Homed, OnWay
  <2>2. /\ vs[j].queue_id = k /\ vs[j].sub_event_type = s[j].sub_event_type
        /\ vs[j].sched_type = s[j].sched_type /\ vs[j].visits = s[j].visits + 1
    BY <1>6, <2>1, VisitIs
  <2>3. cdata.pipeline = "generic" => k < cdata.num_stages
    <3>1. k \in LinkedToWorkers(cdata) /\ cdata.num_stages \in Nat
      BY <1>1, ConfigFields DEF Dequeue, TypeOK
    <3>2. QED BY <3>1 DEF LinkedToWorkers
  <2>4. Stage(cdata, vs[j]) = Stage(cdata, s[j]) /\ (Extra(cdata, vs[j]) <=> Extra(cdata, s[j]))
    BY <2>1, <2>2 DEF Stage, Extra
  <2>5. Due(cdata, vs[j]) = Due(cdata, s[j]) /\ Fits(cdata, vs[j])
    BY <2>1, <2>2, <2>4 DEF Due, Fits, OnCourse
  <2>6. QED BY <2>1, <2>2, <2>3, <2>5 DEF InRound, OnCourse
<1>10. HandOnWay(w)'
  <2>1. ASSUME NEW j \in 1 .. Len(es)
        PROVE  j > 0 /\ InRound(cdata, es[j])
    <3>1. CASE j <= b
      <4>1. at[w] = "each" /\ j \in 1 .. Len(events[w]) /\ j > n[w]
        <5>1. j \in 1 .. Len(events[w])
          BY <1>3, <1>4, <1>13, <1>14, <3>1
        <5>2. at[w] # "loop"
          BY <1>13, <5>1, EmptySeq
        <5>3. QED BY <1>13, <5>1, <5>2
      <4>2. InRound(cdata, events[w][j])
        BY <4>1 DEF CourseInv, HandOnWay
      <4>3. j \in 1 .. b
        BY <1>4, <4>1
      <4>4. QED BY <1>14, <4>1, <4>2, <4>3
    <3>2. CASE ~(j <= b)
      <4>1. j - b \in 1 .. m /\ b + (j - b) = j
        BY <1>3, <1>13, <1>14, <3>2
      <4>2. QED BY <1>9, <1>14, <4>1
    <3>3. QED BY <3>1, <3>2
  <2>2. QED BY <1>7, <1>8, <2>1 DEF HandOnWay
<1>11. SentAfterAllStages' /\ OnWay(cdata, ring'[w])
  BY <1>7 DEF CourseInv, SentAfterAllStages
<1>12. QED BY <1>5, <1>7, <1>8, <1>10, <1>11, CourseKept

(* An event of a burst is replaced by one that is released or has come to  *)
(* its next stage.                                                         *)
LEMMA OneDone ==
  ASSUME EInv, CourseInv, NEW w \in Worker, at[w] = "each", NEW e \in Event,
         e.op # "RELEASE" => OnCourse(cdata, e),
         events' = [events EXCEPT ![w] = [events[w] EXCEPT ![n[w] + 1] = e]],
         at' = [at EXCEPT ![w] = Goto(w)], n' = [n EXCEPT ![w] = Counter(w)],
         UNCHANGED <<cdata, queue, ring>>, SentAfterAllStages'
  PROVE  CourseInv'
<1>1. TypeOK /\ HandOf(w) /\ HandOnWay(w)
  BY DEF EInv, CourseInv
<1>2. /\ n[w] + 1 \in 1 .. Len(events[w]) /\ n[w] \in Nat /\ Len(events[w]) \in Nat
      /\ events[w] \in Seq(Event)
      /\ \/ Goto(w) = "enqueue" /\ n[w] + 1 = Len(events[w])
         \/ Goto(w) = "each" /\ Counter(w) = n[w] + 1
  BY <1>1, CurrentIs DEF Goto, EachDone
<1>3. PICK t, i : t = [events[w] EXCEPT ![n[w] + 1] = e] /\ i = n[w] + 1
  OBVIOUS
<1>4. /\ events'[w] = t /\ at'[w] = Goto(w) /\ n'[w] = Counter(w)
      /\ \A v \in Worker \ {w} : at'[v] = at[v] /\ events'[v] = events[v] /\ n'[v] = n[v]
  BY <1>1, <1>3 DEF TypeOK
<1>5. /\ i \in 1 .. Len(t) /\ Len(t) = Len(events[w]) /\ t[i] = e
      /\ \A j \in 1 .. Len(t) : j # i => t[j] = events[w][j]
  BY <1>2, <1>3, ExceptSeq
<1>6. ASSUME NEW j \in 1 .. Len(t)
      PROVE  /\ j <= i => (t[j].op # "RELEASE" => OnCourse(cdata, t[j]))
             /\ j > i => InRound(cdata, t[j])
  <2>1. j <= i /\ j # i => ~(j > n[w])
    BY <1>2, <1>3
  <2>2. j > i => j > n[w] /\ j # i
    BY <1>2, <1>3
  <2>3. CASE j = i
    BY <1>2, <1>3, <1>5, <2>3
  <2>4. CASE j # i
    BY <1>1, <1>5, <2>1, <2>2, <2>4 DEF HandOnWay
  <2>5. QED BY <2>3, <2>4
<1>7. HandOnWay(w)'
  <2>1. CASE Goto(w) = "enqueue" /\ i = Len(events[w])
    <3>1. \A j \in 1 .. Len(t) : j <= i
      BY <1>2, <1>5, <2>1
    <3>2. QED BY <1>4, <1>6, <2>1, <3>1 DEF HandOnWay
  <2>2. CASE Goto(w) = "each" /\ Counter(w) = i
    <3>1. \A j \in 1 .. Len(t) : j <= i \/ j > i
      BY <1>2, <1>3, <1>5
    <3>2. QED BY <1>2, <1>3, <1>4, <1>6, <2>2, <3>1 DEF HandOnWay
  <2>3. QED BY <1>2, <1>3, <2>1, <2>2
<1>8. \A k \in Queue : OnWay(cdata, queue'[k]) /\ queue'[k] = queue[k]
  BY DEF CourseInv
<1>9. Queue # {} /\ OnWay(cdata, ring'[w])
  <2>1. nb_queues(cdata) \in Nat \ {0}
    BY <1>1, QueueFacts DEF TypeOK
  <2>2. QED BY <2>1 DEF Queue, CourseInv
<1>10. QED BY <1>4, <1>7, <1>8, <1>9, CourseKept

LEMMA SteerOnWay ==
  ASSUME EInv, CourseInv, StagesFit(cdata), NEW w \in Worker, Steer(w)
  PROVE  CourseInv'
<1>1. TypeOK /\ HandOf(w) /\ HandOnWay(w) /\ at[w] = "each" /\ cdata \in Config
  BY DEF EInv, CourseInv, Steer, TypeOK
<1>2. /\ Current(w) \in Event /\ Current(w) = events[w][n[w] + 1]
      /\ n[w] + 1 \in 1 .. Len(events[w]) /\ n[w] \in Nat
  BY <1>1, CurrentIs
<1>3. InRound(cdata, Current(w))
  <2>1. n[w] + 1 > n[w]
    BY <1>2
  <2>2. QED BY <1>1, <1>2, <2>1 DEF HandOnWay
<1>4. PICK e : e = Steered(cdata, Current(w))
  OBVIOUS
<1>5. e \in Event /\ OnCourse(cdata, e)
  BY <1>1, <1>2, <1>3, <1>4, SteeredIs, SteeredOnCourse DEF Steer
<1>6. /\ events' = [events EXCEPT ![w] = [events[w] EXCEPT ![n[w] + 1] = e]]
      /\ at' = [at EXCEPT ![w] = Goto(w)] /\ n' = [n EXCEPT ![w] = Counter(w)]
      /\ UNCHANGED <<cdata, queue, ring, sent>>
  BY <1>1, <1>2, <1>4 DEF Steer, TypeOK
<1>7. SentAfterAllStages'
  BY <1>6 DEF CourseInv, SentAfterAllStages
<1>8. QED BY <1>1, <1>5, <1>6, <1>7, OneDone

LEMMA AppendSent ==
  ASSUME TypeOK, CourseInv, cdata' = cdata, NEW e \in Event, sent' = Append(sent, e),
         e.visits = Rounds(cdata)
  PROVE  SentAfterAllStages'
<1>1. /\ Len(sent') = Len(sent) + 1 /\ Len(sent) \in Nat
      /\ \A j \in 1 .. Len(sent) : sent'[j] = sent[j]
      /\ sent'[Len(sent) + 1] = e
  BY AppendProperties, LenProperties DEF TypeOK
<1>2. ASSUME NEW j \in 1 .. Len(sent')
      PROVE  sent'[j].visits = Rounds(cdata)
  <2>1. j \in 1 .. Len(sent) \/ j = Len(sent) + 1
    BY <1>1
  <2>2. QED BY <1>1, <2>1 DEF CourseInv, SentAfterAllStages
<1>3. QED BY <1>2 DEF SentAfterAllStages

LEMMA TransmitOnWay ==
  ASSUME EInv, CourseInv, NEW w \in Worker, Transmit(w)
  PROVE  CourseInv'
<1>1. TypeOK /\ HandOf(w) /\ HandOnWay(w) /\ at[w] = "each" /\ cdata \in Config
  BY DEF EInv, CourseInv, Transmit, TypeOK
<1>2. /\ Current(w) \in Event /\ Current(w) = events[w][n[w] + 1]
      /\ n[w] + 1 \in 1 .. Len(events[w]) /\ n[w] \in Nat
  BY <1>1, CurrentIs
<1>3. InRound(cdata, Current(w))
  <2>1. n[w] + 1 > n[w]
    BY <1>2
  <2>2. QED BY <1>1, <1>2, <2>1 DEF HandOnWay
<1>4. UNCHANGED <<cdata, queue, ring>> /\ sent' = Append(sent, Current(w))
  BY DEF Transmit
<1>5. SentAfterAllStages'
  <2>1. Current(w).visits = Rounds(cdata)
    BY <1>1, <1>2, <1>3, TransmittedIsDone DEF Transmit
  <2>2. QED BY <1>1, <1>2, <1>4, <2>1, AppendSent
<1>6. CASE TransmitBurst(w)
  <2>1. PICK e \in Event : e = [Current(w) EXCEPT !.op = "RELEASE"] /\ e.op = "RELEASE"
    BY <1>2, ReleasedIs
  <2>2. /\ events' = [events EXCEPT ![w] = [events[w] EXCEPT ![n[w] + 1] = e]]
        /\ at' = [at EXCEPT ![w] = Goto(w)] /\ n' = [n EXCEPT ![w] = Counter(w)]
    BY <1>1, <1>2, <1>6, <2>1 DEF TransmitBurst
  <2>3. QED BY <1>1, <1>4, <1>5, <2>1, <2>2, OneDone
<1>7. CASE TransmitOne(w)
  <2>1. /\ events'[w] = <<>>
        /\ \A v \in Worker \ {w} : at'[v] = at[v] /\ events'[v] = events[v] /\ n'[v] = n[v]
    BY <1>1, <1>7 DEF TransmitOne, TypeOK
  <2>2. HandOnWay(w)' /\ OnWay(cdata, ring'[w])
    BY <1>4, <2>1, EmptyHand DEF CourseInv
  <2>3. PICK k \in Queue : OnWay(cdata, queue'[k])
    <3>1. nb_queues(cdata) \in Nat \ {0}
      BY <1>1, QueueFacts
    <3>2. QED BY <1>4, <3>1 DEF Queue, CourseInv
  <2>4. QED BY <1>4, <1>5, <2>1, <2>2, <2>3, CourseKept
<1>8. QED BY <1>6, <1>7 DEF Transmit

(* A step of the device on one queue and one ring.                         *)
LEMMA DeviceOnWay ==
  ASSUME EInv, CourseInv, UNCHANGED <<cdata, at, events, n>>, NEW k \in Queue,
         \A h \in Queue \ {k} : queue'[h] = queue[h], OnWay(cdata, queue'[k]),
         \A w \in Worker : ring'[w] = ring[w] \/ OnWay(cdata, ring'[w]), SentAfterAllStages'
  PROVE  CourseInv'
<1>1. Queue' = Queue
  BY DEF Queue
<1>2. \A h \in Queue : OnWay(cdata, queue'[h])
  BY DEF CourseInv
<1>3. \A v \in Worker : OnWay(cdata, ring'[v]) /\ HandOnWay(v)'
  BY DEF CourseInv, HandOnWay
<1>4. \A h \in Queue : OnWay(cdata, queue[h])'
  BY <1>2 DEF OnWay
<1>5. \A v \in Worker : OnWay(cdata, ring[v])'
  BY <1>3 DEF OnWay
<1>6. QED BY <1>1, <1>3, <1>4, <1>5 DEF CourseInv

LEMMA ReceiveOnWay ==
  ASSUME EInv, CourseInv, StagesFit(cdata), NEW p \in EthPort, Receive(p)
  PROVE  CourseInv'
<1>1. TypeOK /\ cdata \in Config /\ received \in Nat /\ queue \in [Queue -> Seq(Event)]
  BY DEF EInv, TypeOK
<1>2. PICK e : e = Injected(cdata, received, p)
  OBVIOUS
<1>3. e \in Event /\ e.queue_id \in Queue /\ OnCourse(cdata, e)
  BY <1>1, <1>2, QueueFacts, InjectedOnCourse
<1>4. /\ queue'[e.queue_id] = Append(queue[e.queue_id], e)
      /\ \A h \in Queue \ {e.queue_id} : queue'[h] = queue[h]
      /\ UNCHANGED <<cdata, ring, at, events, n, sent>>
  BY <1>1, <1>2, <1>3 DEF Receive
<1>5. OnWay(cdata, queue'[e.queue_id]) /\ SentAfterAllStages'
  BY <1>1, <1>3, <1>4, AppendOnWay DEF CourseInv, SentAfterAllStages
<1>6. QED BY <1>3, <1>4, <1>5, DeviceOnWay

LEMMA ScheduleOnWay ==
  ASSUME EInv, CourseInv, NEW w \in Worker, Schedule(w)
  PROVE  CourseInv'
<1>1. TypeOK /\ Bound /\ queue \in [Queue -> Seq(Event)] /\ ring \in [Worker -> Seq(Event)]
  BY DEF EInv, TypeOK
<1>2. PICK s, e : s = ring[w] /\ e = Head(s)
  OBVIOUS
<1>3. s \in Seq(Event) /\ s # <<>> /\ Len(s) \in Nat /\ OnWay(cdata, s)
  BY <1>1, <1>2, LenProperties DEF Schedule, CourseInv
<1>4. /\ Len(s) >= 1 /\ e = s[1] /\ e \in Event
      /\ Len(Tail(s)) = Len(s) - 1 /\ \A j \in 1 .. Len(Tail(s)) : Tail(s)[j] = s[j + 1]
  BY <1>2, <1>3, HeadTailProperties, EmptySeq
<1>5. OnWay(cdata, Tail(s))
  <2>1. \A j \in 1 .. Len(Tail(s)) : j + 1 \in 1 .. Len(s)
    BY <1>3, <1>4
  <2>2. QED BY <1>3, <1>4, <2>1 DEF OnWay
<1>6. 1 \in 1 .. Len(s) /\ e.queue_id \in Queue /\ (e.op # "RELEASE" => OnCourse(cdata, e))
  BY <1>1, <1>2, <1>3, <1>4 DEF OnWay, Bound
<1>7. /\ UNCHANGED <<cdata, at, events, n, sent>>
      /\ ring'[w] = Tail(s) /\ \A v \in Worker \ {w} : ring'[v] = ring[v]
  BY <1>1, <1>2 DEF Schedule
<1>8. SentAfterAllStages'
  BY <1>7 DEF CourseInv, SentAfterAllStages
<1>9. CASE UNCHANGED queue
  <2>1. \A h \in Queue : queue'[h] = queue[h] /\ OnWay(cdata, queue'[h])
    BY <1>9 DEF CourseInv
  <2>2. QED BY <1>5, <1>6, <1>7, <1>8, <2>1, DeviceOnWay
<1>10. CASE e.op # "RELEASE" /\ queue' = [queue EXCEPT ![e.queue_id] = Append(@, e)]
  <2>1. /\ queue'[e.queue_id] = Append(queue[e.queue_id], e)
        /\ \A h \in Queue \ {e.queue_id} : queue'[h] = queue[h]
    BY <1>1, <1>6, <1>10
  <2>2. OnWay(cdata, queue'[e.queue_id])
    BY <1>1, <1>4, <1>6, <2>1, AppendOnWay DEF CourseInv
  <2>3. QED BY <1>5, <1>6, <1>7, <1>8, <2>1, <2>2, DeviceOnWay
<1>11. QED BY <1>2, <1>9, <1>10 DEF Schedule

LEMMA TxAdapterOnWay ==
  ASSUME EInv, CourseInv, TxAdapter
  PROVE  CourseInv'
<1>1. TypeOK /\ Homed /\ cdata \in Config /\ queue \in [Queue -> Seq(Event)]
      /\ cdata.pipeline = "generic"
  BY DEF EInv, TypeOK, TxAdapter
<1>2. TxQueue \in Queue
  BY <1>1, QueueFacts
<1>3. PICK s, e : s = queue[TxQueue] /\ e = Head(s)
  OBVIOUS
<1>4. s \in Seq(Event) /\ s # <<>> /\ Len(s) \in Nat /\ OnWay(cdata, s)
  BY <1>1, <1>2, <1>3, LenProperties DEF TxAdapter, CourseInv
<1>5. /\ Len(s) >= 1 /\ e = s[1] /\ e \in Event
      /\ Len(Tail(s)) = Len(s) - 1 /\ \A j \in 1 .. Len(Tail(s)) : Tail(s)[j] = s[j + 1]
  BY <1>3, <1>4, HeadTailProperties, EmptySeq
<1>6. OnWay(cdata, Tail(s))
  <2>1. \A j \in 1 .. Len(Tail(s)) : j + 1 \in 1 .. Len(s)
    BY <1>4, <1>5
  <2>2. QED BY <1>4, <1>5, <2>1 DEF OnWay
<1>7. 1 \in 1 .. Len(s) /\ e.queue_id = TxQueue /\ OnCourse(cdata, e)
  BY <1>1, <1>2, <1>3, <1>4, <1>5 DEF OnWay, Homed
<1>8. /\ UNCHANGED <<cdata, at, events, n, ring>> /\ sent' = Append(sent, e)
      /\ queue'[TxQueue] = Tail(s) /\ \A h \in Queue \ {TxQueue} : queue'[h] = queue[h]
  BY <1>1, <1>2, <1>3 DEF TxAdapter
<1>9. SentAfterAllStages'
  <2>1. e.visits = Rounds(cdata)
    BY <1>1, <1>5, <1>7, AdapterIsDone DEF TxQueue
  <2>2. QED BY <1>1, <1>5, <1>8, <2>1, AppendSent
<1>10. QED BY <1>2, <1>6, <1>8, <1>9, DeviceOnWay

LEMMA EnqueueOnWay ==
  ASSUME EInv, CourseInv, NEW w \in Worker, Enqueue(w)
  PROVE  CourseInv'
<1>1. /\ TypeOK /\ HandOnWay(w) /\ at[w] = "enqueue" /\ ring[w] \in Seq(Event)
      /\ OnWay(cdata, ring[w])
  BY DEF EInv, CourseInv, Enqueue, TypeOK
<1>2. PICK s, m : s = Rest(w) /\ m = Takes(w)
  OBVIOUS
<1>3. s \in Seq(Event) /\ m \in 0 .. Len(s) /\ OnWay(cdata, s) /\ OnWay(cdata, events[w])
  BY <1>1, <1>2, RestIs, TakesIs, RestOnWay
<1>4. PICK t : t = SubSeq(s, 1, m)
  OBVIOUS
<1>5. t \in Seq(Event) /\ OnWay(cdata, t)
  BY <1>3, <1>4, SplitLen, SplitOnWay
<1>6. /\ UNCHANGED <<cdata, queue, sent>> /\ ring'[w] = ring[w] \o t
      /\ \A v \in Worker \ {w} : ring'[v] = ring[v]
  BY <1>1, <1>2, <1>4 DEF Enqueue, TypeOK
<1>7. OnWay(cdata, ring'[w]) /\ SentAfterAllStages'
  BY <1>1, <1>5, <1>6, JoinOnWay DEF CourseInv, SentAfterAllStages
<1>8. PICK k \in Queue : OnWay(cdata, queue'[k])
  <2>1. nb_queues(cdata) \in Nat \ {0}
    BY <1>1, QueueFacts DEF TypeOK
  <2>2. QED BY <1>6, <2>1 DEF Queue, CourseInv
<1>9. CASE /\ events' = [events EXCEPT ![w] = <<>>]
           /\ n' = [n EXCEPT ![w] = 0] /\ at' = [at EXCEPT ![w] = "loop"]
  <2>1. /\ events'[w] = <<>>
        /\ \A v \in Worker \ {w} : at'[v] = at[v] /\ events'[v] = events[v] /\ n'[v] = n[v]
    BY <1>1, <1>9 DEF TypeOK
  <2>2. QED BY <1>6, <1>7, <1>8, <2>1, EmptyHand, CourseKept
<1>10. CASE n' = [n EXCEPT ![w] = @ + Takes(w)] /\ UNCHANGED <<events, at>>
  <2>1. \A v \in Worker \ {w} : at'[v] = at[v] /\ events'[v] = events[v] /\ n'[v] = n[v]
    BY <1>1, <1>10 DEF TypeOK
  <2>2. HandOnWay(w)'
    BY <1>1, <1>3, <1>6, <1>10 DEF HandOnWay, OnWay
  <2>3. QED BY <1>6, <1>7, <1>8, <2>1, <2>2, CourseKept
<1>11. QED BY <1>9, <1>10 DEF Enqueue

LEMMA GiveUpOnWay ==
  ASSUME EInv, CourseInv, NEW w \in Worker, GiveUp(w)
  PROVE  CourseInv'
<1>1. TypeOK
  BY DEF EInv
<1>2. /\ events'[w] = <<>>
      /\ \A v \in Worker \ {w} : at'[v] = at[v] /\ events'[v] = events[v] /\ n'[v] = n[v]
      /\ UNCHANGED <<cdata, queue, ring, sent>>
  BY <1>1 DEF GiveUp, TypeOK
<1>3. OnWay(cdata, ring'[w]) /\ SentAfterAllStages'
  BY <1>2 DEF CourseInv, SentAfterAllStages
<1>4. PICK k \in Queue : OnWay(cdata, queue'[k])
  <2>1. nb_queues(cdata) \in Nat \ {0}
    BY <1>1, QueueFacts DEF TypeOK
  <2>2. QED BY <1>2, <2>1 DEF Queue, CourseInv
<1>5. QED BY <1>2, <1>3, <1>4, EmptyHand, CourseKept

(* What concerns neither events nor bursts.                                *)
LEMMA QuietOnWay ==
  ASSUME EInv, CourseInv, UNCHANGED <<cdata, queue, ring, events, n, sent>>,
         \A w \in Worker : at'[w] = at[w] \/ at[w] = "loop"
  PROVE  CourseInv'
<1>1. ASSUME NEW w \in Worker
      PROVE  HandOnWay(w)'
  <2>1. CASE at'[w] = at[w]
    BY <2>1 DEF CourseInv, HandOnWay
  <2>2. CASE at[w] = "loop"
    BY <2>2, EmptyHand DEF EInv, HandOf
  <2>3. QED BY <2>1, <2>2
<1>2. Queue' = Queue
  BY DEF Queue
<1>3. QED BY <1>1, <1>2 DEF CourseInv, OnWay, SentAfterAllStages

LEMMA InitCourse == Init => CourseInv
<1> SUFFICES ASSUME Init
             PROVE  CourseInv
  OBVIOUS
<1>1. \A j \in 1 .. Len(<<>>) : FALSE
  BY EmptySeq
<1>2. /\ \A k \in Queue : queue[k] = <<>>
      /\ \A w \in Worker : ring[w] = <<>> /\ events[w] = <<>>
      /\ sent = <<>>
  BY DEF Init
<1>3. QED BY <1>1, <1>2 DEF CourseInv, OnWay, HandOnWay, SentAfterAllStages

LEMMA NextCourse == EInv /\ StagesFit(cdata) /\ CourseInv /\ [Next]_vars => CourseInv'
<1> SUFFICES ASSUME EInv, StagesFit(cdata), CourseInv, [Next]_vars
             PROVE  CourseInv'
  OBVIOUS
<1>1. CASE \E p \in EthPort : Receive(p)
  BY <1>1, ReceiveOnWay
<1>2. CASE TxAdapter
  BY <1>2, TxAdapterOnWay
<1>3. CASE ServiceEnds \/ FirstSignal \/ SecondSignal \/ DisplayQuits \/ Handles
  BY <1>3, QuietOnWay DEF ServiceEnds, FirstSignal, SecondSignal, DisplayQuits, Handles,
                          StopDevices, Close
<1>4. CASE \E w \in Worker : Schedule(w)
  BY <1>4, ScheduleOnWay
<1>5. ASSUME NEW w \in Worker, Works(w)
      PROVE  CourseInv'
  <2>1. CASE \E k \in Queue, m \in 1 .. BatchSize : Dequeue(w, k, m)
    BY <2>1, DequeueOnWay
  <2>2. CASE WorkerEnds(w)
    <3>1. \A v \in Worker : at'[v] = at[v] \/ at[v] = "loop"
      BY <2>2 DEF WorkerEnds, EInv, TypeOK
    <3>2. QED BY <2>2, <3>1, QuietOnWay DEF WorkerEnds
  <2>3. CASE Steer(w)
    BY <2>3, SteerOnWay
  <2>4. CASE Transmit(w)
    BY <2>4, TransmitOnWay
  <2>5. CASE Enqueue(w) \/ GiveUp(w)
    BY <2>5, EnqueueOnWay, GiveUpOnWay
  <2>6. QED BY <1>5, <2>1, <2>2, <2>3, <2>4, <2>5 DEF Works
<1>6. CASE UNCHANGED vars
  BY <1>6, QuietOnWay DEF vars
<1>7. QED BY <1>1, <1>2, <1>3, <1>4, <1>5, <1>6 DEF Next, Services

(* In every configuration whose loops read an event's stage right, nothing *)
(* is transmitted before it has been with a worker once per stage, and     *)
(* once more in an atomic context if the queues do not keep its order.     *)
THEOREM SentPassAllStages == Spec => [](StagesFit(cdata) => SentAfterAllStages)
<1>1. Init => (StagesFit(cdata) => CourseInv)
  BY InitCourse
<1>2. EInv /\ (StagesFit(cdata) => CourseInv) /\ [Next]_vars
        => (StagesFit(cdata) => CourseInv)'
  <2> SUFFICES ASSUME EInv, StagesFit(cdata) => CourseInv, [Next]_vars, StagesFit(cdata)'
               PROVE  CourseInv'
    OBVIOUS
  <2>1. cdata' = cdata
    BY DEF Next, Services, Handles, Works, vars, Receive, Schedule, TxAdapter, ServiceEnds, FirstSignal,
           SecondSignal, DisplayQuits, StopDevices, Close, Dequeue, WorkerEnds, Steer, Transmit, Enqueue, GiveUp
  <2>2. QED BY <2>1, NextCourse DEF StagesFit
<1>3. CourseInv => SentAfterAllStages
  BY DEF CourseInv
<1>4. QED BY <1>1, <1>2, <1>3, AlwaysE, PTL DEF Spec

=============================================================================
