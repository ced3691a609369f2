---------------------------- MODULE BriefingProofs ----------------------------
(***************************************************************************)
(* For any collectors, sources, facts and overlapping requests: what a     *)
(* briefing names, it names once, and nothing falls between briefings.     *)
(*                                                                         *)
(* Lists are flattened, filtered and deduplicated all along the way, and   *)
(* FlattenSeq is a recursive function of the community modules: what it    *)
(* yields is shown at the least place where it could be wrong (NatMin).    *)
(***************************************************************************)
EXTENDS Briefing, SequenceTheorems, FiniteSetTheorems, WellFoundedInduction, TLAPS

(***************************************************************************)
(* Flattened lists                                                         *)
(***************************************************************************)
\* What is wrong at some number is wrong at a least one.
LEMMA NatMin ==
  ASSUME NEW T, T \subseteq Nat, T # {}
  PROVE  \E n \in T : \A m \in T : ~(m < n)
<1> DEFINE R == {ss \in Nat \X Nat : ss[1] < ss[2]}
<1>1. IsWellFoundedOn(R, Nat)
  BY NatLessThanWellFounded DEF OpToRel
<1>2. \A x, y \in Nat : <<x, y>> \in R <=> x < y
  OBVIOUS
<1> HIDE DEF R
<1>3. \E x \in T : \A y \in T : ~(<<y, x>> \in R)
  BY <1>1, WFMin
<1> QED
  BY <1>2, <1>3

\* F[i] is the first i parts put together: what FlattenSeq recurs on.
FlatTo(ss, m, F) == F = [i \in 1..m |-> IF i = 1 THEN ss[i] ELSE F[i - 1] \o ss[i]]

\* There is such an F: a least number without one would follow a number with one.
LEMMA FlatExists ==
  ASSUME NEW ss, NEW n \in Nat \ {0}
  PROVE  \E F : FlatTo(ss, n, F)
<1> DEFINE Bad == {m \in Nat \ {0} : ~ \E F : FlatTo(ss, m, F)}
<1> SUFFICES ASSUME Bad # {} PROVE FALSE
  OBVIOUS
<1>1. PICK m \in Bad : \A k \in Bad : ~(k < m)
  <2> HIDE DEF Bad
  <2>1. Bad \subseteq Nat
    BY DEF Bad
  <2> QED
    BY <2>1, NatMin
<1>2. CASE m = 1
  <2>1. FlatTo(ss, 1, [i \in 1..1 |-> ss[i]])
    BY DEF FlatTo
  <2> QED
    BY <1>1, <1>2, <2>1
<1>3. CASE m # 1
  <2>1. m - 1 \in Nat \ {0} /\ m - 1 < m /\ m \in Nat \ {0}
    BY <1>1, <1>3
  <2>2. PICK F : FlatTo(ss, m - 1, F)
    BY <1>1, <2>1
  <2> DEFINE G == [i \in 1..m |-> IF i < m THEN F[i] ELSE F[m - 1] \o ss[m]]
  <2>3. \A i \in 1..(m - 1) : F[i] = IF i = 1 THEN ss[i] ELSE F[i - 1] \o ss[i]
    BY <2>2 DEF FlatTo
  <2>4. \A i \in 1..m : G[i] = IF i < m THEN F[i] ELSE F[m - 1] \o ss[m]
    OBVIOUS
  <2>5. ASSUME NEW i \in 1..m
        PROVE  (IF i < m THEN F[i] ELSE F[m - 1] \o ss[m])
                  = IF i = 1 THEN ss[i] ELSE G[i - 1] \o ss[i]
    <3>1. CASE i = m
      <4>1. i - 1 \in 1..m /\ i - 1 < m /\ i # 1 /\ ~(i < m)
        BY <3>1, <1>3, <2>1
      <4>2. G[i - 1] = F[i - 1] /\ F[i - 1] = F[m - 1] /\ ss[i] = ss[m]
        BY <4>1, <2>4, <3>1
      <4> QED
        BY <4>1, <4>2
    <3>2. CASE i # m
      <4>1. i \in 1..(m - 1) /\ i < m
        BY <3>2, <2>1
      <4>2. i # 1 => G[i - 1] = F[i - 1]
        BY <4>1, <2>1
      <4> QED
        BY <4>1, <4>2, <2>3
    <3> QED
      BY <3>1, <3>2
  <2>6. G = [i \in 1..m |-> IF i = 1 THEN ss[i] ELSE G[i - 1] \o ss[i]]
    BY <2>5
  <2>7. FlatTo(ss, m, G)
    BY <2>6 DEF FlatTo
  <2> QED
    BY <1>1, <2>7
<1> QED
  BY <1>2, <1>3

LEMMA FlatEmpty == FlattenSeq(<<>>) = <<>>
BY DEF FlattenSeq

\* So the function that FlattenSeq chooses is one.
LEMMA FlatSteps ==
  ASSUME NEW ss, Len(ss) \in Nat \ {0}
  PROVE  \E F : FlatTo(ss, Len(ss), F) /\ FlattenSeq(ss) = F[Len(ss)]
<1> DEFINE F == CHOOSE F : F = [i \in 1..Len(ss) |-> IF i = 1 THEN ss[i] ELSE F[i - 1] \o ss[i]]
<1>1. FlattenSeq(ss) = F[Len(ss)]
  BY DEF FlattenSeq
<1>2. \E G : FlatTo(ss, Len(ss), G)
  BY FlatExists
<1>3. FlatTo(ss, Len(ss), F)
  BY <1>2 DEF FlatTo
<1> QED
  BY <1>1, <1>3

(* What is in two sequences put together, and that nothing is in them twice. *)
LEMMA ConcatSet ==
  ASSUME NEW U, NEW s \in Seq(U), NEW t \in Seq(U)
  PROVE  /\ s \o t \in Seq(U)
         /\ \A u : u \in ToSet(s \o t) <=> u \in ToSet(s) \/ u \in ToSet(t)
<1>1. s \o t \in Seq(U) /\ Len(s \o t) = Len(s) + Len(t) /\ Len(s) \in Nat /\ Len(t) \in Nat
  OBVIOUS
<1>2. \A i \in 1..Len(s) : (s \o t)[i] = s[i]
  OBVIOUS
<1>3. \A i \in 1..Len(t) : (s \o t)[i + Len(s)] = t[i]
  OBVIOUS
<1>4. DOMAIN s = 1..Len(s) /\ DOMAIN t = 1..Len(t) /\ DOMAIN (s \o t) = 1..(Len(s) + Len(t))
  BY <1>1
<1>5. ASSUME NEW u, u \in ToSet(s \o t) PROVE u \in ToSet(s) \/ u \in ToSet(t)
  <2>1. PICK i \in 1..(Len(s) + Len(t)) : u = (s \o t)[i]
    BY <1>4, <1>5 DEF ToSet
  <2>2. CASE i <= Len(s)
    BY <1>1, <1>2, <1>4, <2>1, <2>2 DEF ToSet
  <2>3. CASE i > Len(s)
    <3>1. i - Len(s) \in 1..Len(t) /\ (i - Len(s)) + Len(s) = i
      BY <1>1, <2>1, <2>3
    <3>2. u = t[i - Len(s)]
      BY <1>3, <2>1, <3>1
    <3> QED
      BY <1>4, <3>1, <3>2 DEF ToSet
  <2> QED
    BY <1>1, <2>2, <2>3
<1>6. ASSUME NEW u, u \in ToSet(s) PROVE u \in ToSet(s \o t)
  <2>1. PICK i \in 1..Len(s) : u = s[i]
    BY <1>4, <1>6 DEF ToSet
  <2> QED
    BY <1>1, <1>2, <1>4, <2>1 DEF ToSet
<1>7. ASSUME NEW u, u \in ToSet(t) PROVE u \in ToSet(s \o t)
  <2>1. PICK i \in 1..Len(t) : u = t[i]
    BY <1>4, <1>7 DEF ToSet
  <2>2. i + Len(s) \in 1..(Len(s) + Len(t))
    BY <1>1
  <2>3. u = (s \o t)[i + Len(s)]
    BY <1>3, <2>1
  <2> QED
    BY <1>4, <2>2, <2>3 DEF ToSet
<1> QED
  BY <1>1, <1>5, <1>6, <1>7

\* No two places of s have the same key.
KeysApart(s, key) == \A i, j \in 1..Len(s) : i # j => key[s[i]] # key[s[j]]

LEMMA ConcatApart ==
  ASSUME NEW U, NEW s \in Seq(U), NEW t \in Seq(U), NEW key, KeysApart(s, key), KeysApart(t, key),
         \A x \in ToSet(s), y \in ToSet(t) : key[x] # key[y]
  PROVE  KeysApart(s \o t, key)
<1>1. Len(s \o t) = Len(s) + Len(t) /\ Len(s) \in Nat /\ Len(t) \in Nat
  OBVIOUS
<1>2. \A i \in 1..Len(s) : (s \o t)[i] = s[i] /\ s[i] \in ToSet(s)
  BY DEF ToSet
<1>3. \A i \in 1..Len(t) : (s \o t)[i + Len(s)] = t[i] /\ t[i] \in ToSet(t)
  BY DEF ToSet
<1>4. \A k \in 1..(Len(s) + Len(t)) :
        k \in 1..Len(s) \/ (k - Len(s) \in 1..Len(t) /\ (k - Len(s)) + Len(s) = k)
  BY <1>1
<1> DEFINE st == s \o t
           n == Len(s)
<1> SUFFICES ASSUME NEW i \in 1..(Len(s) + Len(t)), NEW j \in 1..(Len(s) + Len(t)), i # j
             PROVE  key[st[i]] # key[st[j]]
  BY <1>1 DEF KeysApart
<1>5. \A k \in 1..n : st[k] = s[k] /\ s[k] \in ToSet(s)
  BY <1>2
<1>6. \A k \in 1..(n + Len(t)) : k - n \in 1..Len(t) => st[k] = t[k - n] /\ t[k - n] \in ToSet(t)
  <2> SUFFICES ASSUME NEW k \in 1..(n + Len(t)), k - n \in 1..Len(t)
               PROVE  st[k] = t[k - n] /\ t[k - n] \in ToSet(t)
    OBVIOUS
  <2>1. (k - n) + n = k
    BY <1>1
  <2> QED
    BY <1>3, <2>1
<1> HIDE DEF st, n
<1>7. CASE i \in 1..n /\ j \in 1..n
  BY <1>5, <1>7 DEF KeysApart, n
<1>8. CASE i \in 1..n /\ j - n \in 1..Len(t)
  BY <1>5, <1>6, <1>8 DEF n
<1>9. CASE i - n \in 1..Len(t) /\ j \in 1..n
  BY <1>5, <1>6, <1>9 DEF n
<1>10. CASE i - n \in 1..Len(t) /\ j - n \in 1..Len(t)
  <2>1. i - n # j - n
    BY <1>1 DEF n
  <2>2. \A k, l \in 1..Len(t) : k # l => key[t[k]] # key[t[l]]
    BY <1>1 DEF KeysApart
  <2>3. st[i] = t[i - n] /\ st[j] = t[j - n]
    BY <1>6, <1>10 DEF n
  <2> QED
    BY <1>10, <2>1, <2>2, <2>3
<1> QED
  BY <1>4, <1>7, <1>8, <1>9, <1>10 DEF n

(* Sequences that are flattened: what is in them is in the result, and nothing is    *)
(* there twice if it was in no two places before.                                    *)
FlatUpTo(ss, F, k, U) ==
  /\ F[k] \in Seq(U)
  /\ \A u : u \in ToSet(F[k]) <=> \E i \in 1..k : u \in ToSet(ss[i])

\* What is in the parts up to k, when it is known up to k - 1.
LEMMA FlatStepSet ==
  ASSUME NEW U, NEW ss \in Seq(Seq(U)), NEW F, FlatTo(ss, Len(ss), F), NEW k \in 1..Len(ss),
         k # 1 => FlatUpTo(ss, F, k - 1, U)
  PROVE  FlatUpTo(ss, F, k, U)
<1>1. ss[k] \in Seq(U) /\ Len(ss) \in Nat
  OBVIOUS
<1>2. F[k] = IF k = 1 THEN ss[k] ELSE F[k - 1] \o ss[k]
  BY DEF FlatTo
<1>3. CASE k = 1
  <2>1. F[k] = ss[k]
    BY <1>2, <1>3
  <2>2. \A i : i \in 1..k <=> i = k
    BY <1>3
  <2> QED
    <3>1. F[k] \in Seq(U)
      BY <1>1, <2>1
    <3>2. ASSUME NEW u PROVE u \in ToSet(F[k]) <=> \E i \in 1..k : u \in ToSet(ss[i])
      <4> DEFINE W(i) == u \in ToSet(ss[i])
      <4>1. k \in 1..k
        BY <2>2
      <4> HIDE DEF W
      <4>2. W(k) <=> \E i \in 1..k : W(i)
        BY ONLY <4>1, <2>2, Zenon
      <4> QED
        BY <2>1, <4>2 DEF W
    <3> QED
      BY <3>1, <3>2 DEF FlatUpTo
<1>4. CASE k # 1
  <2>1. F[k] = F[k - 1] \o ss[k] /\ FlatUpTo(ss, F, k - 1, U)
    BY <1>2, <1>4
  <2>2. F[k] \in Seq(U) /\ \A u : u \in ToSet(F[k]) <=> u \in ToSet(F[k - 1]) \/ u \in ToSet(ss[k])
    BY <1>1, <2>1, ConcatSet DEF FlatUpTo
  <2>3. \A i : i \in 1..k <=> i \in 1..(k - 1) \/ i = k
    BY <1>1, <1>4
  <2> QED
    BY <2>1, <2>2, <2>3 DEF FlatUpTo
<1> QED
  BY <1>3, <1>4

LEMMA FlatSetAll ==
  ASSUME NEW U, NEW ss \in Seq(Seq(U)), NEW F, FlatTo(ss, Len(ss), F)
  PROVE  \A k \in 1..Len(ss) : FlatUpTo(ss, F, k, U)
<1> DEFINE Bad == {k \in 1..Len(ss) : ~FlatUpTo(ss, F, k, U)}
<1> SUFFICES ASSUME Bad # {} PROVE FALSE
  OBVIOUS
<1>1. Bad \subseteq Nat /\ Len(ss) \in Nat
  OBVIOUS
<1>2. PICK k \in Bad : \A j \in Bad : ~(j < k)
  <2> HIDE DEF Bad
  <2> QED
    BY <1>1, NatMin
<1>3. k \in 1..Len(ss)
  OBVIOUS
<1>4. k # 1 => k - 1 \in 1..Len(ss) /\ k - 1 < k
  BY <1>1, <1>3
<1>5. k # 1 => FlatUpTo(ss, F, k - 1, U)
  BY <1>2, <1>4
<1> QED
  BY <1>3, <1>5, FlatStepSet

\* What is in a flattened sequence is what is in its parts.
LEMMA FlatSet ==
  ASSUME NEW U, NEW ss \in Seq(Seq(U))
  PROVE  /\ FlattenSeq(ss) \in Seq(U)
         /\ \A u : u \in ToSet(FlattenSeq(ss)) <=> \E i \in 1..Len(ss) : u \in ToSet(ss[i])
<1>1. Len(ss) \in Nat
  OBVIOUS
<1>2. CASE Len(ss) = 0
  <2>1. ss = <<>>
    BY <1>2
  <2>2. ToSet(<<>>) = {}
    BY DEF ToSet
  <2>3. FlattenSeq(ss) = <<>>
    BY <2>1, FlatEmpty
  <2>4. ~ \E i : i \in 1..Len(ss)
    BY <1>2
  <2>5. \A u : u \notin ToSet(FlattenSeq(ss))
    BY <2>2, <2>3
  <2>6. <<>> \in Seq(U)
    OBVIOUS
  <2> QED
    BY <2>3, <2>4, <2>5, <2>6
<1>3. CASE Len(ss) # 0
  <2>1. PICK F : FlatTo(ss, Len(ss), F) /\ FlattenSeq(ss) = F[Len(ss)]
    BY <1>1, <1>3, FlatSteps
  <2>2. FlatUpTo(ss, F, Len(ss), U)
    BY <1>1, <1>3, <2>1, FlatSetAll
  <2> QED
    BY <2>1, <2>2 DEF FlatUpTo
<1> QED
  BY <1>2, <1>3

\* Each part has its keys apart, and no two parts share one.
PartsApart(ss, key) ==
  /\ \A i \in 1..Len(ss) : KeysApart(ss[i], key)
  /\ \A i, j \in 1..Len(ss) : i # j => \A x \in ToSet(ss[i]), y \in ToSet(ss[j]) : key[x] # key[y]

\* Keys that are apart in the parts and between them are apart when flattened.
LEMMA FlatApart ==
  ASSUME NEW U, NEW ss \in Seq(Seq(U)), NEW key, PartsApart(ss, key)
  PROVE  KeysApart(FlattenSeq(ss), key)
<1>1. Len(ss) \in Nat
  OBVIOUS
<1>2. CASE Len(ss) = 0
  <2>1. ss = <<>>
    BY <1>2
  <2> QED
    BY <2>1, FlatEmpty DEF KeysApart
<1>3. CASE Len(ss) # 0
  <2>1. PICK F : FlatTo(ss, Len(ss), F) /\ FlattenSeq(ss) = F[Len(ss)]
    BY <1>1, <1>3, FlatSteps
  <2>2. \A k \in 1..Len(ss) : FlatUpTo(ss, F, k, U)
    BY <2>1, FlatSetAll
  <2> DEFINE Bad == {k \in 1..Len(ss) : ~KeysApart(F[k], key)}
  <2>3. Bad = {}
    <3> SUFFICES ASSUME Bad # {} PROVE FALSE
      OBVIOUS
    <3>1. PICK k \in Bad : \A j \in Bad : ~(j < k)
      <4>1. Bad \subseteq Nat
        BY <1>1
      <4> HIDE DEF Bad
      <4> QED
        BY <4>1, NatMin
    <3>2. k \in 1..Len(ss) /\ ~KeysApart(F[k], key)
      OBVIOUS
    <3>3. F[k] = IF k = 1 THEN ss[k] ELSE F[k - 1] \o ss[k]
      BY <2>1, <3>2 DEF FlatTo
    <3>4. CASE k = 1
      BY <3>2, <3>3, <3>4 DEF PartsApart
    <3>5. CASE k # 1
      <4>1. k - 1 \in 1..Len(ss) /\ k - 1 < k /\ \A i \in 1..(k - 1) : i \in 1..Len(ss) /\ i # k
        BY <1>1, <3>2, <3>5
      <4>2. KeysApart(F[k - 1], key)
        BY <3>1, <4>1
      <4>3. F[k - 1] \in Seq(U) /\ ss[k] \in Seq(U)
        BY <2>2, <3>2, <4>1 DEF FlatUpTo
      <4>4. \A x \in ToSet(F[k - 1]), y \in ToSet(ss[k]) : key[x] # key[y]
        <5> SUFFICES ASSUME NEW x \in ToSet(F[k - 1]), NEW y \in ToSet(ss[k]) PROVE key[x] # key[y]
          OBVIOUS
        <5>1. PICK i \in 1..(k - 1) : x \in ToSet(ss[i])
          BY <2>2, <4>1 DEF FlatUpTo
        <5> QED
          BY <3>2, <4>1, <5>1 DEF PartsApart
      <4>5. KeysApart(ss[k], key)
        BY <3>2 DEF PartsApart
      <4> HIDE DEF Bad
      <4>6. KeysApart(F[k - 1] \o ss[k], key)
        BY <4>2, <4>3, <4>4, <4>5, ConcatApart
      <4> QED
        BY <3>2, <3>3, <3>5, <4>6
    <3> QED
      BY <3>4, <3>5
  <2>4. Len(ss) \in 1..Len(ss)
    BY <1>1, <1>3
  <2> QED
    BY <2>1, <2>3, <2>4
<1> QED
  BY <1>2, <1>3

(***************************************************************************)
(* What the helpers of Briefing make of sequences                          *)
(***************************************************************************)
\* No two of the places in I have the same key.
ApartIn(seq, I, key) ==
  \A i, j \in 1..Len(seq) : i \in I /\ j \in I /\ i # j => key[seq[i]] # key[seq[j]]

\* The places of seq that are in I, one after the other: every Picked is one of these.
Places(seq, I) == FlattenSeq([i \in DOMAIN seq |-> IF i \in I THEN <<seq[i]>> ELSE <<>>])

LEMMA SingleSet ==
  ASSUME NEW U, NEW x \in U
  PROVE  /\ <<x>> \in Seq(U) /\ <<>> \in Seq(U)
         /\ \A u : u \in ToSet(<<x>>) <=> u = x
         /\ \A u : u \notin ToSet(<<>>)
<1>1. <<x>> \in Seq(U) /\ <<>> \in Seq(U)
  OBVIOUS
<1>2. DOMAIN <<x>> = {1} /\ <<x>>[1] = x
  OBVIOUS
<1>3. \A u : u \in ToSet(<<x>>) <=> u = x
  BY <1>2 DEF ToSet
<1>4. \A u : u \notin ToSet(<<>>)
  BY DEF ToSet
<1> QED
  BY <1>1, <1>3, <1>4

\* A sequence restricted to some of its places.
LEMMA PlacesFacts ==
  ASSUME NEW U, NEW seq \in Seq(U), NEW I
  PROVE  /\ Places(seq, I) \in Seq(U)
         /\ \A u : u \in ToSet(Places(seq, I)) <=> \E i \in 1..Len(seq) : i \in I /\ u = seq[i]
         /\ \A key : ApartIn(seq, I, key) => KeysApart(Places(seq, I), key)
<1> DEFINE ss == [i \in DOMAIN seq |-> IF i \in I THEN <<seq[i]>> ELSE <<>>]
<1>1. DOMAIN seq = 1..Len(seq) /\ Len(seq) \in Nat /\ \A i \in 1..Len(seq) : seq[i] \in U
  OBVIOUS
<1>2. \A i \in 1..Len(seq) : <<seq[i]>> \in Seq(U) /\ <<>> \in Seq(U)
  BY <1>1, SingleSet
<1>3. \A i \in 1..Len(seq) : ss[i] = IF i \in I THEN <<seq[i]>> ELSE <<>>
  BY <1>1
<1>4. ss \in Seq(Seq(U)) /\ Len(ss) = Len(seq)
  <2>1. ss \in [1..Len(seq) -> Seq(U)]
    BY <1>1, <1>2
  <2> HIDE DEF ss
  <2> QED
    BY <1>1, <2>1
<1>5. ASSUME NEW i \in 1..Len(seq), NEW u PROVE u \in ToSet(ss[i]) <=> i \in I /\ u = seq[i]
  <2>1. seq[i] \in U
    BY <1>1
  <2>2. CASE i \in I
    <3>1. ss[i] = <<seq[i]>>
      BY <1>3, <2>2
    <3> QED
      BY <2>1, <2>2, <3>1, SingleSet
  <2>3. CASE i \notin I
    <3>1. ss[i] = <<>>
      BY <1>3, <2>3
    <3> QED
      BY <2>1, <2>3, <3>1, SingleSet
  <2> QED
    BY <2>2, <2>3
<1>6. Places(seq, I) = FlattenSeq(ss)
  BY DEF Places
<1>7. ASSUME NEW key, ApartIn(seq, I, key) PROVE PartsApart(ss, key)
  <2>1. ASSUME NEW i \in 1..Len(seq) PROVE KeysApart(ss[i], key)
    <3>1. \A a, b \in 1..Len(ss[i]) : a = b
      <4>1. CASE i \in I
        <5>1. Len(ss[i]) = 1
          BY <1>3, <4>1
        <5> QED
          BY <5>1
      <4>2. CASE i \notin I
        <5>1. Len(ss[i]) = 0
          BY <1>3, <4>2
        <5> QED
          BY <5>1
      <4> QED
        BY <4>1, <4>2
    <3> QED
      BY <3>1 DEF KeysApart
  <2> HIDE DEF ss
  <2>2. ASSUME NEW i \in 1..Len(seq), NEW j \in 1..Len(seq), i # j,
               NEW x \in ToSet(ss[i]), NEW y \in ToSet(ss[j])
        PROVE  key[x] # key[y]
    <3>1. x = seq[i] /\ y = seq[j] /\ i \in I /\ j \in I
      BY <1>5
    <3> QED
      BY <1>7, <2>2, <3>1 DEF ApartIn
  <2> QED
    BY <1>4, <2>1, <2>2 DEF PartsApart
<1> HIDE DEF ss
<1>8. \A u : u \in ToSet(FlattenSeq(ss)) <=> \E i \in 1..Len(seq) : i \in I /\ u = seq[i]
  BY <1>4, <1>5, FlatSet
<1>9. FlattenSeq(ss) \in Seq(U)
  BY <1>4, FlatSet
<1>10. \A key : ApartIn(seq, I, key) => KeysApart(FlattenSeq(ss), key)
  BY <1>4, <1>7, FlatApart
<1> QED
  BY <1>6, <1>8, <1>9, <1>10

(* A finite set put in a sequence. *)
LEMMA SetToSeqFacts ==
  ASSUME NEW S, IsFiniteSet(S)
  PROVE  SetToSeq(S) \in Seq(S) /\ \A u : u \in ToSet(SetToSeq(S)) <=> u \in S
<1> DEFINE n == Cardinality(S)
           f == SetToSeq(S)
<1>1. n \in Nat /\ ExistsBijection(1..n, S)
  BY FS_CardinalityType
<1>2. PICK b : b \in Bijection(1..n, S)
  BY <1>1 DEF ExistsBijection
<1>3. b \in [1..n -> S] /\ IsInjective(b)
  BY <1>2 DEF Bijection, Injection, IsInjective
<1>4. f \in [1..n -> S] /\ IsInjective(f)
  BY <1>3 DEF SetToSeq
<1>5. f \in Injection(1..n, S)
  BY <1>4 DEF Injection, IsInjective
<1>6. IsFiniteSet(1..n) /\ Cardinality(1..n) = n
  BY <1>1, FS_Interval
<1> HIDE DEF f
<1>7. f \in Surjection(1..n, S)
  BY <1>5, <1>6, FS_Injection
<1>8. \A u \in S : \E i \in 1..n : f[i] = u
  BY <1>7 DEF Surjection
<1> HIDE DEF n
<1>9. f \in Seq(S) /\ DOMAIN f = 1..n
  BY <1>1, <1>4
<1>10. \A u : u \in ToSet(f) <=> u \in S
  BY <1>4, <1>8, <1>9 DEF ToSet
<1> QED
  BY <1>9, <1>10 DEF f

\* f maps the elements of x, place by place.
MapOf(f, x) == f = [i \in DOMAIN x |-> f[i]]

LEMMA MappedSeq ==
  ASSUME NEW U, NEW x \in Seq(U), NEW f, MapOf(f, x)
  PROVE  f \in Seq(ToSet(f)) /\ Len(f) = Len(x)
<1>1. DOMAIN x = 1..Len(x) /\ Len(x) \in Nat
  OBVIOUS
<1>2. f \in [1..Len(x) -> ToSet(f)]
  BY <1>1 DEF MapOf, ToSet
<1> QED
  BY <1>1, <1>2

(***************************************************************************)
(* Sections                                                                *)
(***************************************************************************)
IsSection(s) ==
  /\ s = [type |-> s.type, items |-> s.items, severity |-> s.severity,
          available |-> s.available, sources |-> s.sources]
  /\ s.items \in Seq(ToSet(s.items))

LEMMA SectionFacts ==
  ASSUME NEW type, NEW items, NEW severity, NEW sources, items \in Seq(ToSet(items))
  PROVE  /\ IsSection(Section(type, items, severity, sources))
         /\ Section(type, items, severity, sources).type = type
         /\ Section(type, items, severity, sources).items = items
BY DEF Section, IsSection

LEMMA UnavailableFacts ==
  ASSUME NEW type, NEW why, NEW severity
  PROVE  /\ IsSection(Unavailable(type, why, severity))
         /\ Unavailable(type, why, severity).type = type
         /\ Unavailable(type, why, severity).items = <<>>
         /\ Unavailable(type, why, severity).sources = << <<type, why>> >>
<1>1. <<>> \in Seq(ToSet(<<>>))
  OBVIOUS
<1> QED
  BY <1>1 DEF Unavailable, IsSection

LEMMA HouseFacts ==
  ASSUME NEW s \in Setups
  PROVE  /\ s.house.letters \in Seq(ToSet(s.house.letters))
         /\ s.house.world \in Seq(ToSet(s.house.world))
         /\ s.house.approvals \in Seq(ToSet(s.house.approvals))
         /\ s.house.skills \in Seq(ToSet(s.house.skills))
         /\ s.house.events \in Nat
BY BriefingConstantsOK

LEMMA SystemsIsSection ==
  ASSUME NEW house PROVE IsSection(SystemsSection(house)) /\ SystemsSection(house).type = "systems"
<1> DEFINE all == Readiness(house)
           U == ToSet(all)
           In(S) == Picked(all, LAMBDA s : s[2] \in S)
           X == In({"degraded", "error"}) \o In({"not_configured"})
           items == Mapped(X, LAMBDA s :
                      Item(<<"system", s[1]>>,
                         CASE s[2] = "error" -> "error" [] s[2] = "degraded" -> "warning"
                           [] OTHER -> "info", FALSE))
<1>1. all \in Seq(U)
  <2>1. DOMAIN all = 1..13 /\ all = [i \in 1..13 |-> all[i]]
    BY DEF Readiness
  <2> HIDE DEF all
  <2> QED
    BY <2>1 DEF ToSet
<1>2. \A S : In(S) \in Seq(U)
  <2> TAKE S
  <2> HIDE DEF all
  <2>1. In(S) = Places(all, {i \in DOMAIN all : all[i][2] \in S})
    BY DEF Picked, Places
  <2> HIDE DEF In
  <2> QED
    BY <1>1, <2>1, PlacesFacts
<1>3. X \in Seq(U)
  <2> HIDE DEF In, U
  <2>1. In({"degraded", "error"}) \in Seq(U) /\ In({"not_configured"}) \in Seq(U)
    BY <1>2
  <2> QED
    BY <2>1
<1>4. items \in Seq(ToSet(items))
  <2>1. MapOf(items, X)
    BY DEF MapOf, Mapped
  <2> HIDE DEF items, X, U
  <2> QED
    BY <1>3, <2>1, MappedSeq
<1>5. \E severity, sources : SystemsSection(house) = Section("systems", items, severity, sources)
  BY DEF SystemsSection
<1> HIDE DEF items
<1> QED
  BY <1>4, <1>5, SectionFacts

Names(items, id) == \E i \in 1..Len(items) : items[i].id = id

\* The facts that a collector selects, in a sequence.
LEMMA FactsListed ==
  ASSUME setup \in Setups, NEW S, S \subseteq setup.facts
  PROVE  SetToSeq(S) \in Seq(S) /\ \A u : u \in ToSet(SetToSeq(S)) <=> u \in S
<1>1. S \subseteq Facts /\ IsFiniteSet(Facts)
  BY BriefingConstantsOK
<1>2. IsFiniteSet(S)
  BY <1>1, FS_Subset
<1> QED
  BY <1>2, SetToSeqFacts

\* A mapped sequence names what its elements are named after.
LEMMA MappedNames ==
  ASSUME NEW U, NEW x \in Seq(U), NEW f, MapOf(f, x), NEW u \in ToSet(x), NEW id,
         \A i \in 1..Len(x) : x[i] = u => f[i].id = id
  PROVE  Names(f, id)
<1>1. DOMAIN x = 1..Len(x) /\ Len(x) \in Nat
  OBVIOUS
<1>2. PICK i \in 1..Len(x) : x[i] = u
  BY <1>1 DEF ToSet
<1>3. Len(f) = Len(x)
  BY MappedSeq
<1> QED
  BY <1>2, <1>3 DEF Names

LEMMA ConcatNames ==
  ASSUME NEW U, NEW s \in Seq(U), NEW t \in Seq(U), NEW id, Names(s, id) \/ Names(t, id)
  PROVE  Names(s \o t, id)
<1>1. Len(s \o t) = Len(s) + Len(t) /\ Len(s) \in Nat /\ Len(t) \in Nat
  OBVIOUS
<1>2. \A i \in 1..Len(s) : (s \o t)[i] = s[i] /\ i \in 1..(Len(s) + Len(t))
  OBVIOUS
<1>3. \A i \in 1..Len(t) : (s \o t)[i + Len(s)] = t[i] /\ i + Len(s) \in 1..(Len(s) + Len(t))
  OBVIOUS
<1> QED
  BY <1>1, <1>2, <1>3 DEF Names

\* Two sequences of anything, put together.
LEMMA TwoLists ==
  ASSUME NEW s, NEW t, s \in Seq(ToSet(s)), t \in Seq(ToSet(t))
  PROVE  /\ s \o t \in Seq(ToSet(s \o t))
         /\ \A id : Names(s, id) \/ Names(t, id) => Names(s \o t, id)
<1> DEFINE U == ToSet(s) \cup ToSet(t)
<1>1. s \in Seq(U) /\ t \in Seq(U)
  BY SeqMonotonic
<1>2. \A id : Names(s, id) \/ Names(t, id) => Names(s \o t, id)
  BY <1>1, ConcatNames
<1> HIDE DEF U
<1>3. s \o t \in Seq(U)
  BY <1>1
<1>4. \A x \in Seq(U) : x \in Seq(ToSet(x))
  <2> SUFFICES ASSUME NEW x \in Seq(U) PROVE x \in Seq(ToSet(x))
    OBVIOUS
  <2>1. MapOf(x, x)
    BY DEF MapOf
  <2> QED
    BY <2>1, MappedSeq
<1>5. s \o t \in Seq(ToSet(s \o t))
  BY <1>3, <1>4
<1> QED
  BY <1>2, <1>5

\* Each stored audit event that matters and is in the window is named.
LEMMA IncidentsFacts ==
  ASSUME setup \in Setups, NEW from, NEW to
  PROVE  /\ Incidents(from, to) \in Seq(ToSet(Incidents(from, to)))
         /\ \A f \in setup.facts :
              f.kind = "audit" /\ f.ends \in IncidentEvents /\ place[f] = "stored" /\ Within(f, from, to)
                => Names(Incidents(from, to), <<"fact", f.id>>)
<1> DEFINE S == {f \in setup.facts : /\ f.kind = "audit" /\ f.ends \in IncidentEvents
                                     /\ place[f] = "stored" /\ Within(f, from, to)}
           x == SetToSeq(S)
           y == Incidents(from, to)
<1>1. x \in Seq(S) /\ \A u : u \in ToSet(x) <=> u \in S
  <2>1. S \subseteq setup.facts
    OBVIOUS
  <2> HIDE DEF S
  <2> QED
    BY <2>1, FactsListed
<1>2. y = [i \in DOMAIN x |-> Item(<<"fact", x[i].id>>,
                                   IF x[i].ends = "error" THEN "error" ELSE "warning", FALSE)]
  BY DEF Incidents, Mapped, FactsIn
<1> HIDE DEF x, y
<1>3. MapOf(y, x) /\ \A i \in DOMAIN x : y[i].id = <<"fact", x[i].id>>
  BY <1>2 DEF Item, MapOf
<1>4. DOMAIN x = 1..Len(x)
  BY <1>1
<1>5. y \in Seq(ToSet(y))
  BY <1>1, <1>3, MappedSeq
<1>6. ASSUME NEW f \in ToSet(x) PROVE Names(y, <<"fact", f.id>>)
  <2>1. \A i \in 1..Len(x) : x[i] = f => y[i].id = <<"fact", f.id>>
    BY <1>3, <1>4
  <2>2. x \in Seq(setup.facts)
    BY <1>1, SeqMonotonic
  <2>3. MapOf(y, x)
    BY <1>3
  <2> QED
    BY <1>6, <2>1, <2>2, <2>3, MappedNames
<1> QED
  BY <1>1, <1>5, <1>6 DEF y

\* And so is each task that was completed or cancelled in the window.
LEMMA ActivityFacts ==
  ASSUME setup \in Setups, NEW from, NEW to
  PROVE  /\ IsSection(ActivitySection(from, to)) /\ ActivitySection(from, to).type = "activity"
         /\ \A f \in setup.facts :
              Tellable(f) /\ SourceOf(f) = "activity" /\ place[f] = "stored" /\ Within(f, from, to)
                => Names(ActivitySection(from, to).items, <<"fact", f.id>>)
<1> DEFINE S(status) == {f \in setup.facts : /\ f.kind = "task" /\ f.ends = status
                                             /\ place[f] = "stored" /\ Within(f, from, to)}
           done == SetToSeq(S("completed"))
           off == SetToSeq(S("cancelled"))
           x == done \o off
           y == [i \in DOMAIN x |-> Item(<<"fact", x[i].id>>,
                                   IF x[i].ends = "completed" THEN "success" ELSE "info", FALSE)]
           items == y \o Incidents(from, to)
<1>1. \E severity, sources :
        ActivitySection(from, to) = Section("activity", items, severity, sources)
  BY DEF ActivitySection, Mapped, FactsIn
<1>2. /\ done \in Seq(setup.facts) /\ \A u : u \in ToSet(done) <=> u \in S("completed")
      /\ off \in Seq(setup.facts) /\ \A u : u \in ToSet(off) <=> u \in S("cancelled")
  <2>1. \A status : S(status) \subseteq setup.facts
    OBVIOUS
  <2> HIDE DEF S
  <2>2. \A status : /\ SetToSeq(S(status)) \in Seq(S(status))
                    /\ \A u : u \in ToSet(SetToSeq(S(status))) <=> u \in S(status)
    BY <2>1, FactsListed
  <2> QED
    BY <2>1, <2>2, SeqMonotonic
<1> HIDE DEF done, off
<1>3. x \in Seq(setup.facts) /\ \A u : u \in ToSet(x) <=> u \in ToSet(done) \/ u \in ToSet(off)
  BY <1>2, ConcatSet
<1> HIDE DEF x
<1>4. MapOf(y, x) /\ \A i \in DOMAIN x : y[i].id = <<"fact", x[i].id>>
  BY DEF Item, MapOf
<1> HIDE DEF y
<1>5. y \in Seq(ToSet(y))
  BY <1>3, <1>4, MappedSeq
<1>6. ASSUME NEW f \in ToSet(x) PROVE Names(y, <<"fact", f.id>>)
  <2>1. PICK id : id = <<"fact", f.id>>
    OBVIOUS
  <2>2. \A i \in 1..Len(x) : x[i] = f => y[i].id = id
    BY <1>3, <1>4, <2>1
  <2>3. x \in Seq(setup.facts) /\ MapOf(y, x)
    BY <1>3, <1>4
  <2>4. Names(y, id)
    BY <1>6, <2>2, <2>3, MappedNames
  <2> QED
    BY <2>1, <2>4
<1>7. /\ items \in Seq(ToSet(items))
      /\ \A id : Names(y, id) \/ Names(Incidents(from, to), id) => Names(items, id)
  BY <1>5, IncidentsFacts, TwoLists
<1> HIDE DEF items
<1>8. /\ IsSection(ActivitySection(from, to)) /\ ActivitySection(from, to).type = "activity"
      /\ ActivitySection(from, to).items = items
  BY <1>1, <1>7, SectionFacts
<1>9. ASSUME NEW f \in setup.facts, Tellable(f), SourceOf(f) = "activity", place[f] = "stored",
             Within(f, from, to)
      PROVE  Names(items, <<"fact", f.id>>)
  <2>1. f.kind # "agent"
    BY <1>9 DEF SourceOf
  <2>2. CASE f.kind = "task" /\ f.ends \in {"completed", "cancelled"}
    <3>1. f \in S("completed") \/ f \in S("cancelled")
      BY <1>9, <2>2
    <3>2. f \in ToSet(x)
      BY <1>2, <1>3, <3>1
    <3> QED
      BY <1>6, <1>7, <3>2
  <2>3. CASE f.kind = "audit" /\ f.ends \in IncidentEvents
    BY <1>7, <1>9, <2>3, IncidentsFacts
  <2> QED
    BY <1>9, <2>1, <2>2, <2>3 DEF Tellable
<1> QED
  BY <1>8, <1>9

\* And each agent that ended in it, whatever the copy of the active ones has.
LEMMA AgentsFacts ==
  ASSUME setup \in Setups, NEW active, active \in Seq(setup.facts), NEW from, NEW to
  PROVE  /\ IsSection(AgentsSection(active, from, to))
         /\ AgentsSection(active, from, to).type = "agents"
         /\ \A f \in setup.facts :
              Tellable(f) /\ SourceOf(f) = "agents" /\ place[f] = "stored" /\ Within(f, from, to)
                => Names(AgentsSection(active, from, to).items, <<"fact", f.id>>)
<1> DEFINE S(status) == {f \in setup.facts : /\ f.kind = "agent" /\ f.ends = status
                                             /\ place[f] = "stored" /\ Within(f, from, to)}
           lost == SetToSeq(S("FAILED"))
           done == SetToSeq(S("COMPLETED"))
           y1 == [i \in DOMAIN active |-> AgentItem(active[i], active[i].status)]
           y2 == [i \in DOMAIN lost |-> AgentItem(lost[i], "FAILED")]
           y3 == [i \in DOMAIN done |-> AgentItem(done[i], "COMPLETED")]
           items == y1 \o y2 \o y3
<1>1. \E severity, sources :
        AgentsSection(active, from, to) = Section("agents", items, severity, sources)
  BY DEF AgentsSection, Mapped, FactsIn
<1>2. /\ lost \in Seq(setup.facts) /\ \A u : u \in ToSet(lost) <=> u \in S("FAILED")
      /\ done \in Seq(setup.facts) /\ \A u : u \in ToSet(done) <=> u \in S("COMPLETED")
  <2>1. \A status : S(status) \subseteq setup.facts
    OBVIOUS
  <2> HIDE DEF S
  <2>2. \A status : /\ SetToSeq(S(status)) \in Seq(S(status))
                    /\ \A u : u \in ToSet(SetToSeq(S(status))) <=> u \in S(status)
    BY <2>1, FactsListed
  <2> QED
    BY <2>1, <2>2, SeqMonotonic
<1> HIDE DEF lost, done
<1>3. MapOf(y1, active)
  BY DEF MapOf
<1>4. MapOf(y2, lost) /\ \A i \in DOMAIN lost : y2[i].id = <<"fact", lost[i].id>>
  BY DEF MapOf, AgentItem, Item
<1>5. MapOf(y3, done) /\ \A i \in DOMAIN done : y3[i].id = <<"fact", done[i].id>>
  BY DEF MapOf, AgentItem, Item
<1> HIDE DEF y1, y2, y3
<1>6. y1 \in Seq(ToSet(y1)) /\ y2 \in Seq(ToSet(y2)) /\ y3 \in Seq(ToSet(y3))
  BY <1>2, <1>3, <1>4, <1>5, MappedSeq
<1>7. ASSUME NEW f \in ToSet(lost) PROVE Names(y2, <<"fact", f.id>>)
  <2>1. PICK id : id = <<"fact", f.id>>
    OBVIOUS
  <2>2. \A i \in 1..Len(lost) : lost[i] = f => y2[i].id = id
    BY <1>2, <1>4, <2>1
  <2>3. lost \in Seq(setup.facts) /\ MapOf(y2, lost)
    BY <1>2, <1>4
  <2>4. Names(y2, id)
    BY <1>7, <2>2, <2>3, MappedNames
  <2> QED
    BY <2>1, <2>4
<1>8. ASSUME NEW f \in ToSet(done) PROVE Names(y3, <<"fact", f.id>>)
  <2>1. PICK id : id = <<"fact", f.id>>
    OBVIOUS
  <2>2. \A i \in 1..Len(done) : done[i] = f => y3[i].id = id
    BY <1>2, <1>5, <2>1
  <2>3. done \in Seq(setup.facts) /\ MapOf(y3, done)
    BY <1>2, <1>5
  <2>4. Names(y3, id)
    BY <1>8, <2>2, <2>3, MappedNames
  <2> QED
    BY <2>1, <2>4
<1>9. /\ items \in Seq(ToSet(items))
      /\ \A id : Names(y2, id) \/ Names(y3, id) => Names(items, id)
  <2> DEFINE y12 == y1 \o y2
  <2>1. y12 \in Seq(ToSet(y12)) /\ \A id : Names(y2, id) => Names(y12, id)
    BY <1>6, TwoLists
  <2>2. items = y12 \o y3
    OBVIOUS
  <2> HIDE DEF y12, items
  <2>3. /\ y12 \o y3 \in Seq(ToSet(y12 \o y3))
        /\ \A id : Names(y12, id) \/ Names(y3, id) => Names(y12 \o y3, id)
    BY <1>6, <2>1, TwoLists
  <2> QED
    BY <2>1, <2>2, <2>3
<1> HIDE DEF items
<1>10. /\ IsSection(AgentsSection(active, from, to)) /\ AgentsSection(active, from, to).type = "agents"
       /\ AgentsSection(active, from, to).items = items
  BY <1>1, <1>9, SectionFacts
<1>11. ASSUME NEW f \in setup.facts, Tellable(f), SourceOf(f) = "agents", place[f] = "stored",
              Within(f, from, to)
       PROVE  Names(items, <<"fact", f.id>>)
  <2>1. f.kind = "agent"
    BY <1>11 DEF SourceOf
  <2>2. f \in S("FAILED") \/ f \in S("COMPLETED")
    BY <1>11, <2>1 DEF Tellable
  <2>3. f \in ToSet(lost) \/ f \in ToSet(done)
    BY <1>2, <2>2
  <2> QED
    BY <1>7, <1>8, <1>9, <2>3
<1> QED
  BY <1>10, <1>11

LEMMA MessagesIsSection ==
  ASSUME NEW house, house.letters \in Seq(ToSet(house.letters))
  PROVE  IsSection(MessagesSection(house)) /\ MessagesSection(house).type = "messages"
<1> DEFINE items == [i \in DOMAIN house.letters |->
                       Item(<<"message", i>>,
                            IF house.letters[i] \in {"urgent", "important"} THEN "warning"
                            ELSE "info", FALSE)]
<1>1. CASE house.mail = "none"
  <2>1. MessagesSection(house) = Unavailable("messages", "not_configured", "info")
    BY <1>1 DEF MessagesSection
  <2> QED
    BY <2>1, UnavailableFacts
<1>2. CASE house.mail # "none"
  <2>1. \E severity, sources :
          MessagesSection(house) = Section("messages", items, severity, sources)
    BY <1>2 DEF MessagesSection
  <2>2. MapOf(items, house.letters)
    BY DEF MapOf
  <2> HIDE DEF items
  <2>3. items \in Seq(ToSet(items))
    BY <2>2, MappedSeq
  <2> QED
    BY <2>1, <2>3, SectionFacts
<1> QED
  BY <1>1, <1>2

LEMMA ScheduleIsSection ==
  ASSUME NEW house, house.events \in Nat
  PROVE  IsSection(ScheduleSection(house)) /\ ScheduleSection(house).type = "schedule"
<1> DEFINE items == [i \in 1..house.events |-> Item(<<"event", i>>, "info", FALSE)]
<1>1. CASE house.calendar = "none"
  <2>1. ScheduleSection(house) = Unavailable("schedule", "not_configured", "info")
    BY <1>1 DEF ScheduleSection
  <2> QED
    BY <2>1, UnavailableFacts
<1>2. CASE house.calendar # "none"
  <2>1. \E severity, sources :
          ScheduleSection(house) = Section("schedule", items, severity, sources)
    BY <1>2 DEF ScheduleSection
  <2>2. items \in [1..house.events -> ToSet(items)]
    BY DEF ToSet
  <2> HIDE DEF items
  <2>3. items \in Seq(ToSet(items))
    BY <2>2
  <2> QED
    BY <2>1, <2>3, SectionFacts
<1> QED
  BY <1>1, <1>2

LEMMA WorldIsSection ==
  ASSUME NEW house
  PROVE  IsSection(WorldSection(house)) /\ WorldSection(house).type = "world"
<1> DEFINE none == Unavailable("world", "not_configured", "info")
<1>1. IsSection(none) /\ none.type = "world"
  BY UnavailableFacts
<1>2. \E sources : WorldSection(house) = [none EXCEPT !.sources = sources]
  BY DEF WorldSection
<1> HIDE DEF none
<1> QED
  BY <1>1, <1>2 DEF IsSection

LEMMA ApprovalsIsSection ==
  ASSUME NEW house, house.approvals \in Seq(ToSet(house.approvals))
  PROVE  IsSection(ApprovalsSection(house)) /\ ApprovalsSection(house).type = "approvals"
<1> DEFINE all == house.approvals
           U == ToSet(all)
           With(status) == Picked(all, LAMBDA a : a.status = status)
           X == With("pending") \o With("expired")
           items == Mapped(X, LAMBDA a :
                      Item(<<"approval", a.id>>,
                        CASE a.risk = "blocked" -> "critical"
                          [] a.risk \in {"high", "critical"} -> "error"
                          [] a.risk = "medium" -> "warning"
                          [] OTHER -> "info", TRUE))
<1>1. \A status : With(status) \in Seq(U)
  <2> TAKE status
  <2>1. With(status) = Places(all, {i \in DOMAIN all : all[i].status = status})
    BY DEF Picked, Places
  <2> HIDE DEF With
  <2> QED
    BY <2>1, PlacesFacts
<1>2. X \in Seq(U)
  <2> HIDE DEF With, U
  <2>1. With("pending") \in Seq(U) /\ With("expired") \in Seq(U)
    BY <1>1
  <2> QED
    BY <2>1
<1>3. items \in Seq(ToSet(items))
  <2>1. MapOf(items, X)
    BY DEF Mapped, MapOf
  <2> HIDE DEF items, X, U
  <2> QED
    BY <1>2, <2>1, MappedSeq
<1>4. \E severity, sources : ApprovalsSection(house) = Section("approvals", items, severity, sources)
  BY DEF ApprovalsSection
<1> HIDE DEF items
<1> QED
  BY <1>3, <1>4, SectionFacts

LEMMA SkillsIsSection ==
  ASSUME NEW house, house.skills \in Seq(ToSet(house.skills))
  PROVE  IsSection(SkillsSection(house)) /\ SkillsSection(house).type = "skills"
<1> DEFINE all == house.skills
           U == ToSet(all)
           In(S) == Picked(all, LAMBDA s : s.status \in S)
           X == In({"approval_required"}) \o In({"learning", "evaluating"}) \o In({"recommended"})
                  \o In({"learned"})
           items == Mapped(X, LAMBDA s :
                      Item(<<"skill", s.id>>,
                         IF s.status = "approval_required" THEN "warning" ELSE "info", s.approval))
<1>1. \A S : In(S) \in Seq(U)
  <2> TAKE S
  <2>1. In(S) = Places(all, {i \in DOMAIN all : all[i].status \in S})
    BY DEF Picked, Places
  <2> HIDE DEF In
  <2> QED
    BY <2>1, PlacesFacts
<1>2. X \in Seq(U)
  <2> HIDE DEF In, U
  <2>1. /\ In({"approval_required"}) \in Seq(U) /\ In({"learning", "evaluating"}) \in Seq(U)
        /\ In({"recommended"}) \in Seq(U) /\ In({"learned"}) \in Seq(U)
    BY <1>1
  <2> QED
    BY <2>1
<1>3. items \in Seq(ToSet(items))
  <2>1. MapOf(items, X)
    BY DEF Mapped, MapOf
  <2> HIDE DEF items, X, U
  <2> QED
    BY <1>2, <2>1, MappedSeq
<1>4. \E severity, sources : SkillsSection(house) = Section("skills", items, severity, sources)
  BY DEF SkillsSection
<1> HIDE DEF items
<1> QED
  BY <1>3, <1>4, SectionFacts

\* Whatever a collector finds is a section of its type; it names each fact of its
\* source that is stored and in the window.
LEMMA SectionOfFacts ==
  ASSUME setup \in Setups, NEW c, NEW k \in ToSet(CollectorNames),
         call[c].active \in Seq(setup.facts)
  PROVE  /\ IsSection(SectionOf(c, k)) /\ SectionOf(c, k).type = k
         /\ \A f \in setup.facts :
              /\ Tellable(f) /\ SourceOf(f) = k
              /\ place[f] = "stored" /\ Within(f, call[c].start, call[c].at)
              => Names(SectionOf(c, k).items, <<"fact", f.id>>)
<1>1. k \in {"systems", "activity", "agents", "messages", "schedule", "world", "approvals", "skills"}
  BY DEF ToSet, CollectorNames
<1>2. \A f : SourceOf(f) \in {"agents", "activity"}
  BY DEF SourceOf
<1>3. CASE k = "systems"
  BY <1>2, <1>3, SystemsIsSection DEF SectionOf
<1>4. CASE k = "activity"
  <2>1. SectionOf(c, k) = ActivitySection(call[c].start, call[c].at)
    BY <1>4 DEF SectionOf
  <2> QED
    BY <1>4, <2>1, ActivityFacts
<1>5. CASE k = "agents"
  <2>1. SectionOf(c, k) = AgentsSection(call[c].active, call[c].start, call[c].at)
    BY <1>5 DEF SectionOf
  <2> QED
    BY <1>5, <2>1, AgentsFacts
<1>6. CASE k = "messages"
  BY <1>2, <1>6, HouseFacts, MessagesIsSection DEF SectionOf
<1>7. CASE k = "schedule"
  BY <1>2, <1>7, HouseFacts, ScheduleIsSection DEF SectionOf
<1>8. CASE k = "world"
  BY <1>2, <1>8, WorldIsSection DEF SectionOf
<1>9. CASE k = "approvals"
  BY <1>2, <1>9, HouseFacts, ApprovalsIsSection DEF SectionOf
<1>10. CASE k = "skills"
  BY <1>2, <1>10, HouseFacts, SkillsIsSection DEF SectionOf
<1> QED
  BY <1>1, <1>3, <1>4, <1>5, <1>6, <1>7, <1>8, <1>9, <1>10

(***************************************************************************)
(* Composing                                                               *)
(***************************************************************************)
LEMMA FunctionSeq ==
  ASSUME NEW T, NEW n \in Nat, NEW f \in [1..n -> T]
  PROVE  f \in Seq(T) /\ Len(f) = n
OBVIOUS

\* Ordering drops no section and makes none up.
LEMMA InOrderFacts ==
  ASSUME NEW Q, NEW T, Q \in Seq(T), \A s \in ToSet(Q) : s.type \in ToSet(CollectorNames)
  PROVE  /\ InOrder(Q) \in Seq(T)
         /\ \A s : s \in ToSet(InOrder(Q)) <=> s \in ToSet(Q)
<1> DEFINE I(n) == {i \in DOMAIN Q : Q[i].type = CollectorNames[n]}
           ss == [n \in DOMAIN CollectorNames |-> Places(Q, I(n))]
<1>1. InOrder(Q) = FlattenSeq(ss)
  BY DEF InOrder, Mapped, Picked, Places
<1>2. DOMAIN CollectorNames = 1..8
  BY DEF CollectorNames
<1>3. \A n : /\ Places(Q, I(n)) \in Seq(T)
             /\ \A u : u \in ToSet(Places(Q, I(n))) <=> \E i \in 1..Len(Q) : i \in I(n) /\ u = Q[i]
  <2> HIDE DEF I
  <2> QED
    BY PlacesFacts
<1>4. ss \in Seq(Seq(T)) /\ Len(ss) = 8
  <2>1. ss \in [1..8 -> Seq(T)]
    BY <1>2, <1>3
  <2> HIDE DEF ss
  <2>2. PICK k, R : k \in Nat /\ k = 8 /\ R = Seq(T)
    OBVIOUS
  <2>3. ss \in [1..k -> R]
    BY <2>1, <2>2
  <2>4. ss \in Seq(R) /\ Len(ss) = k
    BY <2>2, <2>3, FunctionSeq
  <2> QED
    BY <2>2, <2>4
<1>5. \A n \in 1..8 : ss[n] = Places(Q, I(n))
  BY <1>2
<1> HIDE DEF ss
<1>6. FlattenSeq(ss) \in Seq(T) /\ \A u : u \in ToSet(FlattenSeq(ss)) <=> \E n \in 1..8 : u \in ToSet(ss[n])
  BY <1>4, FlatSet
<1>7. DOMAIN Q = 1..Len(Q)
  OBVIOUS
<1>8. ASSUME NEW s, s \in ToSet(FlattenSeq(ss)) PROVE s \in ToSet(Q)
  <2>1. PICK n \in 1..8 : s \in ToSet(Places(Q, I(n)))
    BY <1>5, <1>6, <1>8
  <2>2. PICK i \in 1..Len(Q) : s = Q[i]
    <3> HIDE DEF I
    <3> QED
      BY <1>3, <2>1
  <2> QED
    BY <1>7, <2>2 DEF ToSet
<1>9. ASSUME NEW s, s \in ToSet(Q) PROVE s \in ToSet(FlattenSeq(ss))
  <2>1. PICK i \in 1..Len(Q) : s = Q[i]
    BY <1>7, <1>9 DEF ToSet
  <2>2. PICK n \in 1..8 : s.type = CollectorNames[n]
    BY <1>2, <1>9 DEF ToSet
  <2>3. i \in I(n)
    BY <1>7, <2>1, <2>2
  <2>4. s \in ToSet(Places(Q, I(n)))
    BY <1>3, <2>1, <2>3
  <2> QED
    BY <1>5, <1>6, <2>4
<1> QED
  BY <1>1, <1>6, <1>8, <1>9

\* The items of the sections, and the key by which they are told apart.
ItemsOf(S) == UNION {ToSet(S[s].items) : s \in DOMAIN S}
IdKey(S) == [u \in ItemsOf(S) |-> u.id]

\* The places of section s whose item no earlier one has the id of.
SeenBefore(S, s, i) ==
  \/ \E j \in 1..(i - 1) : S[s].items[j].id = S[s].items[i].id
  \/ \E r \in 1..(s - 1) : \E j \in DOMAIN S[r].items : S[r].items[j].id = S[s].items[i].id
Fresh(S, s) == {i \in DOMAIN S[s].items : ~SeenBefore(S, s, i)}

\* _deduplicate keeps of each section the places that are fresh.
LEMMA DeduplicateIs ==
  ASSUME NEW S, NEW T, S \in Seq(T), \A s \in T : IsSection(s)
  PROVE  /\ DOMAIN Deduplicate(S) = 1..Len(S)
         /\ \A s \in 1..Len(S) :
              /\ Deduplicate(S)[s].items = Places(S[s].items, Fresh(S, s))
              /\ Deduplicate(S)[s].sources = S[s].sources
<1> DEFINE Ids(items, span) == {items[i].id : i \in span}
           Seen(s, i) == Ids(S[s].items, 1..(i - 1))
                           \cup UNION {Ids(S[r].items, DOMAIN S[r].items) : r \in 1..(s - 1)}
           New(s, i) == IF S[s].items[i].id \in Seen(s, i) THEN <<>> ELSE <<S[s].items[i]>>
           Flat(s) == FlattenSeq([i \in DOMAIN S[s].items |-> New(s, i)])
<1>1. DOMAIN S = 1..Len(S) /\ \A s \in 1..Len(S) : IsSection(S[s])
  OBVIOUS
<1>2. Deduplicate(S) = [s \in DOMAIN S |-> [S[s] EXCEPT !.items = Flat(s)]]
  BY DEF Deduplicate
<1>3. ASSUME NEW s \in 1..Len(S) PROVE Flat(s) = Places(S[s].items, Fresh(S, s))
  <2>1. \A i : S[s].items[i].id \in Seen(s, i) <=> SeenBefore(S, s, i)
    BY DEF SeenBefore
  <2> HIDE DEF Seen
  <2>2. ASSUME NEW i \in DOMAIN S[s].items
        PROVE  New(s, i) = IF i \in Fresh(S, s) THEN <<S[s].items[i]>> ELSE <<>>
    BY <2>1, <2>2 DEF Fresh
  <2> HIDE DEF New
  <2>3. [i \in DOMAIN S[s].items |-> New(s, i)]
          = [i \in DOMAIN S[s].items |-> IF i \in Fresh(S, s) THEN <<S[s].items[i]>> ELSE <<>>]
    BY <2>2
  <2> QED
    BY <2>3 DEF Places
<1> HIDE DEF Flat
<1>4. DOMAIN Deduplicate(S) = 1..Len(S)
  BY <1>1, <1>2
<1>5. ASSUME NEW s \in 1..Len(S)
      PROVE  Deduplicate(S)[s].items = Flat(s) /\ Deduplicate(S)[s].sources = S[s].sources
  <2>1. Deduplicate(S)[s] = [S[s] EXCEPT !.items = Flat(s)]
    BY <1>1, <1>2
  <2>2. IsSection(S[s])
    BY <1>1
  <2> QED
    BY <2>1, <2>2 DEF IsSection
<1> QED
  BY <1>3, <1>4, <1>5

\* An item's id has a first place, and nothing before that place has it.
LEMMA FirstPlace ==
  ASSUME NEW S, NEW T, S \in Seq(T), \A s \in T : IsSection(s), NEW id,
         NEW r \in 1..Len(S), Names(S[r].items, id)
  PROVE  \E s \in 1..Len(S) : \E i \in 1..Len(S[s].items) :
           S[s].items[i].id = id /\ ~SeenBefore(S, s, i)
<1> DEFINE Here(s) == {i \in 1..Len(S[s].items) : S[s].items[i].id = id}
           Where == {s \in 1..Len(S) : Here(s) # {}}
<1>1. Len(S) \in Nat /\ \A s \in 1..Len(S) : DOMAIN S[s].items = 1..Len(S[s].items)
                                             /\ Len(S[s].items) \in Nat
  BY DEF IsSection
<1>2. Where \subseteq Nat /\ Where # {}
  BY <1>1 DEF Names
<1>3. PICK s \in Where : \A q \in Where : ~(q < s)
  <2> HIDE DEF Where
  <2> QED
    BY <1>2, NatMin
<1>4. s \in 1..Len(S) /\ Here(s) # {}
  OBVIOUS
<1>5. PICK i \in Here(s) : \A j \in Here(s) : ~(j < i)
  <2>1. Here(s) \subseteq Nat
    OBVIOUS
  <2> HIDE DEF Here
  <2> QED
    BY <1>4, <2>1, NatMin
<1>6. i \in 1..Len(S[s].items) /\ S[s].items[i].id = id
  OBVIOUS
<1>7. \A j \in 1..(i - 1) : S[s].items[j].id # id
  <2> SUFFICES ASSUME NEW j \in 1..(i - 1), S[s].items[j].id = id PROVE FALSE
    OBVIOUS
  <2>1. j \in 1..Len(S[s].items) /\ j < i
    BY <1>1, <1>4, <1>6
  <2> QED
    BY <1>5, <2>1
<1>8. \A q \in 1..(s - 1) : \A j \in DOMAIN S[q].items : S[q].items[j].id # id
  <2> SUFFICES ASSUME NEW q \in 1..(s - 1), NEW j \in DOMAIN S[q].items, S[q].items[j].id = id
               PROVE  FALSE
    OBVIOUS
  <2>1. q \in 1..Len(S) /\ q < s
    BY <1>1, <1>4
  <2>2. j \in Here(q)
    BY <1>1, <2>1
  <2> QED
    BY <1>3, <2>1, <2>2
<1>9. ~SeenBefore(S, s, i)
  BY <1>6, <1>7, <1>8 DEF SeenBefore
<1> QED
  BY <1>4, <1>6, <1>9

\* The items that are left: every id once.
LEMMA AllItemsFacts ==
  ASSUME NEW S, NEW T, S \in Seq(T), \A s \in T : IsSection(s)
  PROVE  /\ AllItems(Deduplicate(S)) \in Seq(ItemsOf(S))
         /\ KeysApart(AllItems(Deduplicate(S)), IdKey(S))
         /\ \A id : (\E s \in 1..Len(S) : Names(S[s].items, id))
                      => Names(AllItems(Deduplicate(S)), id)
<1> DEFINE U == ItemsOf(S)
           D == Deduplicate(S)
           key == IdKey(S)
           ss == [s \in DOMAIN D |-> D[s].items]
<1>1. DOMAIN D = 1..Len(S) /\ \A s \in 1..Len(S) : D[s].items = Places(S[s].items, Fresh(S, s))
  BY DeduplicateIs
<1>2. Len(S) \in Nat /\ DOMAIN S = 1..Len(S) /\ \A s \in 1..Len(S) : IsSection(S[s])
  OBVIOUS
<1>3. \A s \in 1..Len(S) : /\ S[s].items \in Seq(U) /\ Len(S[s].items) \in Nat
                           /\ DOMAIN S[s].items = 1..Len(S[s].items)
  <2> SUFFICES ASSUME NEW s \in 1..Len(S)
               PROVE  /\ S[s].items \in Seq(U) /\ Len(S[s].items) \in Nat
                      /\ DOMAIN S[s].items = 1..Len(S[s].items)
    OBVIOUS
  <2>1. S[s].items \in Seq(ToSet(S[s].items))
    BY <1>2 DEF IsSection
  <2>2. ToSet(S[s].items) \subseteq U
    BY <1>2 DEF ItemsOf
  <2>3. S[s].items \in Seq(U)
    BY <2>1, <2>2, SeqMonotonic
  <2> QED
    BY <2>3
<1> HIDE DEF U, key
<1>4. \A s \in 1..Len(S) :
        /\ Places(S[s].items, Fresh(S, s)) \in Seq(U)
        /\ \A u : u \in ToSet(Places(S[s].items, Fresh(S, s)))
                    <=> \E i \in 1..Len(S[s].items) : i \in Fresh(S, s) /\ u = S[s].items[i]
        /\ ApartIn(S[s].items, Fresh(S, s), key) => KeysApart(Places(S[s].items, Fresh(S, s)), key)
  BY <1>3, PlacesFacts
<1>5. \A s \in 1..Len(S) : ss[s] = Places(S[s].items, Fresh(S, s))
  BY <1>1
<1>6. ss \in Seq(Seq(U)) /\ Len(ss) = Len(S)
  <2>1. ss \in [1..Len(S) -> Seq(U)]
    BY <1>1, <1>4
  <2> HIDE DEF ss
  <2> QED
    BY <1>2, <2>1, FunctionSeq
<1>7. AllItems(D) = FlattenSeq(ss)
  BY DEF AllItems, Mapped
<1> HIDE DEF ss, D
<1>8. \A u \in U : key[u] = u.id
  BY DEF key, U, IdKey
<1>9. ASSUME NEW s \in 1..Len(S), NEW i \in 1..Len(S[s].items), NEW r \in 1..Len(S),
             NEW j \in 1..Len(S[r].items), i \in Fresh(S, s), j \in Fresh(S, r), s # r \/ i # j
      PROVE  key[S[s].items[i]] # key[S[r].items[j]]
  <2>1. S[s].items[i] \in U /\ S[r].items[j] \in U
    BY <1>3
  <2>2. ~SeenBefore(S, s, i) /\ ~SeenBefore(S, r, j)
    BY <1>9 DEF Fresh
  <2>3. S[s].items[i].id # S[r].items[j].id
    <3>1. CASE r < s
      <4>1. r \in 1..(s - 1) /\ j \in DOMAIN S[r].items
        BY <1>2, <1>3, <3>1
      <4> QED
        BY <2>2, <4>1 DEF SeenBefore
    <3>2. CASE s < r
      <4>1. s \in 1..(r - 1) /\ i \in DOMAIN S[s].items
        BY <1>2, <1>3, <3>2
      <4> QED
        BY <2>2, <4>1 DEF SeenBefore
    <3>3. CASE s = r /\ j < i
      <4>1. j \in 1..(i - 1)
        BY <1>3, <3>3
      <4> QED
        BY <2>2, <3>3, <4>1 DEF SeenBefore
    <3>4. CASE s = r /\ i < j
      <4>1. i \in 1..(j - 1)
        BY <1>3, <3>4
      <4> QED
        BY <2>2, <3>4, <4>1 DEF SeenBefore
    <3>5. i \in Nat /\ j \in Nat /\ s \in Nat /\ r \in Nat
      OBVIOUS
    <3> QED
      BY <1>9, <3>1, <3>2, <3>3, <3>4, <3>5
  <2> QED
    BY <1>8, <2>1, <2>3
<1>10. PartsApart(ss, key)
  <2>1. ASSUME NEW s \in 1..Len(S) PROVE KeysApart(ss[s], key)
    <3>1. ApartIn(S[s].items, Fresh(S, s), key)
      BY <1>9 DEF ApartIn
    <3> QED
      BY <1>4, <1>5, <3>1
  <2>2. ASSUME NEW s \in 1..Len(S), NEW r \in 1..Len(S), s # r,
               NEW x \in ToSet(ss[s]), NEW y \in ToSet(ss[r])
        PROVE  key[x] # key[y]
    <3>1. x \in ToSet(Places(S[s].items, Fresh(S, s))) /\ y \in ToSet(Places(S[r].items, Fresh(S, r)))
      BY <1>5, <2>2
    <3>2. \A q \in 1..Len(S) : \A u : u \in ToSet(Places(S[q].items, Fresh(S, q)))
                    => \E i \in 1..Len(S[q].items) : i \in Fresh(S, q) /\ u = S[q].items[i]
      BY <1>4
    <3>3. PICK i \in 1..Len(S[s].items) : i \in Fresh(S, s) /\ x = S[s].items[i]
      BY <3>1, <3>2
    <3>4. PICK j \in 1..Len(S[r].items) : j \in Fresh(S, r) /\ y = S[r].items[j]
      BY <3>1, <3>2
    <3> QED
      BY <1>9, <2>2, <3>3, <3>4
  <2> QED
    BY <1>6, <2>1, <2>2 DEF PartsApart
<1>11. KeysApart(FlattenSeq(ss), key)
  BY <1>6, <1>10, FlatApart
<1>12. FlattenSeq(ss) \in Seq(U) /\ \A u : u \in ToSet(FlattenSeq(ss)) <=> \E s \in 1..Len(S) : u \in ToSet(ss[s])
  BY <1>6, FlatSet
<1>13. ASSUME NEW id, NEW r \in 1..Len(S), Names(S[r].items, id)
       PROVE  Names(FlattenSeq(ss), id)
  <2>0. PICK s \in 1..Len(S) : \E i \in 1..Len(S[s].items) :
          S[s].items[i].id = id /\ ~SeenBefore(S, s, i)
    BY <1>13, FirstPlace
  <2>1. PICK i \in 1..Len(S[s].items) : S[s].items[i].id = id /\ ~SeenBefore(S, s, i)
    BY <2>0
  <2>2. i \in Fresh(S, s)
    BY <1>3, <2>1 DEF Fresh
  <2>3. S[s].items[i] \in ToSet(ss[s])
    BY <1>4, <1>5, <2>2
  <2>4. S[s].items[i] \in ToSet(FlattenSeq(ss))
    BY <1>12, <2>3
  <2>5. DOMAIN FlattenSeq(ss) = 1..Len(FlattenSeq(ss))
    BY <1>12
  <2>6. PICK n \in 1..Len(FlattenSeq(ss)) : FlattenSeq(ss)[n] = S[s].items[i]
    BY <2>4, <2>5 DEF ToSet
  <2> QED
    BY <2>1, <2>6 DEF Names
<1> QED
  BY <1>7, <1>11, <1>12, <1>13 DEF U, D, key

LEMMA MinOfTwo ==
  ASSUME NEW m \in Nat, NEW n \in Nat
  PROVE  Min({m, n}) \in Nat /\ Min({m, n}) <= n
<1>1. \E x \in {m, n} : \A y \in {m, n} : x =< y
  <2>1. CASE m =< n
    BY <2>1
  <2>2. CASE n =< m
    BY <2>2
  <2> QED
    BY <2>1, <2>2
<1>2. Min({m, n}) \in {m, n} /\ \A y \in {m, n} : Min({m, n}) =< y
  BY <1>1 DEF Min
<1> QED
  BY <1>2

\* The items of each weight, and then the items of all weights, have their ids apart.
LEMMA PrioritiesApart ==
  ASSUME NEW U, NEW A, A \in Seq(U), NEW key, KeysApart(A, key), \A u \in U : key[u] = u.id
  PROVE  IsInjective(Priorities(A))
<1> DEFINE With(w) == Picked(A, LAMBDA i : PriorityWeight(i) = w)
           Of(w) == {i \in DOMAIN A : PriorityWeight(A[i]) = w}
           X == With(5) \o With(4)
           Y == X \o With(3)
           ranked == Y \o With(2)
           m == Min({MaxPriorities, Len(ranked)})
<1>1. \A w : With(w) = Places(A, Of(w))
  BY DEF Picked, Places
<1>2. Priorities(A) = Mapped(SubSeq(ranked, 1, m), LAMBDA i : i.id)
  BY DEF Priorities
<1> HIDE DEF With
<1>3. \A w : /\ With(w) \in Seq(U) /\ KeysApart(With(w), key)
             /\ \A u \in ToSet(With(w)) : PriorityWeight(u) = w /\ \E i \in 1..Len(A) : u = A[i]
  <2> TAKE w
  <2>1. ApartIn(A, Of(w), key)
    BY DEF KeysApart, ApartIn
  <2>2. \A u : u \in ToSet(Places(A, Of(w))) <=> \E i \in 1..Len(A) : i \in Of(w) /\ u = A[i]
    BY PlacesFacts
  <2>3. Places(A, Of(w)) \in Seq(U) /\ KeysApart(Places(A, Of(w)), key)
    <3> HIDE DEF Of
    <3> QED
      BY <2>1, PlacesFacts
  <2> QED
    BY <1>1, <2>2, <2>3
<1>4. ASSUME NEW x, NEW y, PriorityWeight(x) # PriorityWeight(y),
             \E i \in 1..Len(A) : x = A[i], \E i \in 1..Len(A) : y = A[i]
      PROVE  key[x] # key[y]
  BY <1>4 DEF KeysApart
<1>5. X \in Seq(U) /\ KeysApart(X, key)
      /\ \A u \in ToSet(X) : PriorityWeight(u) \in {5, 4} /\ \E i \in 1..Len(A) : u = A[i]
  <2>1. \A x \in ToSet(With(5)), y \in ToSet(With(4)) : key[x] # key[y]
    BY <1>3, <1>4
  <2>2. With(5) \in Seq(U) /\ With(4) \in Seq(U) /\ KeysApart(With(5), key) /\ KeysApart(With(4), key)
    BY <1>3
  <2>3. KeysApart(X, key)
    BY <2>1, <2>2, ConcatApart
  <2>4. X \in Seq(U) /\ \A u : u \in ToSet(X) <=> u \in ToSet(With(5)) \/ u \in ToSet(With(4))
    BY <2>2, ConcatSet
  <2> HIDE DEF X
  <2> QED
    BY <1>3, <2>3, <2>4
<1> HIDE DEF X
<1>6. Y \in Seq(U) /\ KeysApart(Y, key)
      /\ \A u \in ToSet(Y) : PriorityWeight(u) \in {5, 4, 3} /\ \E i \in 1..Len(A) : u = A[i]
  <2>1. \A x \in ToSet(X), y \in ToSet(With(3)) : key[x] # key[y]
    <3> TAKE x \in ToSet(X), y \in ToSet(With(3))
    <3>1. PriorityWeight(x) # PriorityWeight(y)
      BY <1>3, <1>5
    <3> QED
      BY <1>3, <1>4, <1>5, <3>1
  <2>2. With(3) \in Seq(U) /\ KeysApart(With(3), key)
    BY <1>3
  <2>3. KeysApart(Y, key)
    BY <1>5, <2>1, <2>2, ConcatApart
  <2>4. Y \in Seq(U) /\ \A u : u \in ToSet(Y) <=> u \in ToSet(X) \/ u \in ToSet(With(3))
    BY <1>5, <2>2, ConcatSet
  <2> HIDE DEF Y
  <2> QED
    BY <1>3, <1>5, <2>3, <2>4
<1> HIDE DEF Y
<1>7. ranked \in Seq(U) /\ KeysApart(ranked, key)
  <2>1. \A x \in ToSet(Y), y \in ToSet(With(2)) : key[x] # key[y]
    <3> TAKE x \in ToSet(Y), y \in ToSet(With(2))
    <3>1. PriorityWeight(x) # PriorityWeight(y)
      BY <1>3, <1>6
    <3> QED
      BY <1>3, <1>4, <1>6, <3>1
  <2>2. With(2) \in Seq(U) /\ KeysApart(With(2), key)
    BY <1>3
  <2> QED
    BY <1>6, <2>1, <2>2, ConcatApart, ConcatSet
<1> HIDE DEF ranked
<1>8. m \in Nat /\ m <= Len(ranked)
  <2>1. Len(ranked) \in Nat
    BY <1>7
  <2> QED
    BY <2>1, MinOfTwo DEF MaxPriorities
<1> HIDE DEF m
<1>9. SubSeq(ranked, 1, m) = [i \in 1..m |-> ranked[i]]
  BY <1>7, <1>8
<1>10. Priorities(A) = [i \in 1..m |-> ranked[i].id]
  BY <1>2, <1>9 DEF Mapped
<1>11. \A i \in 1..m : i \in 1..Len(ranked) /\ ranked[i] \in U
  BY <1>7, <1>8
<1> QED
  BY <1>7, <1>10, <1>11 DEF IsInjective, KeysApart

\* What a briefing is put together from: sections of the collectors.
LEMMA ComposeFacts ==
  ASSUME NEW Q, NEW T, Q \in Seq(T), \A s \in T : IsSection(s) /\ s.type \in ToSet(CollectorNames),
         NEW at, NEW start, NEW b,
         b = Compose(at, start, Deduplicate(InOrder(Q)), AllItems(Deduplicate(InOrder(Q))))
  PROVE  /\ b.at = at /\ b.start = start
         /\ IsInjective(b.items) /\ IsInjective(b.priorities)
         /\ \A s \in ToSet(Q) : \A id : Names(s.items, id) => \E i \in DOMAIN b.items : b.items[i] = id
         /\ \A s \in ToSet(Q) : \A r \in ToSet(s.sources) : r[2] # "available" => r[1] \in b.unread
<1> DEFINE O == InOrder(Q)
           D == Deduplicate(O)
           A == AllItems(D)
<1>1. O \in Seq(T) /\ \A s : s \in ToSet(O) <=> s \in ToSet(Q)
  <2>1. ToSet(Q) \subseteq T
    BY DEF ToSet
  <2> QED
    BY <2>1, InOrderFacts
<1>2. /\ b.at = at /\ b.start = start
      /\ b.items = [i \in DOMAIN A |-> A[i].id]
      /\ b.unread = {r[1] : r \in UnavailableSources(D)}
      /\ b.priorities = Priorities(A)
  BY DEF Compose, Mapped
<1> HIDE DEF O
<1>3. /\ A \in Seq(ItemsOf(O)) /\ KeysApart(A, IdKey(O))
      /\ \A id : (\E s \in 1..Len(O) : Names(O[s].items, id)) => Names(A, id)
  BY <1>1, AllItemsFacts
<1>4. DOMAIN D = 1..Len(O) /\ \A s \in 1..Len(O) : D[s].sources = O[s].sources
  BY <1>1, DeduplicateIs
<1> HIDE DEF A, D
<1>5. \A u \in ItemsOf(O) : IdKey(O)[u] = u.id
  BY DEF IdKey
<1>6. IsInjective(b.priorities)
  BY <1>2, <1>3, <1>5, PrioritiesApart
<1>7. IsInjective(b.items)
  <2>1. DOMAIN A = 1..Len(A) /\ \A i \in 1..Len(A) : A[i] \in ItemsOf(O)
    BY <1>3
  <2> QED
    BY <1>2, <1>3, <1>5, <2>1 DEF IsInjective, KeysApart
<1>8. ASSUME NEW s \in ToSet(Q) PROVE \E n \in 1..Len(O) : O[n] = s
  <2>1. s \in ToSet(O) /\ DOMAIN O = 1..Len(O)
    BY <1>1
  <2> QED
    BY <2>1 DEF ToSet
<1>9. ASSUME NEW s \in ToSet(Q), NEW id, Names(s.items, id)
      PROVE  \E i \in DOMAIN b.items : b.items[i] = id
  <2>1. Names(A, id)
    BY <1>3, <1>8, <1>9
  <2>2. DOMAIN A = 1..Len(A)
    BY <1>3
  <2> QED
    BY <1>2, <2>1, <2>2 DEF Names
<1>10. ASSUME NEW s \in ToSet(Q), NEW r \in ToSet(s.sources), r[2] # "available"
       PROVE  r[1] \in b.unread
  <2>1. PICK n \in 1..Len(O) : O[n] = s
    BY <1>8
  <2>2. r \in UnavailableSources(D)
    BY <1>4, <1>10, <2>1 DEF UnavailableSources
  <2> QED
    BY <1>2, <2>2
<1> QED
  BY <1>2, <1>6, <1>7, <1>9, <1>10

(***************************************************************************)
(* The inductive invariant                                                 *)
(***************************************************************************)
\* A fact that a look at [start, at) has to tell: stamped in that time, and not among
\* those that were on their way to the source when it was read.
Owed(f, from, to, st, pl, la) ==
  from <= st[f] /\ st[f] < to /\ pl[f] # "open" /\ f \notin la

\* A section names the fact or says that its source could not be read.
Tells(s, k, f) ==
  \/ Names(s.items, <<"fact", f.id>>)
  \/ \E r \in ToSet(s.sources) : r[1] = k /\ r[2] # "available"

Good(s, k, x, su, st, pl, la) ==
  /\ IsSection(s) /\ s.type = k
  /\ \A f \in su.facts : Tellable(f) /\ SourceOf(f) = k /\ Owed(f, x.start, x.at, st, pl, la)
                           => Tells(s, k, f)

EndsOf(briefings) == {b.at : b \in briefings}

CallOK(x, su, now, ends) ==
  /\ x = [step |-> x.step, at |-> x.at, start |-> x.start, thread |-> x.thread,
          active |-> x.active, found |-> x.found, next |-> x.next, sections |-> x.sections,
          kept |-> x.kept]
  /\ x.at \in Nat /\ x.at <= now
  /\ x.start \in Int /\ (x.start <= 0 \/ x.start \in ends)
  /\ x.active \in Seq(su.facts) /\ x.kept \in Seq(ends)
  /\ x.sections \in Seq(ToSet(x.sections)) /\ x.next = Len(x.sections) + 1
  /\ x.step = "stamped" => x.sections = <<>>
  /\ x.step = "collecting" => DOMAIN x.found = ToSet(su.wired) /\ x.next <= Len(su.wired)
  /\ x.step = "joining" => Len(x.sections) = Len(su.wired)

SectionsOK(x, su, st, pl, la) ==
  /\ \A k \in DOMAIN x.found : Good(x.found[k], k, x, su, st, pl, la)
  /\ \A i \in 1..Len(x.sections) : Good(x.sections[i], su.wired[i], x, su, st, pl, la)

BriefingOK(b, su, now, st, pl, la) ==
  /\ b.at \in Nat /\ b.at <= now /\ b.start \in Int
  /\ IsInjective(b.items) /\ IsInjective(b.priorities)
  /\ \A f \in su.facts :
       Tellable(f) /\ SourceOf(f) \in ToSet(su.wired) /\ Owed(f, b.start, b.at, st, pl, la)
         => Told(b, f) \/ SourceOf(f) \in b.unread

\* Of the time before the end of some briefing, each moment is in a briefing's window.
WindowsMeet(briefings) ==
  \A t \in 1..RecentWindow :
    (\E b \in briefings : t < b.at) => \E b \in briefings : b.start <= t /\ t < b.at

TimesOK ==
  /\ setup \in Setups /\ clock \in 1..setup.end
  /\ stamp \in [Facts -> Nat] /\ place \in [Facts -> {"open", "stamped", "popped", "stored"}]
  /\ \A f \in Facts : stamp[f] <= clock /\ (place[f] # "open" => stamp[f] # 0)

PastOK == \A b \in past : BriefingOK(b, setup, clock, stamp, place, late)

CallsOK ==
  /\ call = [c \in Callers |-> call[c]]
  /\ \A c \in Callers : /\ CallOK(call[c], setup, clock, EndsOf(past))
                        /\ SectionsOK(call[c], setup, stamp, place, late)

BriefingInv ==
  TimesOK /\ PastOK /\ records \in Seq(EndsOf(past)) /\ WindowsMeet(past) /\ CallsOK

\* What the assumption on the constants says of a setup.
LEMMA SetupFacts ==
  ASSUME NEW s \in Setups
  PROVE  /\ s.wired \in Seq(ToSet(CollectorNames)) /\ Len(s.wired) \in Nat \ {0}
         /\ DOMAIN s.wired = 1..Len(s.wired)
         /\ s.facts \subseteq Facts /\ s.end \in 1..RecentWindow /\ RecentWindow \in Nat
         /\ s.end \in Nat /\ s.end <= RecentWindow
<1>1. /\ s.wired \in Seq(ToSet(CollectorNames)) /\ s.wired # <<>>
      /\ s.facts \subseteq Facts /\ s.end \in 1..RecentWindow /\ RecentWindow \in Nat
  BY BriefingConstantsOK
<1>2. Len(s.wired) \in Nat /\ DOMAIN s.wired = 1..Len(s.wired) /\ (Len(s.wired) = 0 => s.wired = <<>>)
  BY <1>1, EmptySeq
<1> QED
  BY <1>1, <1>2

\* A call that has collected nothing yet, or no longer.
LEMMA NoCallOK ==
  ASSUME NEW x, x.step \notin {"collecting", "joining"}, NEW su, NEW now \in Nat, NEW ends,
         \/ x = [NoCall EXCEPT !.step = x.step]
         \/ x.at \in Nat /\ x.at <= now /\ x = [NoCall EXCEPT !.step = x.step, !.at = x.at]
  PROVE  /\ CallOK(x, su, now, ends)
         /\ \A st, pl, la : SectionsOK(x, su, st, pl, la)
<1>1. /\ x = [step |-> x.step, at |-> x.at, start |-> x.start, thread |-> x.thread,
              active |-> x.active, found |-> x.found, next |-> x.next, sections |-> x.sections,
              kept |-> x.kept]
      /\ x.at \in Nat /\ x.at <= now /\ x.start = 0 /\ x.active = <<>> /\ x.found = <<>>
      /\ x.next = 1 /\ x.sections = <<>> /\ x.kept = <<>>
  <2>1. NoCall = [step |-> "idle", at |-> 0, start |-> 0, thread |-> <<>>, active |-> <<>>,
                  found |-> <<>>, next |-> 1, sections |-> <<>>, kept |-> <<>>]
    BY DEF NoCall
  <2>2. CASE x = [NoCall EXCEPT !.step = x.step]
    BY <2>1, <2>2
  <2>3. CASE x.at \in Nat /\ x.at <= now /\ x = [NoCall EXCEPT !.step = x.step, !.at = x.at]
    BY <2>1, <2>3
  <2> QED
    BY <2>2, <2>3
<1>2. \A T : <<>> \in Seq(T)
  BY EmptySeq
<1>3. Len(<<>>) = 0 /\ DOMAIN <<>> = {}
  OBVIOUS
<1>4. CallOK(x, su, now, ends)
  BY <1>1, <1>2, <1>3 DEF CallOK
<1>5. 1..0 = {}
  OBVIOUS
<1> QED
  BY <1>1, <1>3, <1>4, <1>5 DEF SectionsOK

LEMMA BriefingInitOK == BriefInit => BriefingInv
<1> SUFFICES ASSUME BriefInit PROVE BriefingInv
  OBVIOUS
<1>1. setup \in Setups /\ clock = 1 /\ records = <<>> /\ past = {}
      /\ stamp = [f \in Facts |-> 0] /\ place = [f \in Facts |-> "open"]
      /\ call = [c \in Callers |-> NoCall]
  BY DEF BriefInit
<1>2. TimesOK
  <2>1. setup.end \in 1..RecentWindow /\ RecentWindow \in Nat
    BY <1>1, SetupFacts
  <2> QED
    BY <1>1, <2>1 DEF TimesOK
<1>3. PastOK /\ WindowsMeet(past)
  BY <1>1 DEF PastOK, WindowsMeet
<1>4. records \in Seq(EndsOf(past))
  BY <1>1, EmptySeq
<1>5. NoCall = [NoCall EXCEPT !.step = NoCall.step] /\ NoCall.step = "idle"
  BY DEF NoCall
<1>6. /\ CallOK(NoCall, setup, clock, EndsOf(past)) /\ SectionsOK(NoCall, setup, stamp, place, late)
  <2>1. clock \in Nat
    BY <1>1
  <2> QED
    BY <1>5, <2>1, NoCallOK
<1>7. CallsOK
  <2>1. \A c \in Callers : call[c] = NoCall
    BY <1>1
  <2>2. call = [c \in Callers |-> call[c]]
    BY <1>1
  <2> QED
    BY <1>6, <2>1, <2>2 DEF CallsOK
<1> QED
  BY <1>2, <1>3, <1>4, <1>7 DEF BriefingInv

(***************************************************************************)
(* What any step keeps                                                     *)
(***************************************************************************)
\* No step adds to what a look until now owes.
Frame ==
  /\ setup' = setup /\ clock <= clock' /\ clock' \in Nat /\ past \subseteq past'
  /\ \A f \in setup.facts : \A from \in Int, to \in Nat :
       to <= clock /\ Owed(f, from, to, stamp', place', late') => Owed(f, from, to, stamp, place, late)

\* A step of a call adds to nothing owed: late facts are owed no more.
LEMMA FrameOfCalls ==
  ASSUME TimesOK, setup' = setup, clock' = clock, stamp' = stamp, place' = place,
         past \subseteq past', late \subseteq late'
  PROVE  Frame
BY DEF Frame, Owed, TimesOK

\* Briefings, sections and calls stay as good as they were.
LEMMA KeptBriefing ==
  ASSUME Frame, TimesOK, NEW b, BriefingOK(b, setup, clock, stamp, place, late)
  PROVE  BriefingOK(b, setup', clock', stamp', place', late')
<1>1. b.at <= clock' /\ setup' = setup
  <2>1. clock \in Nat
    BY SetupFacts DEF TimesOK
  <2> QED
    BY <2>1 DEF Frame, BriefingOK
<1>2. \A f \in setup.facts : Owed(f, b.start, b.at, stamp', place', late')
                               => Owed(f, b.start, b.at, stamp, place, late)
  BY DEF Frame, BriefingOK
<1> QED
  BY <1>1, <1>2 DEF BriefingOK

LEMMA KeptGood ==
  ASSUME Frame, NEW x, x.at \in Nat, x.at <= clock, x.start \in Int, NEW s, NEW k,
         Good(s, k, x, setup, stamp, place, late)
  PROVE  Good(s, k, x, setup', stamp', place', late')
<1>1. \A f \in setup.facts : Owed(f, x.start, x.at, stamp', place', late')
                               => Owed(f, x.start, x.at, stamp, place, late)
  BY DEF Frame
<1>2. setup' = setup
  BY DEF Frame
<1> QED
  BY <1>1, <1>2 DEF Good

LEMMA KeptCall ==
  ASSUME Frame, TimesOK, NEW x, CallOK(x, setup, clock, EndsOf(past)),
         SectionsOK(x, setup, stamp, place, late)
  PROVE  CallOK(x, setup', clock', EndsOf(past')) /\ SectionsOK(x, setup', stamp', place', late')
<1>1. clock \in Nat /\ setup' = setup /\ clock <= clock' /\ clock' \in Nat
  BY SetupFacts DEF TimesOK, Frame
<1>2. EndsOf(past) \subseteq EndsOf(past')
  BY DEF Frame, EndsOf
<1>3. x.at \in Nat /\ x.at <= clock /\ x.start \in Int
  BY DEF CallOK
<1>4. CallOK(x, setup', clock', EndsOf(past'))
  <2>1. x.kept \in Seq(EndsOf(past'))
    BY <1>2, SeqMonotonic DEF CallOK
  <2>2. x.start <= 0 \/ x.start \in EndsOf(past')
    BY <1>2 DEF CallOK
  <2>3. x.at <= clock'
    BY <1>1, <1>3
  <2> QED
    BY <1>1, <2>1, <2>2, <2>3 DEF CallOK
<1>5. SectionsOK(x, setup', stamp', place', late')
  BY <1>1, <1>3, KeptGood DEF SectionsOK
<1> QED
  BY <1>4, <1>5

(***************************************************************************)
(* The sources change                                                      *)
(***************************************************************************)
LEMMA SourcesStep ==
  ASSUME BriefingInv, \/ Tick
                      \/ \E f \in setup.facts : Stamp(f) \/ TakeOut(f) \/ StoreFact(f)
  PROVE  BriefingInv'
<1>1. /\ TimesOK /\ PastOK /\ records \in Seq(EndsOf(past)) /\ WindowsMeet(past) /\ CallsOK
      /\ setup' = setup /\ past' = past /\ records' = records /\ call' = call /\ late' = late
  BY DEF BriefingInv, Tick, Stamp, TakeOut, StoreFact
<1>2. /\ setup \in Setups /\ setup.facts \subseteq Facts /\ clock \in Nat /\ clock \in 1..setup.end
      /\ setup.end \in Nat
  BY <1>1, SetupFacts DEF TimesOK
<1>3. TimesOK' /\ Frame
  <2>1. CASE Tick
    <3>1. clock' = clock + 1 /\ clock < setup.end /\ stamp' = stamp /\ place' = place
      BY <2>1 DEF Tick
    <3> QED
      BY <1>1, <1>2, <3>1 DEF TimesOK, Frame, Owed
  <2>2. ASSUME NEW f \in setup.facts, Stamp(f) PROVE TimesOK' /\ Frame
    <3>1. /\ place[f] = "open" /\ place' = [place EXCEPT ![f] = "stamped"]
          /\ stamp' = [stamp EXCEPT ![f] = clock] /\ clock' = clock
      BY <2>2 DEF Stamp
    <3>2. TimesOK'
      BY <1>1, <1>2, <3>1 DEF TimesOK
    <3>3. \A g \in setup.facts : g # f => stamp'[g] = stamp[g] /\ place'[g] = place[g]
      BY <1>1, <1>2, <3>1 DEF TimesOK
    <3>4. stamp'[f] = clock
      BY <1>1, <1>2, <3>1 DEF TimesOK
    <3> QED
      BY <1>1, <1>2, <3>1, <3>2, <3>3, <3>4 DEF Frame, Owed
  <2>3. ASSUME NEW f \in setup.facts, TakeOut(f) \/ StoreFact(f) PROVE TimesOK' /\ Frame
    <3>1. /\ place[f] \in {"stamped", "popped"}
          /\ \E q \in {"popped", "stored"} : place' = [place EXCEPT ![f] = q]
          /\ stamp' = stamp /\ clock' = clock
      BY <2>3 DEF TakeOut, StoreFact
    <3>2. TimesOK'
      BY <1>1, <1>2, <3>1 DEF TimesOK
    <3>3. \A g \in setup.facts : place'[g] # "open" => place[g] # "open"
      BY <1>1, <1>2, <3>1 DEF TimesOK
    <3> QED
      BY <1>1, <1>2, <3>1, <3>2, <3>3 DEF Frame, Owed
  <2> QED
    BY <2>1, <2>2, <2>3
<1>4. PastOK'
  BY <1>1, <1>3, KeptBriefing DEF PastOK
<1>5. CallsOK'
  <2>1. \A c \in Callers : /\ CallOK(call[c], setup', clock', EndsOf(past'))
                           /\ SectionsOK(call[c], setup', stamp', place', late')
    BY <1>1, <1>3, KeptCall DEF CallsOK
  <2> QED
    BY <1>1, <2>1 DEF CallsOK
<1> QED
  BY <1>1, <1>3, <1>4, <1>5 DEF BriefingInv

(***************************************************************************)
(* generate                                                                *)
(***************************************************************************)
\* A step of one call that delivers nothing.
LEMMA OneCallStep ==
  ASSUME BriefingInv, NEW c \in Callers, UNCHANGED <<setup, clock, stamp, place, past>>,
         late \subseteq late', records' \in Seq(EndsOf(past)),
         call' = [call EXCEPT ![c] = call'[c]],
         CallOK(call'[c], setup, clock, EndsOf(past)),
         SectionsOK(call'[c], setup, stamp, place, late')
  PROVE  BriefingInv'
<1>1. /\ TimesOK /\ PastOK /\ WindowsMeet(past) /\ CallsOK
      /\ setup' = setup /\ clock' = clock /\ stamp' = stamp /\ place' = place /\ past' = past
  BY DEF BriefingInv
<1>2. TimesOK' /\ Frame
  <2>1. TimesOK'
    BY <1>1 DEF TimesOK
  <2> QED
    BY <1>1, <2>1, FrameOfCalls
<1>3. PastOK'
  BY <1>1, <1>2, KeptBriefing DEF PastOK
<1>4. CallsOK'
  <2>1. call = [d \in Callers |-> call[d]]
    BY <1>1 DEF CallsOK
  <2>2. call' = [d \in Callers |-> call'[d]] /\ \A d \in Callers : d # c => call'[d] = call[d]
    BY <2>1
  <2>3. ASSUME NEW d \in Callers
        PROVE  /\ CallOK(call'[d], setup', clock', EndsOf(past'))
               /\ SectionsOK(call'[d], setup', stamp', place', late')
    <3>1. CASE d = c
      BY <1>1, <3>1
    <3>2. CASE d # c
      <4>1. CallOK(call[d], setup, clock, EndsOf(past)) /\ SectionsOK(call[d], setup, stamp, place, late)
        BY <1>1 DEF CallsOK
      <4>2. /\ CallOK(call[d], setup', clock', EndsOf(past'))
            /\ SectionsOK(call[d], setup', stamp', place', late')
        BY <1>1, <1>2, <4>1, KeptCall
      <4> QED
        BY <2>2, <3>2, <4>2
    <3> QED
      BY <3>1, <3>2
  <2> QED
    BY <2>2, <2>3 DEF CallsOK
<1>5. WindowsMeet(past)' /\ (records \in Seq(EndsOf(past)))'
  BY <1>1
<1> QED
  BY <1>2, <1>3, <1>4, <1>5 DEF BriefingInv

LEMMA CallFacts ==
  ASSUME BriefingInv, NEW c \in Callers
  PROVE  /\ TimesOK /\ setup \in Setups /\ clock \in Nat /\ clock <= RecentWindow /\ RecentWindow \in Nat
         /\ records \in Seq(EndsOf(past))
         /\ call = [d \in Callers |-> call[d]]
         /\ call[c] = [step |-> call[c].step, at |-> call[c].at, start |-> call[c].start,
                       thread |-> call[c].thread, active |-> call[c].active,
                       found |-> call[c].found, next |-> call[c].next,
                       sections |-> call[c].sections, kept |-> call[c].kept]
         /\ CallOK(call[c], setup, clock, EndsOf(past))
         /\ SectionsOK(call[c], setup, stamp, place, late)
<1>1. TimesOK /\ CallsOK /\ records \in Seq(EndsOf(past))
  BY DEF BriefingInv
<1>2. setup \in Setups /\ clock \in 1..setup.end /\ setup.end \in Nat /\ setup.end <= RecentWindow
      /\ RecentWindow \in Nat
  BY <1>1, SetupFacts DEF TimesOK
<1>3. CallOK(call[c], setup, clock, EndsOf(past)) /\ SectionsOK(call[c], setup, stamp, place, late)
      /\ call = [d \in Callers |-> call[d]]
  BY <1>1 DEF CallsOK
<1> QED
  BY <1>1, <1>2, <1>3 DEF CallOK

\* A call begins with nothing but its time.
LEMMA CalledStep ==
  ASSUME BriefingInv, NEW c \in Callers, Called(c)
  PROVE  BriefingInv'
<1>1. UNCHANGED <<setup, clock, stamp, place, past, late, records>>
      /\ call' = [call EXCEPT ![c] = [NoCall EXCEPT !.step = "stamped", !.at = clock]]
  BY DEF Called
<1>2. clock \in Nat /\ call = [d \in Callers |-> call[d]] /\ records \in Seq(EndsOf(past))
  BY CallFacts
<1>3. call'[c] = [NoCall EXCEPT !.step = "stamped", !.at = clock] /\ call' = [call EXCEPT ![c] = call'[c]]
  BY <1>1, <1>2
<1>4. call'[c].step = "stamped" /\ call'[c].at = clock
  BY <1>3 DEF NoCall
<1>5. CallOK(call'[c], setup, clock, EndsOf(past)) /\ SectionsOK(call'[c], setup, stamp, place, late)
  <2>1. call'[c] = [NoCall EXCEPT !.step = call'[c].step, !.at = call'[c].at]
    BY <1>3, <1>4
  <2>2. call'[c].step \notin {"collecting", "joining"} /\ call'[c].at \in Nat /\ call'[c].at <= clock
    BY <1>2, <1>4
  <2> QED
    BY <1>2, <2>1, <2>2, NoCallOK
<1> QED
  BY <1>1, <1>2, <1>3, <1>5, OneCallStep

\* The window begins where a returned briefing ended, or before any fact.
LEMMA SubmitStep ==
  ASSUME BriefingInv, NEW c \in Callers, Submit(c)
  PROVE  BriefingInv'
<1> DEFINE y == call'[c]
<1>1. /\ UNCHANGED <<setup, clock, stamp, place, past, late, records>>
      /\ call[c].step = "stamped"
      /\ call' = [call EXCEPT ![c].step = "collecting", ![c].start = PeriodStart(call[c].at),
                          ![c].thread = [k \in ToSet(setup.wired) |-> "running"],
                          ![c].found = [k \in ToSet(setup.wired) |-> Unavailable(k, "unread", "info")]]
  BY DEF Submit
<1>2. /\ setup \in Setups /\ clock \in Nat /\ clock <= RecentWindow /\ RecentWindow \in Nat
      /\ call = [d \in Callers |-> call[d]] /\ records \in Seq(EndsOf(past)) /\ PastOK
      /\ call[c] = [step |-> call[c].step, at |-> call[c].at, start |-> call[c].start,
                       thread |-> call[c].thread, active |-> call[c].active,
                       found |-> call[c].found, next |-> call[c].next,
                       sections |-> call[c].sections, kept |-> call[c].kept]
      /\ CallOK(call[c], setup, clock, EndsOf(past))
  BY CallFacts DEF BriefingInv
<1>3. /\ call' = [call EXCEPT ![c] = y]
      /\ y = [step |-> "collecting", at |-> call[c].at, start |-> PeriodStart(call[c].at),
              thread |-> [k \in ToSet(setup.wired) |-> "running"], active |-> call[c].active,
              found |-> [k \in ToSet(setup.wired) |-> Unavailable(k, "unread", "info")],
              next |-> call[c].next, sections |-> call[c].sections, kept |-> call[c].kept]
  BY <1>1, <1>2
<1> HIDE DEF y
<1>4. PeriodStart(call[c].at) \in Int
      /\ (PeriodStart(call[c].at) <= 0 \/ PeriodStart(call[c].at) \in EndsOf(past))
  <2>1. CASE records = <<>>
    BY <1>2, <2>1 DEF PeriodStart, CallOK
  <2>2. CASE records # <<>>
    <3>1. Len(records) \in 1..Len(records)
      BY <1>2, <2>2, EmptySeq
    <3>2. Last(records) \in EndsOf(past)
      BY <1>2, <3>1 DEF Last
    <3>3. \A t \in EndsOf(past) : t \in Int
      BY <1>2 DEF EndsOf, PastOK, BriefingOK
    <3> QED
      BY <2>2, <3>2, <3>3 DEF PeriodStart
  <2> QED
    BY <2>1, <2>2
<1>5. Len(setup.wired) \in Nat \ {0}
  BY <1>2, SetupFacts
<1>6. CallOK(y, setup, clock, EndsOf(past))
  <2>1. Len(<<>>) = 0
    OBVIOUS
  <2> QED
    BY <1>1, <1>2, <1>3, <1>4, <1>5, <2>1 DEF CallOK
<1>7. SectionsOK(y, setup, stamp, place, late)
  <2>1. ASSUME NEW k \in ToSet(setup.wired)
        PROVE  Good(y.found[k], k, y, setup, stamp, place, late)
    <3>1. y.found[k] = Unavailable(k, "unread", "info")
      BY <1>3
    <3>2. <<k, "unread">> \in ToSet(y.found[k].sources)
      <4>1. y.found[k].sources = << <<k, "unread">> >>
        BY <3>1, UnavailableFacts
      <4> QED
        BY <4>1 DEF ToSet
    <3>3. \A f : Tells(y.found[k], k, f)
      BY <3>2 DEF Tells
    <3> QED
      BY <3>1, <3>3, UnavailableFacts DEF Good
  <2>2. y.sections = <<>> /\ Len(<<>>) = 0 /\ 1..0 = {}
    BY <1>1, <1>2, <1>3 DEF CallOK
  <2>3. DOMAIN y.found = ToSet(setup.wired)
    BY <1>3
  <2> QED
    BY <2>1, <2>2, <2>3 DEF SectionsOK
<1> QED
  BY <1>1, <1>2, <1>3, <1>6, <1>7, OneCallStep DEF y

\* The copy of the active agents.
LEMMA LookAtActiveStep ==
  ASSUME BriefingInv, NEW c \in Callers, LookAtActive(c)
  PROVE  BriefingInv'
<1> DEFINE y == call'[c]
<1>1. /\ UNCHANGED <<setup, clock, stamp, place, past, late, records>>
      /\ call' = [call EXCEPT ![c].thread["agents"] = "half", ![c].active = ActiveAgents]
  BY DEF LookAtActive
<1>2. /\ setup \in Setups /\ call = [d \in Callers |-> call[d]] /\ records \in Seq(EndsOf(past))
      /\ call[c] = [step |-> call[c].step, at |-> call[c].at, start |-> call[c].start,
                       thread |-> call[c].thread, active |-> call[c].active,
                       found |-> call[c].found, next |-> call[c].next,
                       sections |-> call[c].sections, kept |-> call[c].kept]
      /\ CallOK(call[c], setup, clock, EndsOf(past))
      /\ SectionsOK(call[c], setup, stamp, place, late)
  BY CallFacts
<1>3. /\ call' = [call EXCEPT ![c] = y]
      /\ y = [call[c] EXCEPT !.thread = y.thread, !.active = ActiveAgents]
  BY <1>1, <1>2
<1> HIDE DEF y
<1>4. ActiveAgents \in Seq(setup.facts)
  <2> DEFINE S == {f \in setup.facts : f.kind = "agent" /\ place[f] \in {"open", "stamped"}}
  <2>1. SetToSeq(S) \in Seq(S) /\ S \subseteq setup.facts
    BY <1>2, FactsListed
  <2>2. ActiveAgents = SetToSeq(S)
    BY DEF ActiveAgents, FactsIn
  <2> HIDE DEF S
  <2> QED
    BY <2>1, <2>2, SeqMonotonic
<1>5. CallOK(y, setup, clock, EndsOf(past))
  BY <1>2, <1>3, <1>4 DEF CallOK
<1>6. SectionsOK(y, setup, stamp, place, late)
  <2>1. y.found = call[c].found /\ y.sections = call[c].sections /\ y.start = call[c].start
        /\ y.at = call[c].at
    BY <1>2, <1>3
  <2> QED
    BY <1>2, <2>1 DEF SectionsOK, Good
<1> QED
  BY <1>1, <1>2, <1>3, <1>5, <1>6, OneCallStep DEF y

\* What the thread of a collector finds is what its section owes at this moment; what
\* comes later is stamped too late for it, or is late.
LEMMA RunCollectorStep ==
  ASSUME BriefingInv, NEW c \in Callers, NEW k \in ToSet(CollectorNames), RunCollector(c, k)
  PROVE  BriefingInv'
<1> DEFINE y == call'[c]
           missed == {f \in setup.facts : /\ SourceOf(f) = k /\ place[f] \in {"stamped", "popped"}
                                          /\ stamp[f] <= call[c].at}
<1>1. /\ UNCHANGED <<setup, clock, stamp, place, past, records>>
      /\ call' = [call EXCEPT ![c].thread[k] = "done", ![c].found[k] = SectionOf(c, k)]
      /\ late' = late \cup missed
  BY DEF RunCollector
<1>2. /\ TimesOK /\ setup \in Setups /\ call = [d \in Callers |-> call[d]]
      /\ records \in Seq(EndsOf(past))
      /\ call[c] = [step |-> call[c].step, at |-> call[c].at, start |-> call[c].start,
                       thread |-> call[c].thread, active |-> call[c].active,
                       found |-> call[c].found, next |-> call[c].next,
                       sections |-> call[c].sections, kept |-> call[c].kept]
      /\ CallOK(call[c], setup, clock, EndsOf(past))
      /\ SectionsOK(call[c], setup, stamp, place, late)
  BY CallFacts
<1>3. /\ call' = [call EXCEPT ![c] = y]
      /\ y = [call[c] EXCEPT !.thread = y.thread, !.found = y.found]
      /\ y.found = [call[c].found EXCEPT ![k] = SectionOf(c, k)]
  BY <1>1, <1>2
<1> HIDE DEF y
<1>4. Frame /\ setup' = setup /\ stamp' = stamp /\ place' = place /\ late \subseteq late'
  BY <1>1, <1>2, FrameOfCalls
<1>5. y.start = call[c].start /\ y.at = call[c].at /\ y.sections = call[c].sections
  BY <1>2, <1>3
<1>6. ASSUME NEW s, NEW q, Good(s, q, call[c], setup, stamp, place, late)
      PROVE  Good(s, q, y, setup, stamp, place, late')
  <2>1. call[c].at \in Nat /\ call[c].at <= clock /\ call[c].start \in Int
    BY <1>2 DEF CallOK
  <2>2. Good(s, q, call[c], setup', stamp', place', late')
    BY <1>4, <1>6, <2>1, KeptGood
  <2> QED
    BY <1>4, <1>5, <2>2 DEF Good
<1>7. Good(SectionOf(c, k), k, y, setup, stamp, place, late')
  <2>1. call[c].active \in Seq(setup.facts) /\ call[c].at \in Nat /\ call[c].start \in Int
    BY <1>2 DEF CallOK
  <2>2. /\ IsSection(SectionOf(c, k)) /\ SectionOf(c, k).type = k
        /\ \A f \in setup.facts :
              /\ Tellable(f) /\ SourceOf(f) = k
              /\ place[f] = "stored" /\ Within(f, call[c].start, call[c].at)
              => Names(SectionOf(c, k).items, <<"fact", f.id>>)
    BY <1>2, <2>1, SectionOfFacts
  <2>3. ASSUME NEW f \in setup.facts, Tellable(f), SourceOf(f) = k,
               Owed(f, call[c].start, call[c].at, stamp, place, late')
        PROVE  Names(SectionOf(c, k).items, <<"fact", f.id>>)
    <3>1. f \in Facts /\ place[f] \in {"open", "stamped", "popped", "stored"} /\ stamp[f] \in Nat
      BY <1>2, SetupFacts DEF TimesOK
    <3>2. place[f] = "stored"
      BY <1>1, <2>1, <2>3, <3>1 DEF Owed
    <3>3. Within(f, call[c].start, call[c].at)
      BY <2>1, <2>3, <3>1 DEF Owed, Within
    <3> QED
      BY <2>2, <2>3, <3>2, <3>3
  <2> QED
    BY <1>5, <2>2, <2>3 DEF Good, Tells
<1>8. SectionsOK(y, setup, stamp, place, late')
  <2>1. ASSUME NEW q \in DOMAIN y.found
        PROVE  Good(y.found[q], q, y, setup, stamp, place, late')
    <3>1. q \in DOMAIN call[c].found
      BY <1>3
    <3>2. CASE q = k
      BY <1>3, <1>7, <3>1, <3>2
    <3>3. CASE q # k
      <4>1. y.found[q] = call[c].found[q]
        BY <1>3, <3>1, <3>3
      <4>2. Good(call[c].found[q], q, call[c], setup, stamp, place, late)
        BY <1>2, <3>1 DEF SectionsOK
      <4> QED
        BY <1>6, <4>1, <4>2
    <3> QED
      BY <3>2, <3>3
  <2>2. \A i \in 1..Len(y.sections) : Good(y.sections[i], setup.wired[i], y, setup, stamp, place, late')
    BY <1>2, <1>5, <1>6 DEF SectionsOK
  <2> QED
    BY <2>1, <2>2 DEF SectionsOK
<1>9. CallOK(y, setup, clock, EndsOf(past))
  <2>1. DOMAIN y.found = DOMAIN call[c].found
    BY <1>3
  <2> QED
    BY <1>2, <1>3, <2>1 DEF CallOK
<1> QED
  BY <1>1, <1>2, <1>3, <1>4, <1>8, <1>9, OneCallStep DEF y

\* A source raises: what was found is not taken from it.
LEMMA BreakStep ==
  ASSUME BriefingInv, NEW c \in Callers, NEW k, Break(c, k)
  PROVE  BriefingInv'
<1> DEFINE y == call'[c]
<1>1. /\ UNCHANGED <<setup, clock, stamp, place, past, late, records>>
      /\ call' = [call EXCEPT ![c].thread[k] = "raised"]
  BY DEF Break
<1>2. /\ call = [d \in Callers |-> call[d]] /\ records \in Seq(EndsOf(past))
      /\ call[c] = [step |-> call[c].step, at |-> call[c].at, start |-> call[c].start,
                       thread |-> call[c].thread, active |-> call[c].active,
                       found |-> call[c].found, next |-> call[c].next,
                       sections |-> call[c].sections, kept |-> call[c].kept]
      /\ CallOK(call[c], setup, clock, EndsOf(past))
      /\ SectionsOK(call[c], setup, stamp, place, late)
  BY CallFacts
<1>3. call' = [call EXCEPT ![c] = y] /\ y = [call[c] EXCEPT !.thread = y.thread]
  BY <1>1, <1>2
<1> HIDE DEF y
<1>4. CallOK(y, setup, clock, EndsOf(past))
  BY <1>2, <1>3 DEF CallOK
<1>5. SectionsOK(y, setup, stamp, place, late)
  <2>1. y.found = call[c].found /\ y.sections = call[c].sections /\ y.start = call[c].start
        /\ y.at = call[c].at
    BY <1>2, <1>3
  <2> QED
    BY <1>2, <2>1 DEF SectionsOK, Good
<1> QED
  BY <1>1, <1>2, <1>3, <1>4, <1>5, OneCallStep DEF y

LEMMA SeqOfItsOwn ==
  ASSUME NEW U, NEW a \in Seq(U)
  PROVE  a \in Seq(ToSet(a))
<1>1. Len(a) \in Nat /\ DOMAIN a = 1..Len(a) /\ a = [i \in 1..Len(a) |-> a[i]]
  OBVIOUS
<1>2. \A i \in 1..Len(a) : a[i] \in ToSet(a)
  BY <1>1 DEF ToSet
<1>3. a \in [1..Len(a) -> ToSet(a)]
  BY <1>1, <1>2
<1> QED
  BY <1>1, <1>3, FunctionSeq

LEMMA AppendFacts ==
  ASSUME NEW q, q \in Seq(ToSet(q)), NEW s
  PROVE  /\ Append(q, s) \in Seq(ToSet(Append(q, s))) /\ Len(Append(q, s)) = Len(q) + 1
         /\ \A i \in 1..Len(q) : Append(q, s)[i] = q[i]
         /\ Append(q, s)[Len(q) + 1] = s
         /\ Len(q) \in Nat
<1> DEFINE U == ToSet(q) \cup {s}
<1>1. q \in Seq(U)
  BY SeqMonotonic
<1>2. s \in U
  OBVIOUS
<1> HIDE DEF U
<1>3. /\ Append(q, s) \in Seq(U) /\ Len(Append(q, s)) = Len(q) + 1
      /\ \A i \in 1..Len(q) : Append(q, s)[i] = q[i]
      /\ Append(q, s)[Len(q) + 1] = s
      /\ Len(q) \in Nat
  BY <1>1, <1>2
<1>4. Append(q, s) \in Seq(ToSet(Append(q, s)))
  BY <1>3, SeqOfItsOwn
<1> QED
  BY <1>3, <1>4

\* Taking the next future's answer: the found section, or one that owns up.
LEMMA ResultStep ==
  ASSUME BriefingInv, NEW c \in Callers, Result(c)
  PROVE  BriefingInv'
<1> DEFINE y == call'[c]
           x == call[c]
           k == Due(c)
<1>1. UNCHANGED <<setup, clock, stamp, place, past, late, records>> /\ x.step = "collecting"
  BY DEF Result
<1>2. /\ TimesOK /\ setup \in Setups /\ call = [d \in Callers |-> call[d]]
      /\ records \in Seq(EndsOf(past))
      /\ x = [step |-> x.step, at |-> x.at, start |-> x.start, thread |-> x.thread,
              active |-> x.active, found |-> x.found, next |-> x.next, sections |-> x.sections,
              kept |-> x.kept]
      /\ CallOK(x, setup, clock, EndsOf(past)) /\ SectionsOK(x, setup, stamp, place, late)
  BY CallFacts
<1>3. /\ Len(setup.wired) \in Nat \ {0} /\ DOMAIN setup.wired = 1..Len(setup.wired)
  BY <1>2, SetupFacts
<1>4. /\ x.next \in 1..Len(setup.wired) /\ x.next = Len(x.sections) + 1 /\ Len(x.sections) \in Nat
      /\ DOMAIN x.found = ToSet(setup.wired) /\ k = setup.wired[x.next]
  <2>1. x.sections \in Seq(ToSet(x.sections)) /\ x.next = Len(x.sections) + 1
        /\ DOMAIN x.found = ToSet(setup.wired) /\ x.next <= Len(setup.wired)
    BY <1>1, <1>2 DEF CallOK
  <2>2. Len(x.sections) \in Nat
    BY <2>1
  <2> QED
    BY <1>3, <2>1, <2>2 DEF Due
<1>5. k \in DOMAIN x.found
  BY <1>3, <1>4 DEF ToSet
<1>6. \E s : /\ Entered(c, s)
             /\ s = x.found[k] \/ \E why \in {"error", "timed_out"} : s = Unavailable(k, why, "warning")
  BY DEF Result
<1>7. PICK s : /\ Entered(c, s)
               /\ s = x.found[k] \/ \E why \in {"error", "timed_out"} : s = Unavailable(k, why, "warning")
  BY <1>6
<1>8. Good(s, k, x, setup, stamp, place, late)
  <2>1. CASE s = x.found[k]
    BY <1>2, <1>5, <2>1 DEF SectionsOK
  <2>2. ASSUME NEW why \in {"error", "timed_out"}, s = Unavailable(k, why, "warning")
        PROVE  Good(s, k, x, setup, stamp, place, late)
    <3>1. s.sources = << <<k, why>> >> /\ IsSection(s) /\ s.type = k
      BY <2>2, UnavailableFacts
    <3>2. <<k, why>> \in ToSet(s.sources)
      BY <3>1 DEF ToSet
    <3>3. \A f : Tells(s, k, f)
      BY <3>2 DEF Tells
    <3> QED
      BY <3>1, <3>3 DEF Good
  <2> QED
    BY <1>7, <2>1, <2>2
<1>9. /\ call' = [call EXCEPT ![c] = y]
      /\ y = [x EXCEPT !.sections = Append(x.sections, s), !.next = x.next + 1,
                       !.step = IF x.next = Len(setup.wired) THEN "joining" ELSE x.step]
  BY <1>2, <1>7 DEF Entered
<1> HIDE DEF x, y, k
<1>10. /\ y.sections = Append(x.sections, s) /\ y.next = x.next + 1
       /\ y.step = (IF x.next = Len(setup.wired) THEN "joining" ELSE x.step)
       /\ y.found = x.found /\ y.start = x.start /\ y.at = x.at
       /\ y.active = x.active /\ y.kept = x.kept /\ y.thread = x.thread
  BY <1>2, <1>9
<1>11. /\ y.sections \in Seq(ToSet(y.sections)) /\ Len(y.sections) = Len(x.sections) + 1
       /\ \A i \in 1..Len(x.sections) : y.sections[i] = x.sections[i]
       /\ y.sections[Len(x.sections) + 1] = s
  BY <1>2, <1>10, AppendFacts DEF CallOK
<1>12. CallOK(y, setup, clock, EndsOf(past))
  <2>1. y = [step |-> y.step, at |-> y.at, start |-> y.start, thread |-> y.thread,
             active |-> y.active, found |-> y.found, next |-> y.next, sections |-> y.sections,
             kept |-> y.kept]
    BY <1>2, <1>9
  <2>2. y.step \in {"collecting", "joining"}
        /\ (y.step = "joining" => x.next = Len(setup.wired))
        /\ (y.step = "collecting" => x.next # Len(setup.wired))
    BY <1>1, <1>10
  <2>3. y.step = "collecting" => y.next <= Len(setup.wired)
    BY <1>3, <1>4, <1>10, <2>2
  <2>4. y.step = "joining" => Len(y.sections) = Len(setup.wired)
    BY <1>4, <1>11, <2>2
  <2> QED
    BY <1>2, <1>4, <1>10, <1>11, <2>1, <2>2, <2>3, <2>4 DEF CallOK
<1>13. SectionsOK(y, setup, stamp, place, late)
  <2>1. ASSUME NEW t, NEW q, Good(t, q, x, setup, stamp, place, late)
        PROVE  Good(t, q, y, setup, stamp, place, late)
    BY <1>10, <2>1 DEF Good
  <2>2. ASSUME NEW i \in 1..Len(y.sections)
        PROVE  Good(y.sections[i], setup.wired[i], y, setup, stamp, place, late)
    <3>1. CASE i \in 1..Len(x.sections)
      BY <1>2, <1>11, <2>1, <3>1 DEF SectionsOK
    <3>2. CASE i \notin 1..Len(x.sections)
      <4>1. i = Len(x.sections) + 1
        BY <1>4, <1>11, <3>2
      <4> QED
        BY <1>4, <1>8, <1>11, <2>1, <4>1
    <3> QED
      BY <3>1, <3>2
  <2>3. \A q \in DOMAIN y.found : Good(y.found[q], q, y, setup, stamp, place, late)
    BY <1>2, <1>10, <2>1 DEF SectionsOK
  <2> QED
    BY <2>2, <2>3 DEF SectionsOK
<1> QED
  BY <1>1, <1>2, <1>9, <1>12, <1>13, OneCallStep DEF y

\* The copy of the last records: each is the time of a returned briefing.
LEMMA TrimStep ==
  ASSUME BriefingInv, NEW c \in Callers, Trim(c)
  PROVE  BriefingInv'
<1> DEFINE y == call'[c]
           x == call[c]
           kept == SubSeq(records, Len(records) - MaxRecords + 1, Len(records))
<1>1. UNCHANGED <<setup, clock, stamp, place, past, late, records>>
      /\ x.step = "recorded"
      /\ call' = IF Len(records) > MaxRecords
                 THEN [call EXCEPT ![c].step = "trimming", ![c].kept = kept]
                 ELSE [call EXCEPT ![c].step = "idle"]
  BY DEF Trim
<1>2. /\ call = [d \in Callers |-> call[d]] /\ records \in Seq(EndsOf(past))
      /\ x = [step |-> x.step, at |-> x.at, start |-> x.start, thread |-> x.thread,
              active |-> x.active, found |-> x.found, next |-> x.next, sections |-> x.sections,
              kept |-> x.kept]
      /\ CallOK(x, setup, clock, EndsOf(past)) /\ SectionsOK(x, setup, stamp, place, late)
  BY CallFacts
<1>3. Len(records) > MaxRecords => kept \in Seq(EndsOf(past))
  <2> SUFFICES ASSUME Len(records) > MaxRecords PROVE kept \in Seq(EndsOf(past))
    OBVIOUS
  <2>1. MaxRecords \in Nat \ {0} /\ Len(records) \in Nat
    BY <1>2, BriefingConstantsOK
  <2>2. \A i \in (Len(records) - MaxRecords + 1)..Len(records) : records[i] \in EndsOf(past)
    BY <1>2, <2>1
  <2> QED
    BY <1>2, <2>1, <2>2, SubSeqProperties
<1> HIDE DEF kept
<1>4. /\ call' = [call EXCEPT ![c] = y]
      /\ y = [x EXCEPT !.step = y.step, !.kept = y.kept]
      /\ y.step \in {"trimming", "idle"}
      /\ y.kept = x.kept \/ (Len(records) > MaxRecords /\ y.kept = kept)
  BY <1>1, <1>2
<1> HIDE DEF x, y
<1>5. y.kept \in Seq(EndsOf(past))
  BY <1>2, <1>3, <1>4 DEF CallOK
<1>6. /\ y.found = x.found /\ y.start = x.start /\ y.at = x.at /\ y.sections = x.sections
      /\ y.active = x.active /\ y.thread = x.thread /\ y.next = x.next
      /\ y = [step |-> y.step, at |-> y.at, start |-> y.start, thread |-> y.thread,
             active |-> y.active, found |-> y.found, next |-> y.next, sections |-> y.sections,
             kept |-> y.kept]
  BY <1>2, <1>4
<1>7. CallOK(y, setup, clock, EndsOf(past))
  BY <1>2, <1>4, <1>5, <1>6 DEF CallOK
<1>8. SectionsOK(y, setup, stamp, place, late)
  BY <1>2, <1>6 DEF SectionsOK, Good
<1> QED
  BY <1>1, <1>2, <1>4, <1>7, <1>8, OneCallStep DEF y

\* The copied end of the list takes the list's place.
LEMMA KeepLastStep ==
  ASSUME BriefingInv, NEW c \in Callers, KeepLast(c)
  PROVE  BriefingInv'
<1>1. UNCHANGED <<setup, clock, stamp, place, past, late>> /\ records' = call[c].kept
      /\ call' = [call EXCEPT ![c] = NoCall]
  BY DEF KeepLast
<1>2. /\ call = [d \in Callers |-> call[d]] /\ clock \in Nat
      /\ CallOK(call[c], setup, clock, EndsOf(past))
  BY CallFacts
<1>3. call' = [call EXCEPT ![c] = call'[c]] /\ call'[c] = NoCall
  BY <1>1, <1>2
<1>4. NoCall = [NoCall EXCEPT !.step = NoCall.step] /\ NoCall.step = "idle"
  BY DEF NoCall
<1>5. CallOK(NoCall, setup, clock, EndsOf(past)) /\ SectionsOK(NoCall, setup, stamp, place, late)
  BY <1>2, <1>4, NoCallOK
<1>6. records' \in Seq(EndsOf(past))
  BY <1>1, <1>2 DEF CallOK
<1> QED
  BY <1>1, <1>3, <1>5, <1>6, OneCallStep

\* Delivering: the new briefing's window begins where another ended or before any
\* fact, so no moment is left between them; and its sections have told what they owed.
LEMMA DeliverStep ==
  ASSUME BriefingInv, NEW c \in Callers, Deliver(c)
  PROVE  BriefingInv'
<1> DEFINE x == call[c]
           b == Compose(x.at, x.start, Deduplicate(InOrder(x.sections)),
                        AllItems(Deduplicate(InOrder(x.sections))))
<1>1. /\ UNCHANGED <<setup, clock, stamp, place, late>> /\ x.step = "joining"
      /\ records' = Append(records, x.at) /\ past' = past \cup {b}
      /\ call' = [call EXCEPT ![c] = [NoCall EXCEPT !.step = "recorded"]]
  BY DEF Deliver
<1>2. /\ TimesOK /\ setup \in Setups /\ clock \in Nat /\ call = [d \in Callers |-> call[d]]
      /\ clock <= RecentWindow /\ RecentWindow \in Nat
      /\ records \in Seq(EndsOf(past))
      /\ CallOK(x, setup, clock, EndsOf(past)) /\ SectionsOK(x, setup, stamp, place, late)
      /\ PastOK /\ WindowsMeet(past) /\ CallsOK
  BY CallFacts DEF BriefingInv
<1>3. x.at \in Nat /\ x.at <= clock /\ x.start \in Int /\ (x.start <= 0 \/ x.start \in EndsOf(past))
  BY <1>2 DEF CallOK
<1>4. /\ Len(x.sections) = Len(setup.wired) /\ x.sections \in Seq(ToSet(x.sections))
      /\ setup.wired \in Seq(ToSet(CollectorNames))
      /\ DOMAIN setup.wired = 1..Len(setup.wired) /\ DOMAIN x.sections = 1..Len(x.sections)
  BY <1>1, <1>2, SetupFacts DEF CallOK
<1>5. \A i \in 1..Len(x.sections) :
        x.sections[i] \in ToSet(x.sections) /\ Good(x.sections[i], setup.wired[i], x, setup, stamp, place, late)
  BY <1>2, <1>4 DEF SectionsOK, ToSet
<1>6. \A s \in ToSet(x.sections) : IsSection(s) /\ s.type \in ToSet(CollectorNames)
  <2>1. \A i \in 1..Len(setup.wired) : setup.wired[i] \in ToSet(CollectorNames)
    BY <1>4
  <2>2. \A s \in ToSet(x.sections) : \E i \in 1..Len(x.sections) : s = x.sections[i]
    BY <1>4 DEF ToSet
  <2>3. ASSUME NEW s \in ToSet(x.sections) PROVE IsSection(s) /\ s.type \in ToSet(CollectorNames)
    <3>1. PICK i \in 1..Len(x.sections) : s = x.sections[i]
      BY <2>2
    <3>2. IsSection(s) /\ s.type = setup.wired[i]
      BY <1>5, <3>1 DEF Good
    <3>3. i \in 1..Len(setup.wired)
      BY <1>4
    <3> QED
      BY <2>1, <3>2, <3>3
  <2> QED
    BY <2>3
<1>7. /\ b.at = x.at /\ b.start = x.start /\ IsInjective(b.items) /\ IsInjective(b.priorities)
      /\ \A s \in ToSet(x.sections) : \A id : Names(s.items, id) => \E i \in DOMAIN b.items : b.items[i] = id
      /\ \A s \in ToSet(x.sections) : \A r \in ToSet(s.sources) : r[2] # "available" => r[1] \in b.unread
  <2> HIDE DEF x
  <2>1. b = Compose(x.at, x.start, Deduplicate(InOrder(x.sections)),
                    AllItems(Deduplicate(InOrder(x.sections))))
    OBVIOUS
  <2> HIDE DEF b
  <2> QED
    <3>1. x.sections \in Seq(ToSet(x.sections))
      BY <1>4
    <3> QED
      BY <1>6, <2>1, <3>1, ComposeFacts
<1> HIDE DEF x, b
<1>8. BriefingOK(b, setup, clock, stamp, place, late)
  <2>1. ASSUME NEW f \in setup.facts, Tellable(f), SourceOf(f) \in ToSet(setup.wired),
               Owed(f, b.start, b.at, stamp, place, late)
        PROVE  Told(b, f) \/ SourceOf(f) \in b.unread
    <3>1. PICK i \in 1..Len(x.sections) : setup.wired[i] = SourceOf(f)
      BY <1>4, <2>1 DEF ToSet
    <3>2. Tells(x.sections[i], SourceOf(f), f)
      BY <1>5, <1>7, <2>1, <3>1 DEF Good
    <3> QED
      BY <1>5, <1>7, <3>2 DEF Tells, Told
  <2> QED
    BY <1>3, <1>7, <2>1 DEF BriefingOK
<1>9. TimesOK' /\ Frame
  <2>1. TimesOK'
    BY <1>1, <1>2 DEF TimesOK
  <2>2. past \subseteq past' /\ late \subseteq late' /\ TimesOK
        /\ setup' = setup /\ clock' = clock /\ stamp' = stamp /\ place' = place
    BY <1>1, <1>2
  <2> QED
    BY <2>1, <2>2, FrameOfCalls
<1>10. PastOK'
  <2>1. ASSUME NEW p \in past' PROVE BriefingOK(p, setup', clock', stamp', place', late')
    <3>1. p = b \/ p \in past
      BY <1>1
    <3>2. BriefingOK(p, setup, clock, stamp, place, late)
      BY <1>2, <1>8, <3>1 DEF PastOK
    <3> QED
      BY <1>2, <1>9, <3>2, KeptBriefing
  <2> QED
    BY <2>1 DEF PastOK
<1>11. (records \in Seq(EndsOf(past)))'
  <2>1. EndsOf(past) \subseteq EndsOf(past') /\ x.at \in EndsOf(past')
    BY <1>1, <1>7 DEF EndsOf
  <2>2. records \in Seq(EndsOf(past'))
    BY <1>2, <2>1, SeqMonotonic
  <2> QED
    BY <1>1, <2>1, <2>2
<1>12. WindowsMeet(past')
  <2>1. ASSUME NEW t \in 1..RecentWindow, NEW p \in past', t < p.at
        PROVE  \E q \in past' : q.start <= t /\ t < q.at
    <3>1. t \in Nat /\ t > 0 /\ t \in Int
      BY <1>2
    <3>2. (\E q \in past : t < q.at) => \E q \in past : q.start <= t /\ t < q.at
      BY <1>2 DEF WindowsMeet
    <3>3. CASE p \in past
      BY <1>1, <2>1, <3>2, <3>3
    <3>4. CASE p = b /\ x.start <= t
      BY <1>1, <1>7, <2>1, <3>4
    <3>5. CASE p = b /\ ~(x.start <= t)
      <4>1. x.start \in EndsOf(past) /\ t < x.start
        BY <1>3, <3>1, <3>5
      <4>2. \E q \in past : t < q.at
        BY <4>1 DEF EndsOf
      <4> QED
        BY <1>1, <3>2, <4>2
    <3> QED
      BY <1>1, <3>3, <3>4, <3>5
  <2> QED
    BY <2>1 DEF WindowsMeet
<1>13. CallsOK'
  <2>1. call' = [d \in Callers |-> call'[d]] /\ \A d \in Callers : d # c => call'[d] = call[d]
    BY <1>1, <1>2
  <2>2. call'[c] = [NoCall EXCEPT !.step = "recorded"]
    BY <1>1, <1>2
  <2>3. call'[c].step = "recorded"
    BY <2>2 DEF NoCall
  <2>4. CallOK(call'[c], setup', clock', EndsOf(past'))
        /\ SectionsOK(call'[c], setup', stamp', place', late')
    <3>1. clock' \in Nat
      BY <1>1, <1>2
    <3>2. call'[c] = [NoCall EXCEPT !.step = call'[c].step] /\ call'[c].step \notin {"collecting", "joining"}
      BY <2>2, <2>3
    <3> QED
      BY <3>1, <3>2, NoCallOK
  <2>5. ASSUME NEW d \in Callers, d # c
        PROVE  CallOK(call'[d], setup', clock', EndsOf(past'))
               /\ SectionsOK(call'[d], setup', stamp', place', late')
    <3>1. CallOK(call[d], setup, clock, EndsOf(past)) /\ SectionsOK(call[d], setup, stamp, place, late)
      BY <1>2 DEF CallsOK
    <3>2. CallOK(call[d], setup', clock', EndsOf(past'))
          /\ SectionsOK(call[d], setup', stamp', place', late')
      BY <1>2, <1>9, <3>1, KeptCall
    <3> QED
      BY <2>1, <2>5, <3>2
  <2>6. \A d \in Callers : CallOK(call'[d], setup', clock', EndsOf(past'))
               /\ SectionsOK(call'[d], setup', stamp', place', late')
    BY <2>4, <2>5
  <2> QED
    BY <2>1, <2>6 DEF CallsOK
<1> QED
  BY <1>9, <1>10, <1>11, <1>12, <1>13 DEF BriefingInv

\* Every step keeps the invariant.
LEMMA BriefingInvStep == BriefingInv /\ [BriefNext]_briefVars => BriefingInv'
<1> SUFFICES ASSUME BriefingInv, [BriefNext]_briefVars PROVE BriefingInv'
  OBVIOUS
<1>1. CASE Tick
  BY <1>1, SourcesStep
<1>2. CASE \E f \in setup.facts : Stamp(f) \/ TakeOut(f) \/ StoreFact(f)
  BY <1>2, SourcesStep
<1>3. ASSUME NEW c \in Callers, Called(c) \/ ServiceStep(c) PROVE BriefingInv'
  BY <1>3, CalledStep, SubmitStep, ResultStep, DeliverStep, TrimStep, KeepLastStep DEF ServiceStep
<1>4. ASSUME NEW c \in Callers, CollectorStep(c) PROVE BriefingInv'
  BY <1>4, LookAtActiveStep, RunCollectorStep, BreakStep DEF CollectorStep
<1>5. CASE UNCHANGED briefVars
  BY <1>5 DEF briefVars, BriefingInv, TimesOK, PastOK, CallsOK
<1> QED
  BY <1>1, <1>2, <1>3, <1>4, <1>5 DEF BriefNext

LEMMA BriefingInvHolds == BriefSpec => []BriefingInv
<1>1. BriefInit => BriefingInv
  BY BriefingInitOK
<1>2. BriefingInv /\ [BriefNext]_briefVars => BriefingInv'
  BY BriefingInvStep
<1> QED
  BY <1>1, <1>2, PTL DEF BriefSpec

\* For any overlap of requests, any list of collectors and whatever the store forgets:
\* each moment before the end of a returned briefing lies in some briefing's window, and
\* that one names the facts of its window or owns up.  (_period_start, record, generate)
THEOREM NothingFallsBetween == BriefSpec => []NothingUntold
<1>1. BriefingInv => NothingUntold
  <2> SUFFICES ASSUME BriefingInv, NEW f \in setup.facts, Tellable(f),
                      SourceOf(f) \in ToSet(setup.wired), place[f] = "stored", f \notin late,
                      NEW p \in past, stamp[f] < p.at
               PROVE  \E b \in past : Told(b, f) \/ Confessed(b, f)
    BY DEF NothingUntold
  <2>1. TimesOK /\ PastOK /\ WindowsMeet(past)
    BY DEF BriefingInv
  <2>2. stamp[f] \in 1..RecentWindow
    <3>1. f \in Facts /\ clock \in 1..setup.end /\ setup.end \in Nat /\ setup.end <= RecentWindow
          /\ RecentWindow \in Nat
      BY <2>1, SetupFacts DEF TimesOK
    <3>2. stamp[f] \in Nat /\ stamp[f] # 0 /\ stamp[f] <= clock
      BY <2>1, <3>1 DEF TimesOK
    <3> QED
      BY <3>1, <3>2
  <2>3. PICK b \in past : b.start <= stamp[f] /\ stamp[f] < b.at
    BY <2>1, <2>2 DEF WindowsMeet
  <2>4. BriefingOK(b, setup, clock, stamp, place, late)
    BY <2>1 DEF PastOK
  <2>5. Owed(f, b.start, b.at, stamp, place, late)
    BY <2>3 DEF Owed
  <2>6. Told(b, f) \/ SourceOf(f) \in b.unread
    BY <2>4, <2>5 DEF BriefingOK
  <2>7. stamp[f] <= b.at
    BY <2>2, <2>3, <2>4 DEF BriefingOK
  <2> QED
    BY <2>3, <2>6, <2>7 DEF Confessed
<1> QED
  BY <1>1, BriefingInvHolds, PTL

\* For any sources, in whatever state the collectors find them: a briefing names a thing
\* once, as _deduplicate leaves each id one place and _priorities takes each weight's
\* places in turn.
THEOREM EachThingOnce == BriefSpec => []ToldOnce
<1>1. BriefingInv => ToldOnce
  BY DEF BriefingInv, PastOK, BriefingOK, ToldOnce
<1> QED
  BY <1>1, BriefingInvHolds, PTL

(***************************************************************************)
(* No request waits for another                                            *)
(***************************************************************************)
\* The guards of ServiceStep(c) and of CollectorStep(c), Break left out.
ServiceCanGo(c) ==
  LET over(k) == call[c].thread[k] \in {"done", "raised"}
  IN  \/ call[c].step \in {"stamped", "recorded", "trimming"}
      \/ call[c].step = "collecting" /\ (over(Due(c)) \/ Due(c) \in setup.slow)
      \/ call[c].step = "joining" /\ \A k \in DOMAIN call[c].thread : over(k)

CollectorCanGo(c) ==
  \E k \in DOMAIN call[c].thread \cap ToSet(CollectorNames) :
    \/ call[c].thread[k] = "running"
    \/ call[c].thread[k] = "half" /\ k = "agents"

\* A request that has not its briefing yet goes on by itself, or one of its own
\* collectors does.
EachRequestGoesOn ==
  \A c \in Callers : call[c].step # "idle" => ServiceCanGo(c) \/ CollectorCanGo(c)

\* The threads of a call are those of its collectors; only the agents are read in two looks.
ThreadsRight(x) ==
  /\ x.step \in {"idle", "stamped", "collecting", "joining", "recorded", "trimming"}
  /\ x.step \in {"collecting", "joining"} =>
       /\ x.thread = [k \in ToSet(setup.wired) |-> x.thread[k]]
       /\ \A k \in ToSet(setup.wired) :
            /\ x.thread[k] \in {"running", "half", "done", "raised"}
            /\ x.thread[k] = "half" => k = "agents"

AllThreadsRight == \A c \in Callers : ThreadsRight(call[c])

\* A step of one call leaves the threads of the others alone.
LEMMA OneCallThreads ==
  ASSUME BriefingInv, AllThreadsRight, NEW c \in Callers, setup' = setup,
         call' = [call EXCEPT ![c] = call'[c]], ThreadsRight(call'[c])
  PROVE  AllThreadsRight'
<1>1. call = [d \in Callers |-> call[d]]
  BY DEF BriefingInv, CallsOK
<1>2. \A d \in Callers : d = c \/ call'[d] = call[d]
  BY <1>1
<1>3. \A d \in Callers : ThreadsRight(call'[d])
  BY <1>2 DEF AllThreadsRight
<1> QED
  BY <1>3 DEF AllThreadsRight, ThreadsRight

\* The thread k of a call goes over to another state, which fits it.
LEMMA OneThread ==
  ASSUME BriefingInv, AllThreadsRight, NEW c \in Callers, setup' = setup,
         call' = [call EXCEPT ![c] = call'[c]],
         NEW k \in DOMAIN call[c].thread, NEW next \in {"half", "done", "raised"},
         next = "half" => k = "agents",
         call'[c].step = call[c].step,
         call'[c].thread = [call[c].thread EXCEPT ![k] = next]
  PROVE  AllThreadsRight'
<1>1. ThreadsRight(call[c])
  BY DEF AllThreadsRight
<1>2. ThreadsRight(call'[c])
  BY <1>1 DEF ThreadsRight
<1> QED
  BY <1>2, OneCallThreads

\* Every step keeps the threads right.
LEMMA ThreadsStep == BriefingInv /\ AllThreadsRight /\ [BriefNext]_briefVars => AllThreadsRight'
<1> SUFFICES ASSUME BriefingInv, AllThreadsRight, [BriefNext]_briefVars PROVE AllThreadsRight'
  OBVIOUS
<1>1. CASE \/ Tick
           \/ \E f \in setup.facts : Stamp(f) \/ TakeOut(f) \/ StoreFact(f)
           \/ UNCHANGED briefVars
  BY <1>1 DEF Tick, Stamp, TakeOut, StoreFact, briefVars, AllThreadsRight, ThreadsRight
<1>2. call = [d \in Callers |-> call[d]]
  BY DEF BriefingInv, CallsOK
<1>3. ASSUME NEW c \in Callers
      PROVE  call[c] = [step |-> call[c].step, at |-> call[c].at, start |-> call[c].start,
                        thread |-> call[c].thread, active |-> call[c].active,
                        found |-> call[c].found, next |-> call[c].next,
                        sections |-> call[c].sections, kept |-> call[c].kept]
  BY CallFacts
<1>4. ASSUME NEW c \in Callers, Called(c) \/ Deliver(c) \/ Trim(c) \/ KeepLast(c)
      PROVE  AllThreadsRight'
  <2>1. setup' = setup
    BY <1>4 DEF Called, Deliver, Trim, KeepLast
  <2>2. \/ call' = [call EXCEPT ![c] = [NoCall EXCEPT !.step = "stamped", !.at = clock]]
        \/ call' = [call EXCEPT ![c] = [NoCall EXCEPT !.step = "recorded"]]
        \/ call' = [call EXCEPT ![c] = NoCall]
        \/ \E kept : call' = [call EXCEPT ![c].step = "trimming", ![c].kept = kept]
        \/ call' = [call EXCEPT ![c].step = "idle"]
    BY <1>4 DEF Called, Deliver, Trim, KeepLast
  <2>3. call' = [call EXCEPT ![c] = call'[c]]
    BY <1>2, <2>2
  <2>4. \/ call'[c] = [NoCall EXCEPT !.step = "stamped", !.at = clock]
        \/ call'[c] = [NoCall EXCEPT !.step = "recorded"]
        \/ call'[c] = NoCall
        \/ \E kept : call'[c] = [call[c] EXCEPT !.step = "trimming", !.kept = kept]
        \/ call'[c] = [call[c] EXCEPT !.step = "idle"]
    BY <1>2, <2>2
  <2>5. call'[c].step \in {"stamped", "recorded", "trimming", "idle"}
    <3>1. /\ [NoCall EXCEPT !.step = "stamped", !.at = clock].step = "stamped"
          /\ [NoCall EXCEPT !.step = "recorded"].step = "recorded"
          /\ NoCall.step = "idle"
      BY DEF NoCall
    <3>2. /\ \A kept : [call[c] EXCEPT !.step = "trimming", !.kept = kept].step = "trimming"
          /\ [call[c] EXCEPT !.step = "idle"].step = "idle"
      BY <1>3
    <3>3. CASE \E kept : call'[c] = [call[c] EXCEPT !.step = "trimming", !.kept = kept]
      <4>1. PICK kept : call'[c] = [call[c] EXCEPT !.step = "trimming", !.kept = kept]
        BY <3>3
      <4> QED
        BY <3>2, <4>1
    <3>4. CASE call'[c] = NoCall \/ call'[c] = [call[c] EXCEPT !.step = "idle"]
      BY <3>1, <3>2, <3>4
    <3>5. CASE \/ call'[c] = [NoCall EXCEPT !.step = "stamped", !.at = clock]
               \/ call'[c] = [NoCall EXCEPT !.step = "recorded"]
      BY <3>1, <3>5
    <3> QED
      BY <2>4, <3>3, <3>4, <3>5
  <2>6. ThreadsRight(call'[c])
    BY <2>5 DEF ThreadsRight
  <2> QED
    BY <2>1, <2>3, <2>6, OneCallThreads
<1>5. ASSUME NEW c \in Callers, Submit(c) PROVE AllThreadsRight'
  <2> DEFINE threads == [k \in ToSet(setup.wired) |-> "running"]
             opened  == [k \in ToSet(setup.wired) |-> Unavailable(k, "unread", "info")]
  <2>1. /\ setup' = setup
        /\ call' = [call EXCEPT ![c].step = "collecting", ![c].start = PeriodStart(call[c].at),
                                ![c].thread = threads, ![c].found = opened]
    BY <1>5 DEF Submit
  <2> HIDE DEF threads, opened
  <2>2. call' = [call EXCEPT ![c] = call'[c]]
    BY <1>2, <2>1
  <2>3. call'[c] = [call[c] EXCEPT !.step = "collecting", !.start = PeriodStart(call[c].at),
                                   !.thread = threads, !.found = opened]
    BY <1>2, <2>1
  <2>4. call'[c].step = "collecting" /\ call'[c].thread = threads
    BY <1>3, <2>3
  <2>5. ThreadsRight(call'[c])
    BY <2>4 DEF ThreadsRight, threads
  <2> QED
    BY <2>1, <2>2, <2>5, OneCallThreads
<1>6. ASSUME NEW c \in Callers, Result(c) PROVE AllThreadsRight'
  <2>1. setup' = setup /\ call[c].step = "collecting"
    BY <1>6 DEF Result
  <2>2. PICK section : Entered(c, section)
    BY <1>6 DEF Result
  <2> DEFINE after == IF call[c].next = Len(setup.wired) THEN "joining" ELSE call[c].step
  <2>3. call' = [call EXCEPT ![c].sections = Append(call[c].sections, section),
                             ![c].next = call[c].next + 1, ![c].step = after]
    BY <1>2, <2>2 DEF Entered
  <2>4. after \in {"collecting", "joining"}
    BY <2>1
  <2> HIDE DEF after
  <2>5. call' = [call EXCEPT ![c] = call'[c]]
    BY <1>2, <2>3
  <2>6. call'[c] = [call[c] EXCEPT !.sections = Append(call[c].sections, section),
                                   !.next = call[c].next + 1, !.step = after]
    BY <1>2, <2>3
  <2>7. call'[c].step = after /\ call'[c].thread = call[c].thread
    BY <1>3, <2>6
  <2>8. ThreadsRight(call'[c])
    BY <2>1, <2>4, <2>7 DEF AllThreadsRight, ThreadsRight
  <2> QED
    BY <2>1, <2>5, <2>8, OneCallThreads
<1>7. ASSUME NEW c \in Callers, LookAtActive(c) PROVE AllThreadsRight'
  <2>1. /\ setup' = setup /\ "agents" \in DOMAIN call[c].thread
        /\ call' = [call EXCEPT ![c].thread["agents"] = "half", ![c].active = ActiveAgents]
    BY <1>7 DEF LookAtActive
  <2>2. call' = [call EXCEPT ![c] = call'[c]]
    BY <1>2, <2>1
  <2>3. call'[c] = [call[c] EXCEPT !.thread["agents"] = "half", !.active = ActiveAgents]
    BY <1>2, <2>1
  <2>4. /\ call'[c].step = call[c].step
        /\ call'[c].thread = [call[c].thread EXCEPT !["agents"] = "half"]
    BY <1>3, <2>3
  <2> QED
    BY <2>1, <2>2, <2>4, OneThread
<1>8. ASSUME NEW c \in Callers, NEW k, RunCollector(c, k) PROVE AllThreadsRight'
  <2>1. /\ setup' = setup /\ k \in DOMAIN call[c].thread
        /\ call' = [call EXCEPT ![c].thread[k] = "done", ![c].found[k] = SectionOf(c, k)]
    BY <1>8 DEF RunCollector
  <2>2. call' = [call EXCEPT ![c] = call'[c]]
    BY <1>2, <2>1
  <2>3. call'[c] = [call[c] EXCEPT !.thread[k] = "done", !.found[k] = SectionOf(c, k)]
    BY <1>2, <2>1
  <2>4. /\ call'[c].step = call[c].step
        /\ call'[c].thread = [call[c].thread EXCEPT ![k] = "done"]
    BY <1>3, <2>3
  <2> QED
    BY <2>1, <2>2, <2>4, OneThread
<1>9. ASSUME NEW c \in Callers, NEW k, Break(c, k) PROVE AllThreadsRight'
  <2>1. /\ setup' = setup /\ k \in DOMAIN call[c].thread
        /\ call' = [call EXCEPT ![c].thread[k] = "raised"]
    BY <1>9 DEF Break
  <2>2. call' = [call EXCEPT ![c] = call'[c]]
    BY <1>2, <2>1
  <2>3. call'[c] = [call[c] EXCEPT !.thread[k] = "raised"]
    BY <1>2, <2>1
  <2>4. /\ call'[c].step = call[c].step
        /\ call'[c].thread = [call[c].thread EXCEPT ![k] = "raised"]
    BY <1>3, <2>3
  <2> QED
    BY <2>1, <2>2, <2>4, OneThread
<1> QED
  BY <1>1, <1>4, <1>5, <1>6, <1>7, <1>8, <1>9 DEF BriefNext, ServiceStep, CollectorStep

\* A call with its threads right has a step of its own.
LEMMA RequestGoesOn ==
  ASSUME BriefingInv, AllThreadsRight
  PROVE  EachRequestGoesOn
<1> SUFFICES ASSUME NEW c \in Callers, call[c].step # "idle"
             PROVE  ServiceCanGo(c) \/ CollectorCanGo(c)
  BY DEF EachRequestGoesOn
<1>1. ThreadsRight(call[c])
  BY DEF AllThreadsRight
<1>2. CASE call[c].step \notin {"collecting", "joining"}
  BY <1>1, <1>2 DEF ThreadsRight, ServiceCanGo
<1>3. CASE call[c].step \in {"collecting", "joining"}
  <2>1. /\ DOMAIN call[c].thread = ToSet(setup.wired)
        /\ \A k \in ToSet(setup.wired) :
             /\ call[c].thread[k] \in {"running", "half", "done", "raised"}
             /\ call[c].thread[k] = "half" => k = "agents"
    BY <1>1, <1>3 DEF ThreadsRight
  <2>2. /\ setup.wired \in Seq(ToSet(CollectorNames))
        /\ DOMAIN setup.wired = 1..Len(setup.wired)
    BY CallFacts, SetupFacts
  <2>3. ToSet(setup.wired) \subseteq ToSet(CollectorNames)
    <3>1. PICK names : names = ToSet(CollectorNames)
      OBVIOUS
    <3>2. setup.wired \in Seq(names)
      BY <2>2, <3>1
    <3>3. \A i \in 1..Len(setup.wired) : setup.wired[i] \in names
      BY <3>2
    <3> QED
      BY <2>2, <3>1, <3>3 DEF ToSet
  <2>4. CASE \E k \in ToSet(setup.wired) : call[c].thread[k] \notin {"done", "raised"}
    BY <2>1, <2>3, <2>4 DEF CollectorCanGo
  <2>5. CASE /\ \A k \in ToSet(setup.wired) : call[c].thread[k] \in {"done", "raised"}
             /\ call[c].step = "joining"
    BY <2>1, <2>5 DEF ServiceCanGo
  <2>6. CASE /\ \A k \in ToSet(setup.wired) : call[c].thread[k] \in {"done", "raised"}
             /\ call[c].step = "collecting"
    <3>1. CallOK(call[c], setup, clock, EndsOf(past))
      BY CallFacts
    <3>2. /\ call[c].sections \in Seq(ToSet(call[c].sections))
          /\ call[c].next = Len(call[c].sections) + 1 /\ call[c].next <= Len(setup.wired)
      BY <2>6, <3>1 DEF CallOK
    <3>3. call[c].next \in 1..Len(setup.wired)
      BY <2>2, <3>2
    <3>4. Due(c) \in ToSet(setup.wired)
      BY <2>2, <3>3 DEF Due, ToSet
    <3> QED
      BY <2>6, <3>4 DEF ServiceCanGo
  <2> QED
    BY <1>3, <2>4, <2>5, <2>6
<1> QED
  BY <1>2, <1>3

\* However many briefings are generated at once, a request waits for nobody but its own
\* collectors: it has its result to take, its briefing to put together or to record, or a
\* collector of its own has a source to read.
THEOREM EachBriefingGoesOn == BriefSpec => []EachRequestGoesOn
<1>1. BriefInit => AllThreadsRight
  BY DEF BriefInit, AllThreadsRight, ThreadsRight, NoCall
<1>2. BriefingInv /\ AllThreadsRight => EachRequestGoesOn
  BY RequestGoesOn
<1> QED
  BY <1>1, <1>2, ThreadsStep, BriefingInvHolds, PTL DEF BriefSpec
===============================================================================
