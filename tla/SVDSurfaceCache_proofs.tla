---- MODULE SVDSurfaceCache_proofs ----
(***************************************************************************)
(* The cache of surfaces for any keys, surfaces, sizes and limits: its     *)
(* list and its map stay in step, the byte count is the sum of what is     *)
(* cached, what is cached is what was used last, and the whole is a lossy  *)
(* store.  The sum is a fold over a finite set; the facts about it are     *)
(* proved by the smallest part of the set for which they fail.             *)
(***************************************************************************)
EXTENDS SVDSurfaceCache, SequenceTheorems, FiniteSetTheorems, TLAPS

\* Erasing keeps a list of keys a list of keys without repetitions.
Distinct(list) == \A i, j \in 1..Len(list) : list[i] = list[j] => i = j
Elements(list) == {list[i] : i \in 1..Len(list)}

LEMMA EraseLemma ==
    ASSUME NEW S, NEW list \in Seq(S), Distinct(list), NEW k
    PROVE  /\ Erase(list, k) \in Seq(S)
           /\ Distinct(Erase(list, k))
           /\ Elements(Erase(list, k)) = Elements(list) \ {k}
<1>1. CASE \E i \in 1..Len(list) : list[i] = k
  <2> DEFINE n == CHOOSE i \in 1..Len(list) : list[i] = k
             e == [i \in 1..Len(list) - 1 |-> IF i < n THEN list[i] ELSE list[i + 1]]
  <2>1. n \in 1..Len(list) /\ list[n] = k
    BY <1>1
  <2>2. Erase(list, k) = e
    BY <1>1 DEF Erase
  <2> HIDE DEF n
  <2>3. e \in Seq(S) /\ Len(e) = Len(list) - 1
    BY <2>1
  <2>4. \A i \in 1..Len(e) : e[i] = IF i < n THEN list[i] ELSE list[i + 1]
    BY <2>1, <2>3
  <2> HIDE DEF e
  <2>5. Distinct(e)
    BY <2>1, <2>3, <2>4 DEF Distinct
  <2>6. Elements(e) = Elements(list) \ {k}
    <3>1. ASSUME NEW x \in Elements(e) PROVE x \in Elements(list) \ {k}
      <4>1. PICK i \in 1..Len(e) : x = e[i]
        BY DEF Elements
      <4>2. PICK j \in 1..Len(list) : x = list[j] /\ j # n
        BY <4>1, <2>1, <2>3, <2>4
      <4> QED BY <4>2, <2>1 DEF Elements, Distinct
    <3>2. ASSUME NEW x \in Elements(list) \ {k} PROVE x \in Elements(e)
      <4>1. PICK j \in 1..Len(list) : x = list[j] /\ j # n
        BY <2>1 DEF Elements
      <4>2. CASE j < n
        BY <4>1, <4>2, <2>1, <2>3, <2>4 DEF Elements
      <4>3. CASE j > n
        <5>1. j - 1 \in 1..Len(e) /\ e[j - 1] = x
          BY <4>1, <4>3, <2>1, <2>3, <2>4
        <5> QED BY <5>1 DEF Elements
      <4> QED BY <4>1, <4>2, <4>3, <2>1
    <3> QED BY <3>1, <3>2
  <2> QED BY <2>2, <2>3, <2>5, <2>6
<1>2. CASE ~ \E i \in 1..Len(list) : list[i] = k
  BY <1>2 DEF Erase, Elements
<1> QED BY <1>1, <1>2


LEMMA ToFrontLemma ==
    ASSUME NEW S, NEW list \in Seq(S), Distinct(list), NEW k \in S
    PROVE  /\ ToFront(list, k) \in Seq(S)
           /\ Distinct(ToFront(list, k))
           /\ Elements(ToFront(list, k)) = Elements(list) \cup {k}
<1> DEFINE e == Erase(list, k)
           f == ToFront(list, k)
<1>1. e \in Seq(S) /\ Distinct(e) /\ Elements(e) = Elements(list) \ {k}
  BY EraseLemma
<1> HIDE DEF e
<1>2. f = <<k>> \o e
  BY DEF ToFront, e
<1>3. f \in Seq(S) /\ Len(f) = Len(e) + 1
  BY <1>1, <1>2
<1>4. f[1] = k /\ \A i \in 1..Len(e) : f[i + 1] = e[i]
  BY <1>1, <1>2
<1> HIDE DEF f
<1>5. Distinct(f)
  <2> SUFFICES ASSUME NEW i \in 1..Len(f), NEW j \in 1..Len(f), i < j PROVE f[i] # f[j]
    BY <1>3, <1>1 DEF Distinct
  <2>1. f[j] = e[j - 1] /\ j - 1 \in 1..Len(e)
    BY <1>1, <1>3, <1>4
  <2>2. CASE i = 1
    BY <2>1, <2>2, <1>1, <1>4 DEF Elements
  <2>3. CASE i > 1
    <3>1. f[i] = e[i - 1] /\ i - 1 \in 1..Len(e)
      BY <2>3, <1>1, <1>3, <1>4
    <3> QED BY <3>1, <2>1, <2>3, <1>1 DEF Distinct
  <2> QED BY <2>2, <2>3
<1>6. Elements(f) = Elements(list) \cup {k}
  <2>1. Elements(f) = {k} \cup Elements(e)
    <3>1. ASSUME NEW x \in Elements(f) PROVE x \in {k} \cup Elements(e)
      <4>1. PICK i \in 1..Len(f) : x = f[i]
        BY DEF Elements
      <4>2. CASE i = 1
        BY <4>1, <4>2, <1>4
      <4>3. CASE i > 1
        <5>1. i - 1 \in 1..Len(e) /\ x = e[i - 1]
          BY <4>1, <4>3, <1>1, <1>3, <1>4
        <5> QED BY <5>1 DEF Elements
      <4> QED BY <4>2, <4>3
    <3>2. k \in Elements(f)
      BY <1>1, <1>3, <1>4 DEF Elements
    <3>3. ASSUME NEW x \in Elements(e) PROVE x \in Elements(f)
      <4>1. PICK i \in 1..Len(e) : x = e[i]
        BY DEF Elements
      <4>2. i + 1 \in 1..Len(f) /\ x = f[i + 1]
        BY <4>1, <1>1, <1>3, <1>4
      <4> QED BY <4>2 DEF Elements
    <3> QED BY <3>1, <3>2, <3>3
  <2> QED BY <2>1, <1>1
<1> QED BY <1>3, <1>5, <1>6 DEF f


LEMMA PrefixByElements ==
    ASSUME NEW S, NEW s \in Seq(S), NEW t \in Seq(S)
    PROVE  IsPrefix(s, t) <=> Len(s) <= Len(t) /\ \A i \in 1..Len(s) : s[i] = t[i]
<1>1. CASE Len(s) <= Len(t)
  <2> DEFINE n == Len(s)
             p == SubSeq(t, 1, n)
  <2>1. SubSeq(s, 1, n) = s
    BY SubSeqFull
  <2>2. p \in Seq(S) /\ Len(p) = n /\ \A i \in 1..n : p[i] = t[i]
    <3>1. n \in Nat /\ \A i \in 1..n : t[i] \in S
      BY <1>1
    <3> HIDE DEF n
    <3>2. /\ SubSeq(t, 1, n) \in Seq(S)
          /\ Len(SubSeq(t, 1, n)) = IF 1 <= n THEN n - 1 + 1 ELSE 0
          /\ \A i \in 1..n - 1 + 1 : SubSeq(t, 1, n)[i] = t[1 + i - 1]
      BY <3>1, SubSeqProperties
    <3> QED BY <3>1, <3>2
  <2> HIDE DEF p
  <2>3. p = s <=> \A i \in 1..n : s[i] = p[i]
    BY <2>2, SeqEqual
  <2> QED BY <1>1, <2>1, <2>2, <2>3 DEF IsPrefix, p
<1>2. CASE ~(Len(s) <= Len(t))
  BY <1>2 DEF IsPrefix
<1> QED BY <1>1, <1>2

\* Where the key was, the elements behind it move up; where it was not, nothing moves.
LEMMA EraseByElements ==
    ASSUME NEW S, NEW list \in Seq(S), Distinct(list), NEW k
    PROVE  \/ /\ \A i \in 1..Len(list) : list[i] # k
              /\ Erase(list, k) = list
           \/ \E n \in 1..Len(list) :
                /\ list[n] = k
                /\ Len(Erase(list, k)) = Len(list) - 1
                /\ \A i \in 1..Len(list) - 1 :
                      Erase(list, k)[i] = IF i < n THEN list[i] ELSE list[i + 1]
<1>1. CASE \E i \in 1..Len(list) : list[i] = k
  <2> DEFINE n == CHOOSE i \in 1..Len(list) : list[i] = k
  <2>1. n \in 1..Len(list) /\ list[n] = k
    BY <1>1
  <2>2. Erase(list, k) = [i \in 1..Len(list) - 1 |-> IF i < n THEN list[i] ELSE list[i + 1]]
    BY <1>1 DEF Erase
  <2> HIDE DEF n
  <2>3. Erase(list, k) \in Seq(S) /\ Len(Erase(list, k)) = Len(list) - 1
    BY <2>1, <2>2
  <2> QED BY <2>1, <2>2, <2>3
<1>2. CASE ~ \E i \in 1..Len(list) : list[i] = k
  BY <1>2 DEF Erase
<1> QED BY <1>1, <1>2

\* Moving a key to the front of a list and of a longer one that begins with it leaves
\* the one a beginning of the other.
LEMMA ToFrontKeepsPrefix ==
    ASSUME NEW S, NEW s \in Seq(S), NEW t \in Seq(S), Distinct(s), Distinct(t), IsPrefix(s, t), NEW k \in S
    PROVE  IsPrefix(ToFront(s, k), ToFront(t, k))
<1> DEFINE d == Erase(s, k)
           e == Erase(t, k)
<1>1. Len(s) <= Len(t) /\ \A i \in 1..Len(s) : s[i] = t[i]
  BY PrefixByElements
<1>2. d \in Seq(S) /\ e \in Seq(S)
  BY EraseLemma
<1>3. Len(d) <= Len(e) /\ \A i \in 1..Len(d) : d[i] = e[i]
  <2>1. CASE \A i \in 1..Len(t) : t[i] # k
    <3>1. d = s /\ e = t
      BY <1>1, <2>1, EraseByElements
    <3> QED BY <1>1, <3>1
  <2>2. CASE \E i \in 1..Len(t) : t[i] = k
    <3>1. PICK n \in 1..Len(t) :
             /\ t[n] = k
             /\ Len(e) = Len(t) - 1
             /\ \A i \in 1..Len(t) - 1 : e[i] = IF i < n THEN t[i] ELSE t[i + 1]
      BY <2>2, EraseByElements
    <3>2. CASE n <= Len(s)
      <4>1. PICK m \in 1..Len(s) :
               /\ s[m] = k
               /\ Len(d) = Len(s) - 1
               /\ \A i \in 1..Len(s) - 1 : d[i] = IF i < m THEN s[i] ELSE s[i + 1]
        <5>1. n \in 1..Len(s) /\ s[n] = k
          BY <1>1, <3>1, <3>2
        <5> QED BY <5>1, EraseByElements
      <4>2. m = n
        BY <1>1, <3>1, <3>2, <4>1 DEF Distinct
      <4> HIDE DEF d, e
      <4> QED BY <1>1, <1>2, <3>1, <3>2, <4>1, <4>2
    <3>3. CASE n > Len(s)
      <4>1. \A i \in 1..Len(s) : s[i] # k
        BY <1>1, <3>1, <3>3 DEF Distinct
      <4>2. d = s
        BY <4>1, EraseByElements
      <4> HIDE DEF d, e
      <4> QED BY <1>1, <3>1, <3>3, <4>2
    <3> QED BY <3>1, <3>2, <3>3
  <2> QED BY <2>1, <2>2
<1> HIDE DEF d, e
<1> DEFINE f == <<k>> \o d
           g == <<k>> \o e
<1>4. /\ f \in Seq(S) /\ Len(f) = Len(d) + 1 /\ f[1] = k /\ \A i \in 1..Len(d) : f[i + 1] = d[i]
      /\ g \in Seq(S) /\ Len(g) = Len(e) + 1 /\ g[1] = k /\ \A i \in 1..Len(e) : g[i + 1] = e[i]
  BY <1>2
<1> HIDE DEF f, g
<1>5. \A i \in 1..Len(f) : f[i] = g[i]
  <2> TAKE i \in 1..Len(f)
  <2>1. i = 1 \/ (i - 1 \in 1..Len(d) /\ i = (i - 1) + 1)
    BY <1>2, <1>4
  <2>2. ASSUME NEW j \in 1..Len(d) PROVE f[j + 1] = g[j + 1]
    <3>1. j \in 1..Len(e)
      BY <1>2, <1>3
    <3> QED BY <1>3, <1>4, <3>1
  <2> QED BY <1>4, <2>1, <2>2
<1>6. IsPrefix(f, g)
  BY <1>2, <1>3, <1>4, <1>5, PrefixByElements
<1> QED BY <1>6 DEF f, g, d, e, ToFront

LEMMA ButLast ==
    ASSUME NEW S, NEW s \in Seq(S), s # <<>>
    PROVE  /\ Len(s) \in Nat \ {0}
           /\ SubSeq(s, 1, Len(s) - 1) \in Seq(S)
           /\ Len(SubSeq(s, 1, Len(s) - 1)) = Len(s) - 1
           /\ \A i \in 1..Len(s) - 1 : SubSeq(s, 1, Len(s) - 1)[i] = s[i]
<1> DEFINE n == Len(s)
<1>1. n \in Nat \ {0} /\ \A i \in 1..n - 1 : s[i] \in S
  OBVIOUS
<1> HIDE DEF n
<1>2. /\ SubSeq(s, 1, n - 1) \in Seq(S)
      /\ Len(SubSeq(s, 1, n - 1)) = IF 1 <= n - 1 THEN n - 1 - 1 + 1 ELSE 0
      /\ \A i \in 1..n - 1 - 1 + 1 : SubSeq(s, 1, n - 1)[i] = s[1 + i - 1]
  BY <1>1, SubSeqProperties
<1>3. /\ n \in Nat \ {0} /\ SubSeq(s, 1, n - 1) \in Seq(S) /\ Len(SubSeq(s, 1, n - 1)) = n - 1
      /\ \A i \in 1..n - 1 : SubSeq(s, 1, n - 1)[i] = s[i]
  BY <1>1, <1>2
<1> QED BY <1>3 DEF n

-----------------------------------------------------------------------------
Pick(s) == CHOOSE x \in s : TRUE
\* g gives every part s of D the bytes of the surfaces that e has under the keys of s.
Sums(g, e, D) == g = [s \in SUBSET D |-> IF s = {} THEN 0 ELSE SizeOf[e[Pick(s)]] + g[s \ {Pick(s)}]]
Bytes(e, D) == (CHOOSE g : Sums(g, e, D))[D]

LEMMA TotalIsBytes == TotalIsSum <=> total = Bytes(entries, DOMAIN entries)
BY DEF TotalIsSum, MapThenSumSet, MapThenFoldSet, Sums, Bytes, Pick
LEMMA TotalIsBytesNext == TotalIsSum' <=> total' = Bytes(entries', DOMAIN entries')
BY DEF TotalIsSum, MapThenSumSet, MapThenFoldSet, Sums, Bytes, Pick

\* Whatever holds of a finite set as soon as it holds of its proper parts holds of all:
\* the set of the parts where it fails has no smallest element.
LEMMA SmallestPart ==
    ASSUME NEW D, IsFiniteSet(D), NEW Wrong \in SUBSET (SUBSET D), Wrong # {}
    PROVE  \E s \in Wrong : \A r \in Wrong : r \subseteq s => r = s
<1>1. FiniteSubsetsOf(D) = SUBSET D
  BY FS_FiniteSubsetsOfFinite
<1>2. IsWellFoundedOn(StrictSubsetOrdering(D), SUBSET D)
  BY <1>1, FS_StrictSubsetOrderingWellFounded
<1>3. \E s \in Wrong : \A r \in Wrong : ~(<<r, s>> \in StrictSubsetOrdering(D))
  BY <1>2, WFMin
<1> QED BY <1>3 DEF StrictSubsetOrdering

LEMMA PickOne == \A s : s # {} => Pick(s) \in s
BY DEF Pick

\* Two such functions agree wherever both are defined and the surfaces are the same.
LEMMA SumsAgree ==
    ASSUME NEW D, NEW E, NEW d, NEW e, NEW g, NEW h, Sums(g, d, D), Sums(h, e, E),
           NEW U, IsFiniteSet(U), U \subseteq D, U \subseteq E, \A k \in U : d[k] = e[k]
    PROVE  g[U] = h[U]
<1> DEFINE Wrong == {s \in SUBSET U : g[s] # h[s]}
<1> SUFFICES ASSUME Wrong # {} PROVE FALSE
  OBVIOUS
<1>1. PICK s \in Wrong : \A r \in Wrong : r \subseteq s => r = s
  <2>1. Wrong \in SUBSET (SUBSET U)
    OBVIOUS
  <2> HIDE DEF Wrong
  <2> QED BY <2>1, SmallestPart
<1>2. g[s] = IF s = {} THEN 0 ELSE SizeOf[d[Pick(s)]] + g[s \ {Pick(s)}]
  <2>1. s \in SUBSET D
    OBVIOUS
  <2> HIDE DEF Wrong
  <2> QED BY <2>1 DEF Sums
<1>3. h[s] = IF s = {} THEN 0 ELSE SizeOf[e[Pick(s)]] + h[s \ {Pick(s)}]
  <2>1. s \in SUBSET E
    OBVIOUS
  <2> HIDE DEF Wrong
  <2> QED BY <2>1 DEF Sums
<1>4. s # {} /\ Pick(s) \in s
  BY <1>2, <1>3, PickOne
<1>5. g[s \ {Pick(s)}] = h[s \ {Pick(s)}]
  BY <1>1, <1>4
<1> QED BY <1>2, <1>3, <1>4, <1>5

\* There is such a function.
LEMMA SumsExist ==
    ASSUME NEW D, IsFiniteSet(D), NEW e
    PROVE  \E g : Sums(g, e, D)
<1> DEFINE Wrong == {s \in SUBSET D : ~ \E g : Sums(g, e, s)}
<1> SUFFICES ASSUME Wrong # {} PROVE FALSE
  OBVIOUS
<1>1. PICK s \in Wrong : \A r \in Wrong : r \subseteq s => r = s
  <2>1. Wrong \in SUBSET (SUBSET D)
    OBVIOUS
  <2> HIDE DEF Wrong
  <2> QED BY <2>1, SmallestPart
<1> DEFINE Of(r) == CHOOSE g : Sums(g, e, r)
           value(r) == IF r = {} THEN 0 ELSE SizeOf[e[Pick(r)]] + Of(r \ {Pick(r)})[r \ {Pick(r)}]
           f == [r \in SUBSET s |-> value(r)]
<1>2. \A r \in SUBSET s : r # s => Sums(Of(r), e, r)
  <2> TAKE r \in SUBSET s
  <2>1. r # s => \E g : Sums(g, e, r)
    BY <1>1
  <2> QED BY <2>1
<1>3. IsFiniteSet(s)
  BY FS_Subset
<1>4. \A r \in SUBSET s : r # s => f[r] = Of(r)[r]
  <2> SUFFICES ASSUME NEW r \in SUBSET s, r # s PROVE value(r) = Of(r)[r]
    OBVIOUS
  <2>1. Sums(Of(r), e, r)
    BY <1>2
  <2> HIDE DEF Of
  <2>2. Of(r)[r] = IF r = {} THEN 0 ELSE SizeOf[e[Pick(r)]] + Of(r)[r \ {Pick(r)}]
    BY <2>1 DEF Sums
  <2>3. CASE r = {}
    BY <2>2, <2>3
  <2>4. CASE r # {}
    <3> DEFINE q == r \ {Pick(r)}
    <3>1. Pick(r) \in r /\ q \in SUBSET s /\ q # s /\ q \subseteq r /\ IsFiniteSet(q)
      BY <2>4, PickOne, <1>3, FS_Subset
    <3>2. Sums(Of(q), e, q)
      BY <3>1, <1>2
    <3> HIDE DEF q
    <3>3. Of(q)[q] = Of(r)[q]
      BY <3>1, <3>2, <2>1, SumsAgree
    <3> QED BY <2>2, <2>4, <3>3 DEF q
  <2> QED BY <2>3, <2>4
<1>5. Sums(f, e, s)
  <2>1. \A r \in SUBSET s : f[r] = IF r = {} THEN 0 ELSE SizeOf[e[Pick(r)]] + f[r \ {Pick(r)}]
    <3> TAKE r \in SUBSET s
    <3>1. r # {} => r \ {Pick(r)} \in SUBSET s /\ r \ {Pick(r)} # s
      BY PickOne
    <3>2. r # {} => f[r \ {Pick(r)}] = Of(r \ {Pick(r)})[r \ {Pick(r)}]
      BY <3>1, <1>4
    <3> QED BY <3>2
  <2>2. f = [r \in SUBSET s |-> f[r]]
    OBVIOUS
  <2> HIDE DEF f
  <2> QED BY <2>1, <2>2 DEF Sums
<1> QED BY <1>1, <1>5

LEMMA BytesIsSum ==
    ASSUME NEW D, IsFiniteSet(D), NEW e
    PROVE  \E g : Sums(g, e, D) /\ Bytes(e, D) = g[D]
BY SumsExist DEF Bytes

LEMMA BytesOfNothing == \A e : Bytes(e, {}) = 0
<1> TAKE e
<1>1. PICK g : Sums(g, e, {}) /\ Bytes(e, {}) = g[{}]
  BY BytesIsSum, FS_EmptySet
<1> QED BY <1>1 DEF Sums

LEMMA BytesAgree ==
    ASSUME NEW D, IsFiniteSet(D), NEW d, NEW e, \A k \in D : d[k] = e[k]
    PROVE  Bytes(d, D) = Bytes(e, D)
<1>1. PICK g : Sums(g, d, D) /\ Bytes(d, D) = g[D]
  BY BytesIsSum
<1>2. PICK h : Sums(h, e, D) /\ Bytes(e, D) = h[D]
  BY BytesIsSum
<1> QED BY <1>1, <1>2, SumsAgree

\* The bytes of a set are those of the key picked first and of the rest.
LEMMA BytesOfPick ==
    ASSUME NEW D, IsFiniteSet(D), D # {}, NEW e
    PROVE  Bytes(e, D) = SizeOf[e[Pick(D)]] + Bytes(e, D \ {Pick(D)})
<1> DEFINE q == D \ {Pick(D)}
<1>1. PICK g : Sums(g, e, D) /\ Bytes(e, D) = g[D]
  BY BytesIsSum
<1>2. IsFiniteSet(q)
  BY FS_Subset
<1>3. PICK h : Sums(h, e, q) /\ Bytes(e, q) = h[q]
  BY <1>2, BytesIsSum
<1>4. g[q] = h[q]
  BY <1>1, <1>2, <1>3, SumsAgree
<1>5. g[D] = SizeOf[e[Pick(D)]] + g[q]
  BY <1>1 DEF Sums
<1> QED BY <1>1, <1>3, <1>4, <1>5

LEMMA BytesIsNat ==
    ASSUME NEW D, IsFiniteSet(D), NEW e, \A k \in D : SizeOf[e[k]] \in Nat
    PROVE  Bytes(e, D) \in Nat
<1> DEFINE Wrong == {s \in SUBSET D : Bytes(e, s) \notin Nat}
<1> SUFFICES ASSUME Wrong # {} PROVE FALSE
  OBVIOUS
<1>1. PICK s \in Wrong : \A r \in Wrong : r \subseteq s => r = s
  <2>1. Wrong \in SUBSET (SUBSET D)
    OBVIOUS
  <2> HIDE DEF Wrong
  <2> QED BY <2>1, SmallestPart
<1>2. s # {}
  BY BytesOfNothing
<1>3. Bytes(e, s) = SizeOf[e[Pick(s)]] + Bytes(e, s \ {Pick(s)})
  BY <1>2, BytesOfPick, FS_Subset
<1>4. Bytes(e, s \ {Pick(s)}) \in Nat /\ Pick(s) \in D
  BY <1>1, <1>2, PickOne
<1> QED BY <1>3, <1>4

\* They are those of any key and of the rest.
LEMMA BytesOfOne ==
    ASSUME NEW D, IsFiniteSet(D), NEW e, \A k \in D : SizeOf[e[k]] \in Nat, NEW x \in D
    PROVE  Bytes(e, D) = SizeOf[e[x]] + Bytes(e, D \ {x})
<1> DEFINE Wrong == {s \in SUBSET D : \E y \in s : Bytes(e, s) # SizeOf[e[y]] + Bytes(e, s \ {y})}
<1> SUFFICES ASSUME Wrong # {} PROVE FALSE
  OBVIOUS
<1>1. PICK s \in Wrong : \A r \in Wrong : r \subseteq s => r = s
  <2>1. Wrong \in SUBSET (SUBSET D)
    OBVIOUS
  <2> HIDE DEF Wrong
  <2> QED BY <2>1, SmallestPart
<1>2. PICK y \in s : Bytes(e, s) # SizeOf[e[y]] + Bytes(e, s \ {y})
  OBVIOUS
<1> DEFINE c == Pick(s)
           rest == (s \ {c}) \ {y}
<1>3. c \in s /\ y \in s /\ s \subseteq D
  BY PickOne
<1>4. \A r \in SUBSET D : IsFiniteSet(r) /\ Bytes(e, r) \in Nat
  BY FS_Subset, BytesIsNat
<1>5. Bytes(e, s) = SizeOf[e[c]] + Bytes(e, s \ {c})
  BY <1>3, <1>4, BytesOfPick
<1>6. c # y
  BY <1>2, <1>5
<1>7. \A r \in SUBSET s : r # s => \A z \in r : Bytes(e, r) = SizeOf[e[z]] + Bytes(e, r \ {z})
  <2> TAKE r \in SUBSET s
  <2>1. r # s => r \notin Wrong
    BY <1>1
  <2>2. r \in SUBSET D
    BY <1>3
  <2> QED BY <2>1, <2>2
<1> HIDE DEF Wrong, c
<1>8. Bytes(e, s \ {c}) = SizeOf[e[y]] + Bytes(e, rest)
  BY <1>3, <1>6, <1>7
<1>9. Bytes(e, s \ {y}) = SizeOf[e[c]] + Bytes(e, rest)
  <2>1. (s \ {y}) \ {c} = rest
    OBVIOUS
  <2> HIDE DEF rest
  <2> QED BY <1>3, <1>6, <1>7, <2>1
<1>10. SizeOf[e[c]] \in Nat /\ SizeOf[e[y]] \in Nat /\ Bytes(e, rest) \in Nat
  BY <1>3, <1>4
<1> HIDE DEF rest
<1> QED BY <1>2, <1>5, <1>8, <1>9, <1>10

-----------------------------------------------------------------------------
(* The inductive invariant *)


\* Both lists are lists of keys, and that of what was used names each once.
ListsOfKeys == lru \in Seq(Keys) /\ recency \in Seq(Keys) /\ Distinct(recency)

\* While put holds the mutex, the key it has published comes first in the list.  It is
\* there until the limits are read, and after that if it fits them.
FreshIsFirst ==
    frame.stage # "free" =>
        /\ lru # <<>> => lru[1] = frame.key /\ SizeOf[entries[frame.key]] = frame.bytes
        /\ lru = <<>> => frame.stage = "evict" /\ ~(frame.maxEntries >= 1 /\ frame.bytes <= frame.maxBytes)

CacheInv == TypeOK /\ ListsOfKeys /\ ListMatchesMap /\ TotalIsSum /\ KeepsMostRecent /\ FreshIsFirst

LEMMA MatchesByElements ==
    ListMatchesMap <=> DOMAIN entries = Elements(lru) /\ Distinct(lru)
BY DEF ListMatchesMap, Elements, Distinct

LEMMA CachedIsFinite ==
    ASSUME CacheInv
    PROVE  /\ IsFiniteSet(DOMAIN entries) /\ DOMAIN entries \subseteq Keys
           /\ \A k \in DOMAIN entries : entries[k] \in Surfaces /\ SizeOf[entries[k]] \in Nat
<1>1. DOMAIN entries = Elements(lru) /\ lru \in Seq(Keys)
  BY MatchesByElements DEF CacheInv, ListsOfKeys
<1>2. lru \in Surjection(1..Len(lru), Elements(lru))
  BY <1>1 DEF Elements, Surjection, Range
<1>3. IsFiniteSet(Elements(lru))
  BY <1>1, <1>2, FS_Interval, FS_Surjection
<1> QED BY <1>1, <1>3, CacheAssumption DEF CacheInv, TypeOK

LEMMA CacheInit == Init => CacheInv
<1> SUFFICES ASSUME Init PROVE CacheInv
  OBVIOUS
<1>1. entries \in [{} -> Surfaces] /\ DOMAIN entries = {}
  BY DEF Init
<1>2. TypeOK
  <2>1. {} \in SUBSET Keys /\ entries \in [{} -> Surfaces]
    BY <1>1
  <2>2. <<>> \in Seq(Keys)
    OBVIOUS
  <2>3. \E D \in SUBSET Keys : entries \in [D -> Surfaces]
    BY <2>1
  <2>4. frame \in [key : Keys \cup {Miss}, bytes : Nat, stage : {"free", "limits", "limit2", "evict"},
                   maxEntries : Nat, maxBytes : Nat]
    BY DEF Init, NoFrame
  <2>5. event \in [op : {"none", "get", "put"}, key : Keys \cup {Miss}, surface : Surfaces \cup {Miss}]
    BY DEF Init
  <2>6. lru \in Seq(Keys) /\ recency \in Seq(Keys) /\ total \in Int
        /\ config \in [maxEntries : ConfigValues, maxSizeMB : ConfigValues]
    BY <2>2 DEF Init
  <2> QED BY ONLY <2>3, <2>4, <2>5, <2>6 DEF TypeOK
<1>3. TotalIsSum
  BY <1>1, TotalIsBytes, BytesOfNothing DEF Init
<1>4. KeepsMostRecent
  <2>1. <<>> \in Seq(Keys) /\ Len(<<>>) = 0
    OBVIOUS
  <2>2. IsPrefix(<<>>, <<>>)
    <3>1. Len(<<>>) <= Len(<<>>) /\ \A i \in 1..Len(<<>>) : <<>>[i] = <<>>[i]
      BY <2>1
    <3> QED BY ONLY <2>1, <3>1, PrefixByElements
  <2> QED BY <2>2 DEF Init, KeepsMostRecent
<1> QED BY <1>1, <1>2, <1>3, <1>4
        DEF Init, CacheInv, ListsOfKeys, ListMatchesMap, FreshIsFirst, NoFrame, Distinct

LEMMA CacheGet ==
    ASSUME CacheInv, NEW k \in Keys, Get(k)
    PROVE  CacheInv'
<1> USE DEF CacheInv
<1>1. UNCHANGED <<entries, total, frame, config>> /\ frame.stage = "free"
  BY DEF Get, MutexFree, NoFrame
<1>2. TotalIsSum' /\ FreshIsFirst'
  BY <1>1, TotalIsBytes, TotalIsBytesNext DEF FreshIsFirst
<1>3. event' \in [op : {"none", "get", "put"}, key : Keys \cup {Miss}, surface : Surfaces \cup {Miss}]
  BY CachedIsFinite DEF Get
<1>4. CASE k \in DOMAIN entries
  <2>1. lru' = ToFront(lru, k) /\ recency' = ToFront(recency, k)
    BY <1>4 DEF Get
  <2>2. DOMAIN entries = Elements(lru) /\ Distinct(lru)
    BY MatchesByElements
  <2>3. lru' \in Seq(Keys) /\ Distinct(lru') /\ Elements(lru') = Elements(lru) \cup {k}
        /\ recency' \in Seq(Keys) /\ Distinct(recency')
    BY <2>1, <2>2, ToFrontLemma DEF ListsOfKeys
  <2>4. KeepsMostRecent'
    BY <2>1, <2>2, ToFrontKeepsPrefix DEF ListsOfKeys, KeepsMostRecent
  <2>5. ListMatchesMap'
    BY <1>1, <1>4, <2>2, <2>3 DEF ListMatchesMap, Elements, Distinct
  <2> QED BY <1>1, <1>2, <1>3, <2>3, <2>4, <2>5 DEF TypeOK, ListsOfKeys
<1>5. CASE k \notin DOMAIN entries
  BY <1>1, <1>2, <1>3, <1>5 DEF Get, TypeOK, ListsOfKeys, ListMatchesMap, KeepsMostRecent
<1> QED BY <1>4, <1>5

LEMMA CachePut ==
    ASSUME CacheInv, NEW k \in Keys, NEW s \in Surfaces, Put(k, s)
    PROVE  CacheInv'
<1> USE DEF CacheInv
<1> DEFINE D == DOMAIN entries
           E == D \cup {k}
<1>1. /\ entries' = [x \in E |-> IF x = k THEN s ELSE entries[x]]
      /\ lru' = ToFront(lru, k) /\ recency' = ToFront(recency, k)
      /\ total' = total - (IF k \in D THEN SizeOf[entries[k]] ELSE 0) + SizeOf[s]
      /\ frame' = [NoFrame EXCEPT !.key = k, !.bytes = SizeOf[s], !.stage = "limits"]
      /\ event' = [op |-> "put", key |-> k, surface |-> s]
      /\ config' = config
  BY DEF Put
<1>2. /\ IsFiniteSet(D) /\ D \subseteq Keys
      /\ \A x \in D : entries[x] \in Surfaces /\ SizeOf[entries[x]] \in Nat
  BY CachedIsFinite
<1>3. D = Elements(lru) /\ Distinct(lru)
  BY MatchesByElements
<1>4. /\ lru' \in Seq(Keys) /\ Distinct(lru') /\ Elements(lru') = Elements(lru) \cup {k}
      /\ recency' \in Seq(Keys) /\ Distinct(recency')
  BY <1>1, <1>3, ToFrontLemma DEF ListsOfKeys
<1>5. DOMAIN entries' = E /\ entries' \in [E -> Surfaces] /\ E \subseteq Keys
  BY <1>1, <1>2
<1>6. SizeOf[s] \in Nat
  BY CacheAssumption
<1>7. TotalIsSum'
  <2>1. IsFiniteSet(E) /\ IsFiniteSet(D \ {k}) /\ E \ {k} = D \ {k}
    BY <1>2, FS_AddElement, FS_Subset
  <2>2. \A x \in E : SizeOf[entries'[x]] \in Nat
    BY <1>5, CacheAssumption
  <2> HIDE DEF D
  <2>3. Bytes(entries', E) = SizeOf[s] + Bytes(entries', D \ {k})
    <3>1. Bytes(entries', E) = SizeOf[entries'[k]] + Bytes(entries', E \ {k})
      BY <2>1, <2>2, BytesOfOne
    <3>2. entries'[k] = s
      BY <1>1
    <3> QED BY <2>1, <3>1, <3>2
  <2>4. Bytes(entries', D \ {k}) = Bytes(entries, D \ {k})
    <3>1. \A x \in D \ {k} : entries'[x] = entries[x]
      BY <1>1
    <3> QED BY <2>1, <3>1, BytesAgree
  <2>5. k \in D => Bytes(entries, D) = SizeOf[entries[k]] + Bytes(entries, D \ {k})
    BY <1>2, BytesOfOne
  <2>6. k \notin D => D \ {k} = D
    OBVIOUS
  <2>7. total = Bytes(entries, D)
    BY TotalIsBytes DEF D
  <2>8. Bytes(entries, D \ {k}) \in Nat
    BY <1>2, <2>1, BytesIsNat
  <2>9. total' = SizeOf[s] + Bytes(entries, D \ {k})
    <3>1. CASE k \in D
      <4>1. total' = total - SizeOf[entries[k]] + SizeOf[s]
        BY <1>1, <3>1
      <4> QED BY <1>2, <1>6, <2>5, <2>7, <2>8, <3>1, <4>1
    <3>2. CASE k \notin D
      <4>1. total' = total - 0 + SizeOf[s]
        BY <1>1, <3>2
      <4>2. total = Bytes(entries, D \ {k})
        BY <2>6, <2>7, <3>2
      <4> QED BY <1>6, <2>8, <4>1, <4>2
    <3> QED BY <3>1, <3>2
  <2>10. total' = Bytes(entries', E)
    BY <2>3, <2>4, <2>9
  <2> QED BY <1>5, <2>10, TotalIsBytesNext
<1>8. frame'.stage = "limits" /\ frame'.key = k /\ frame'.bytes = SizeOf[s]
      /\ frame' \in [key : Keys \cup {Miss}, bytes : Nat, stage : {"free", "limits", "limit2", "evict"},
                     maxEntries : Nat, maxBytes : Nat]
  BY <1>1, <1>6 DEF NoFrame
<1>9. FreshIsFirst'
  <2>1. lru' # <<>> /\ lru'[1] = k
    <3>1. Erase(lru, k) \in Seq(Keys)
      BY <1>3, EraseLemma DEF ListsOfKeys
    <3> QED BY <1>1, <3>1 DEF ToFront
  <2>2. entries'[k] = s
    BY <1>1
  <2> QED BY <1>8, <2>1, <2>2 DEF FreshIsFirst
<1>10. TypeOK'
  <2>1. total' \in Int
    BY <1>1, <1>2, <1>6 DEF TypeOK
  <2> QED BY <1>1, <1>4, <1>5, <1>8, <2>1 DEF TypeOK
<1>11. KeepsMostRecent'
  BY <1>1, <1>3, ToFrontKeepsPrefix DEF ListsOfKeys, KeepsMostRecent
<1>12. ListMatchesMap'
  BY <1>3, <1>4, <1>5 DEF ListMatchesMap, Elements, Distinct
<1> QED BY <1>4, <1>7, <1>9, <1>10, <1>11, <1>12 DEF ListsOfKeys

LEMMA CacheReadLimits ==
    ASSUME CacheInv, ReadMaxEntries \/ ReadMaxBytes
    PROVE  CacheInv'
<1> USE DEF CacheInv
<1>1. UNCHANGED <<entries, lru, total, config, event, recency>>
  BY DEF ReadMaxEntries, ReadMaxBytes
<1>2. /\ NonNegative(config.maxEntries) \in Nat
      /\ NonNegative(config.maxSizeMB) * BytesPerMB \in Nat
  <2>1. NonNegative(config.maxEntries) \in Nat /\ NonNegative(config.maxSizeMB) \in Nat
    <3>1. config.maxEntries \in Int /\ config.maxSizeMB \in Int
      BY CacheAssumption DEF TypeOK
    <3> QED BY <3>1 DEF NonNegative
  <2> QED BY <2>1, CacheAssumption
<1>3. /\ frame' \in [key : Keys \cup {Miss}, bytes : Nat, stage : {"free", "limits", "limit2", "evict"},
                     maxEntries : Nat, maxBytes : Nat]
      /\ frame'.key = frame.key /\ frame'.bytes = frame.bytes /\ frame.stage \in {"limits", "limit2"}
  BY <1>2 DEF ReadMaxEntries, ReadMaxBytes, TypeOK
<1>4. TypeOK'
  BY <1>1, <1>3 DEF TypeOK
<1>5. FreshIsFirst'
  BY <1>1, <1>3 DEF FreshIsFirst
<1> QED BY <1>1, <1>4, <1>5, TotalIsBytes, TotalIsBytesNext DEF ListsOfKeys, ListMatchesMap, KeepsMostRecent

LEMMA CacheEvict ==
    ASSUME CacheInv, EvictVictim
    PROVE  CacheInv'
<1> USE DEF CacheInv
<1> DEFINE D == DOMAIN entries
           n == Len(lru)
           v == lru[n]
<1>1. /\ total' = total - SizeOf[entries[v]]
      /\ entries' = [x \in D \ {v} |-> entries[x]]
      /\ lru' = SubSeq(lru, 1, n - 1)
      /\ frame.stage = "evict" /\ OverLimit /\ lru # <<>>
      /\ UNCHANGED <<frame, config, event, recency>>
  BY DEF EvictVictim, OverLimit
<1>2. /\ IsFiniteSet(D) /\ D \subseteq Keys
      /\ \A x \in D : entries[x] \in Surfaces /\ SizeOf[entries[x]] \in Nat
  BY CachedIsFinite
<1>3. D = Elements(lru) /\ Distinct(lru)
  BY MatchesByElements
<1>4. n \in Nat \ {0} /\ lru' \in Seq(Keys) /\ Len(lru') = n - 1 /\ \A i \in 1..n - 1 : lru'[i] = lru[i]
  BY <1>1, ButLast DEF ListsOfKeys
<1>5. v \in D
  BY <1>3, <1>4 DEF Elements
<1>6. Distinct(lru')
  BY <1>3, <1>4 DEF Distinct
<1>7. Elements(lru') = Elements(lru) \ {v}
  <2>1. ASSUME NEW x \in Elements(lru') PROVE x \in Elements(lru) \ {v}
    BY <2>1, <1>3, <1>4 DEF Elements, Distinct
  <2>2. ASSUME NEW x \in Elements(lru) \ {v} PROVE x \in Elements(lru')
    <3>1. PICK i \in 1..n : x = lru[i] /\ i # n
      BY DEF Elements
    <3> QED BY <3>1, <1>4 DEF Elements
  <2> QED BY <2>1, <2>2
<1>8. DOMAIN entries' = D \ {v} /\ \A x \in D \ {v} : entries'[x] = entries[x]
  BY <1>1
<1>9. total = Bytes(entries, D) /\ Bytes(entries, D) = SizeOf[entries[v]] + Bytes(entries, D \ {v})
      /\ IsFiniteSet(D \ {v}) /\ Bytes(entries, D \ {v}) \in Nat
  <2>1. total = Bytes(entries, D)
    BY TotalIsBytes
  <2>2. IsFiniteSet(D \ {v})
    BY <1>2, FS_Subset
  <2> HIDE DEF D, v
  <2>3. Bytes(entries, D) = SizeOf[entries[v]] + Bytes(entries, D \ {v})
    BY <1>2, <1>5, BytesOfOne
  <2>4. Bytes(entries, D \ {v}) \in Nat
    BY <1>2, <2>2, BytesIsNat
  <2> QED BY <2>1, <2>2, <2>3, <2>4
<1>10. TotalIsSum'
  <2> HIDE DEF D, v
  <2>1. Bytes(entries', D \ {v}) = Bytes(entries, D \ {v})
    BY <1>8, <1>9, BytesAgree
  <2>2. SizeOf[entries[v]] \in Nat
    BY <1>2, <1>5
  <2>3. total' = Bytes(entries', D \ {v})
    BY <1>1, <1>9, <2>1, <2>2
  <2> QED BY <1>8, <2>3, TotalIsBytesNext
<1>11. KeepsMostRecent'
  <2>1. Len(lru) <= Len(recency) /\ \A i \in 1..Len(lru) : lru[i] = recency[i]
    BY PrefixByElements DEF KeepsMostRecent, ListsOfKeys
  <2>2. Len(lru') <= Len(recency) /\ \A i \in 1..Len(lru') : lru'[i] = recency[i]
    BY <1>4, <2>1 DEF ListsOfKeys
  <2>3. IsPrefix(lru', recency)
    BY <1>4, <2>2, PrefixByElements DEF ListsOfKeys
  <2> QED BY <1>1, <2>3 DEF KeepsMostRecent
<1>12. FreshIsFirst'
  <2>1. lru[1] = frame.key /\ SizeOf[entries[frame.key]] = frame.bytes
    BY <1>1 DEF FreshIsFirst
  <2>2. CASE n = 1
    <3>1. D = {v} /\ v = frame.key
      BY <1>3, <2>1, <2>2 DEF Elements
    <3>2. Cardinality(D) = 1
      BY <3>1, FS_Singleton
    <3>3. Bytes(entries, D \ {v}) = 0
      <4>1. D \ {v} = {}
        BY <3>1
      <4> QED BY <4>1, BytesOfNothing
    <3>4. total = frame.bytes
      BY <1>9, <2>1, <3>1, <3>3, <1>2
    <3>5. ~(frame.maxEntries >= 1 /\ frame.bytes <= frame.maxBytes)
      BY <1>1, <3>2, <3>4 DEF OverLimit, TypeOK
    <3>6. lru' = <<>>
      BY <1>4, <2>2
    <3> QED BY <1>1, <3>5, <3>6 DEF FreshIsFirst
  <2>3. CASE n # 1
    <3>1. lru' # <<>> /\ lru'[1] = lru[1]
      BY <1>4, <2>3
    <3>2. frame.key \in D /\ frame.key # v
      BY <1>3, <1>4, <2>1, <2>3 DEF Elements, Distinct
    <3> QED BY <1>1, <1>8, <2>1, <3>1, <3>2 DEF FreshIsFirst
  <2> QED BY <2>2, <2>3
<1>13. TypeOK'
  <2>1. total' \in Int
    BY <1>1, <1>2, <1>5 DEF TypeOK
  <2>2. entries' \in [D \ {v} -> Surfaces] /\ D \ {v} \in SUBSET Keys
    BY <1>1, <1>2
  <2> QED BY <1>1, <1>4, <2>1, <2>2 DEF TypeOK
<1>14. ListMatchesMap'
  BY <1>3, <1>6, <1>7, <1>8 DEF ListMatchesMap, Elements, Distinct
<1> QED BY <1>1, <1>4, <1>10, <1>11, <1>12, <1>13, <1>14 DEF ListsOfKeys

LEMMA CacheSame ==
    ASSUME CacheInv, UNCHANGED <<entries, lru, total, recency>>, TypeOK', FreshIsFirst'
    PROVE  CacheInv'
BY TotalIsBytes, TotalIsBytesNext DEF CacheInv, ListsOfKeys, ListMatchesMap, KeepsMostRecent

LEMMA CacheClear ==
    ASSUME CacheInv, Clear
    PROVE  CacheInv'
<1> USE DEF CacheInv
<1>1. DOMAIN entries' = {} /\ entries' \in [{} -> Surfaces] /\ lru' = <<>> /\ total' = 0
      /\ UNCHANGED <<frame, config, event, recency>> /\ frame.stage = "free"
  BY DEF Clear, MutexFree, NoFrame
<1>2. <<>> \in Seq(Keys) /\ Len(<<>>) = 0 /\ {} \in SUBSET Keys
  OBVIOUS
<1>3. TotalIsSum'
  BY <1>1, TotalIsBytesNext, BytesOfNothing
<1>4. KeepsMostRecent'
  <2>1. recency \in Seq(Keys) /\ Len(recency) \in Nat
    BY DEF ListsOfKeys
  <2>2. Len(<<>>) <= Len(recency) /\ \A i \in 1..Len(<<>>) : <<>>[i] = recency[i]
    BY <1>2, <2>1
  <2>3. IsPrefix(<<>>, recency)
    BY ONLY <1>2, <2>1, <2>2, PrefixByElements
  <2> QED BY <1>1, <2>3 DEF KeepsMostRecent
<1>5. TypeOK'
  <2>1. \E D \in SUBSET Keys : entries' \in [D -> Surfaces]
    BY <1>1, <1>2
  <2>2. lru' \in Seq(Keys) /\ total' \in Int
    BY <1>1, <1>2
  <2>3. /\ frame' \in [key : Keys \cup {Miss}, bytes : Nat, stage : {"free", "limits", "limit2", "evict"},
                       maxEntries : Nat, maxBytes : Nat]
        /\ config' \in [maxEntries : ConfigValues, maxSizeMB : ConfigValues]
        /\ event' \in [op : {"none", "get", "put"}, key : Keys \cup {Miss}, surface : Surfaces \cup {Miss}]
        /\ recency' \in Seq(Keys)
    BY <1>1 DEF TypeOK
  <2> QED BY ONLY <2>1, <2>2, <2>3 DEF TypeOK
<1>6. ListMatchesMap' /\ FreshIsFirst' /\ ListsOfKeys'
  BY <1>1, <1>2 DEF ListMatchesMap, FreshIsFirst, ListsOfKeys
<1> QED BY <1>3, <1>4, <1>5, <1>6

LEMMA CacheRest ==
    ASSUME CacheInv, Release \/ UNCHANGED vars
                     \/ \E name \in {"maxEntries", "maxSizeMB"}, value \in ConfigValues : SetConfig(name, value)
    PROVE  CacheInv'
<1>1. CASE Release
  <2>1. UNCHANGED <<entries, lru, total, config, event, recency>> /\ frame' = NoFrame
    BY <1>1 DEF Release
  <2>2. TypeOK' /\ FreshIsFirst'
    BY <2>1 DEF CacheInv, TypeOK, FreshIsFirst, NoFrame
  <2> QED BY <2>1, <2>2, CacheSame
<1>2. CASE UNCHANGED vars
  <2>1. UNCHANGED <<entries, lru, total, frame, config, event, recency>>
    BY <1>2 DEF vars
  <2>2. TypeOK' /\ FreshIsFirst'
    BY <2>1 DEF CacheInv, TypeOK, FreshIsFirst
  <2> QED BY <2>1, <2>2, CacheSame
<1>3. ASSUME NEW name \in {"maxEntries", "maxSizeMB"}, NEW value \in ConfigValues, SetConfig(name, value)
      PROVE  CacheInv'
  <2>1. UNCHANGED <<entries, lru, total, frame, event, recency>>
        /\ config' \in [maxEntries : ConfigValues, maxSizeMB : ConfigValues]
    BY <1>3 DEF SetConfig, CacheInv, TypeOK
  <2>2. TypeOK' /\ FreshIsFirst'
    BY <2>1 DEF CacheInv, TypeOK, FreshIsFirst
  <2> QED BY <2>1, <2>2, CacheSame
<1> QED BY <1>1, <1>2, <1>3

LEMMA CacheStep == CacheInv /\ [Next]_vars => CacheInv'
BY CacheGet, CachePut, CacheReadLimits, CacheEvict, CacheClear, CacheRest DEF Next

LEMMA CacheAlways == Spec => []CacheInv
BY CacheInit, CacheStep, PTL DEF Spec

-----------------------------------------------------------------------------
\* Every variable keeps its type.
THEOREM CacheIsTyped == Spec => []TypeOK
<1>1. CacheInv => TypeOK
  BY DEF CacheInv
<1> QED BY <1>1, CacheAlways, PTL

\* The list and the map of the cache name the same keys, each once, whatever the keys,
\* the surfaces, their sizes and the limits are.
THEOREM ListAlwaysMatchesMap == Spec => []ListMatchesMap
<1>1. CacheInv => ListMatchesMap
  BY DEF CacheInv
<1> QED BY <1>1, CacheAlways, PTL

\* The byte count is at every moment the sum of the estimates of what is cached, so that
\* the unsigned counter never wraps.
THEOREM TotalIsAlwaysSum == Spec => []TotalIsSum
<1>1. CacheInv => TotalIsSum
  BY DEF CacheInv
<1> QED BY <1>1, CacheAlways, PTL

\* No key stays in the cache while one used after it has been evicted.
THEOREM MostRecentStay == Spec => []KeepsMostRecent
<1>1. CacheInv => KeepsMostRecent
  BY DEF CacheInv
<1> QED BY <1>1, CacheAlways, PTL

\* A put gives the mutex back only when both limits it has read hold.
THEOREM LimitsRespected == Spec => RespectsLimits
<1>1. ASSUME CacheInv, Release
      PROVE  /\ Cardinality(DOMAIN entries) <= frame.maxEntries \/ lru = <<>>
             /\ total <= frame.maxBytes
  <2>1. IsFiniteSet(DOMAIN entries)
    BY <1>1, CachedIsFinite
  <2>2. Cardinality(DOMAIN entries) \in Nat
    BY <2>1, FS_CardinalityType
  <2>3. total \in Int /\ frame.maxEntries \in Nat /\ frame.maxBytes \in Nat
    BY <1>1 DEF CacheInv, TypeOK
  <2>4. CASE lru = <<>>
    <3>1. DOMAIN entries = {}
      BY <1>1, <2>4 DEF CacheInv, ListMatchesMap
    <3>2. total = 0
      BY <1>1, <3>1, TotalIsBytes, BytesOfNothing DEF CacheInv
    <3> QED BY <2>3, <2>4, <3>2
  <2>5. CASE lru # <<>>
    BY <1>1, <2>2, <2>3, <2>5 DEF Release, OverLimit
  <2> QED BY <2>4, <2>5
<1>2. CacheInv /\ [Next]_vars =>
        [Release => /\ Cardinality(DOMAIN entries) <= frame.maxEntries \/ lru = <<>>
                    /\ total <= frame.maxBytes]_vars
  BY <1>1
<1> QED BY <1>2, CacheAlways, PTL DEF Spec, RespectsLimits

\* A surface that fits the limits on its own is still there when its put returns.
THEOREM FreshAlwaysSurvives == Spec => FreshSurvives
<1>1. ASSUME CacheInv, Release, frame.maxEntries >= 1, frame.bytes <= frame.maxBytes
      PROVE  frame.key \in DOMAIN entries
  <2>1. frame.stage = "evict" /\ lru # <<>> /\ lru[1] = frame.key
    BY <1>1 DEF Release, CacheInv, FreshIsFirst
  <2>2. 1 \in 1..Len(lru)
    BY <1>1, <2>1 DEF CacheInv, ListsOfKeys
  <2> QED BY <1>1, <2>1, <2>2 DEF CacheInv, ListMatchesMap
<1>2. CacheInv /\ [Next]_vars =>
        [Release /\ frame.maxEntries >= 1 /\ frame.bytes <= frame.maxBytes
             => frame.key \in DOMAIN entries]_vars
  BY <1>1
<1> QED BY <1>2, CacheAlways, PTL DEF Spec, FreshSurvives

\* The cache implements the lossy store: a hit is the surface published last, and eviction
\* and clear only forget.
THEOREM CacheIsAStore == Spec => ImplementsStore
<1>1. Init => Store!Init
  BY DEF Init, Store!Init
<1>2. ASSUME CacheInv, [Next]_vars PROVE [Store!Next]_(Store!storeVars)
  <2> USE DEF Store!Next, Store!storeVars
  <2>1. ASSUME NEW k \in Keys, Get(k) PROVE Store!Lookup(k)
    BY <2>1 DEF Get, Store!Lookup
  <2>2. ASSUME NEW k \in Keys, NEW s \in Surfaces, Put(k, s) PROVE Store!Publish(k, s)
    BY <2>2 DEF Put, Store!Publish
  <2>3. CASE EvictVictim
    <3> DEFINE v == lru[Len(lru)]
    <3>1. {v} \in SUBSET Keys
      BY <1>2, <2>3, ButLast DEF CacheInv, ListsOfKeys, EvictVictim, OverLimit
    <3>2. Store!Lose({v})
      BY <2>3 DEF EvictVictim, Store!Lose
    <3> QED BY <3>1, <3>2
  <2>4. CASE Clear
    <3>1. DOMAIN entries \ Keys = {}
      BY <1>2, CachedIsFinite
    <3>2. Store!Lose(Keys)
      BY <2>4, <3>1 DEF Clear, Store!Lose
    <3> QED BY <3>2
  <2>5. CASE UNCHANGED <<entries, event>>
    BY <2>5
  <2> QED BY <1>2, <2>1, <2>2, <2>3, <2>4, <2>5
          DEF Next, ReadMaxEntries, ReadMaxBytes, Release, SetConfig, vars
<1> QED BY <1>1, <1>2, CacheAlways, PTL DEF Spec, ImplementsStore, Store!Spec
====
