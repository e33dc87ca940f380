------------------------- MODULE SmokeRequestProofs -------------------------
(***************************************************************************)
(* Proofs of SmokeRequest, for every command line, every width of an int32 *)
(* and every limit: what a sweep sweeps is what was typed, what a report   *)
(* says adds up, what is linked is there, a submit is answered, versions   *)
(* do not meet and exit code 0 tells the truth.  They rest on one          *)
(* invariant, IInv, and on what the definitions of VersionNames,           *)
(* SweepReport and SmokeRequest compute; the latter come first.            *)
(***************************************************************************)
EXTENDS SmokeRequest, TLAPS, FiniteSetTheorems, SequenceTheorems, WellFoundedInduction

\* A property of naturals that goes on from each to the next.
LEMMA ByInduction ==
  ASSUME NEW Good \in SUBSET Nat, 0 \in Good, \A n \in Good : n + 1 \in Good
  PROVE  \A n \in Nat : n \in Good
<1> SUFFICES ASSUME Nat \ Good # {} PROVE FALSE
  OBVIOUS
<1>1. PICK n \in Nat \ Good : \A k \in Nat \ Good : <<k, n>> \notin OpToRel(<, Nat)
  BY NatLessThanWellFounded, WFMin
<1>2. n \in Nat /\ n \notin Good
  OBVIOUS
<1>3. n # 0 /\ n - 1 \in Nat /\ n - 1 < n /\ (n - 1) + 1 = n
  <2>1. n # 0
    BY <1>2
  <2>2. QED
    BY ONLY <1>2, <2>1
<1>4. <<n - 1, n>> \in OpToRel(<, Nat)
  BY ONLY <1>2, <1>3 DEF OpToRel
<1>5. n - 1 \in Good
  BY <1>1, <1>3, <1>4
<1>6. (n - 1) + 1 \in Good
  BY <1>5
<1>7. QED
  BY ONLY <1>2, <1>3, <1>6

-----------------------------------------------------------------------------
(* Sets of numbers in order, and sequences at some of their places *)

\* Ascending counts a finite set through: as many places as numbers, and no two numbers
\* have as many before them.
LEMMA AscendingFacts ==
  ASSUME NEW S \in SUBSET Int, IsFiniteSet(S)
  PROVE  /\ Cardinality(S) \in Nat
         /\ Ascending(S) \in [1..Cardinality(S) -> S]
         /\ Len(Ascending(S)) = Cardinality(S)
         /\ \A i, j \in 1..Cardinality(S) : i < j => Ascending(S)[i] < Ascending(S)[j]
         /\ \A e \in S : \E k \in 1..Cardinality(S) : Ascending(S)[k] = e
<1> DEFINE Below(e) == {d \in S : d < e}
           place == [e \in S |-> Cardinality(Below(e))]
<1>0. PICK n \in Nat : n = Cardinality(S)
  BY FS_CardinalityType
<1>1. ASSUME NEW e \in S
      PROVE  IsFiniteSet(Below(e)) /\ place[e] \in 0..(n - 1) /\ place[e] \in Nat
  <2>1. IsFiniteSet(S \ {e}) /\ Cardinality(S \ {e}) = n - 1
    BY <1>0, FS_RemoveElement
  <2>2. Below(e) \in SUBSET (S \ {e})
    OBVIOUS
  <2>3. IsFiniteSet(Below(e)) /\ Cardinality(Below(e)) <= n - 1
    BY <2>1, <2>2, FS_Subset
  <2>4. Cardinality(Below(e)) \in Nat
    BY <2>3, FS_CardinalityType
  <2>5. QED
    BY <1>0, <2>3, <2>4
<1>2. ASSUME NEW e \in S, NEW f \in S, e < f PROVE place[e] < place[f]
  <2>1. e \in Below(f) /\ IsFiniteSet(Below(f))
    BY <1>1, <1>2
  <2>2. IsFiniteSet(Below(f) \ {e}) /\ Cardinality(Below(f) \ {e}) = Cardinality(Below(f)) - 1
    BY <2>1, FS_RemoveElement
  <2>3. Below(e) \in SUBSET (Below(f) \ {e})
    <3>1. \A d \in S : d < e => d < f /\ d # e
      <4>1. S \subseteq Int
        OBVIOUS
      <4>2. QED
        BY ONLY <4>1, <1>2, e \in S, f \in S
    <3>2. QED
      BY <3>1
  <2>4. Cardinality(Below(e)) <= Cardinality(Below(f)) - 1
    BY <2>2, <2>3, FS_Subset
  <2>5. place[e] \in Nat /\ place[f] \in Nat
    BY <1>1
  <2>6. QED
    BY <2>4, <2>5
<1>3. \A e \in S : place[e] \in Nat
  BY <1>1
<1>4. \A e, f \in S : e < f \/ f < e \/ e = f
  OBVIOUS
<1>5. \A e, f \in S : place[e] = place[f] => e = f
  <2> HIDE DEF place
  <2>1. QED
    BY <1>2, <1>3, <1>4
<1>6. \A k \in 0..(n - 1) : \E e \in S : place[e] = k
  <2>1. place \in [S -> 0..(n - 1)]
    BY <1>1
  <2>2. place \in Injection(S, 0..(n - 1))
    <3> HIDE DEF place
    <3>1. QED
      BY <1>5, <2>1 DEF Injection, IsInjective
  <2>3. IsFiniteSet(0..(n - 1)) /\ Cardinality(0..(n - 1)) = n
    BY FS_Interval
  <2>4. place \in Surjection(S, 0..(n - 1))
    BY <1>0, <2>2, <2>3, FS_Injection
  <2> HIDE DEF place
  <2>5. QED
    BY <2>4 DEF Surjection
<1> DEFINE asc == Ascending(S)
<1>7. DOMAIN asc = 1..n /\ asc = [i \in 1..n |-> asc[i]]
  <2>1. asc = [i \in 1..n |-> CHOOSE e \in S : Cardinality({d \in S : d < e}) = i - 1]
    BY <1>0, Zenon DEF Ascending
  <2>2. QED
    BY <2>1
<1>8. ASSUME NEW i \in 1..n PROVE asc[i] \in S /\ place[asc[i]] = i - 1
  <2>1. asc[i] = CHOOSE e \in S : Cardinality(Below(e)) = i - 1
    BY <1>0 DEF Ascending
  <2>2. \E e \in S : Cardinality(Below(e)) = i - 1
    <3>1. i - 1 \in 0..(n - 1)
      OBVIOUS
    <3>2. QED
      BY <1>6, <3>1
  <2>3. asc[i] \in S /\ Cardinality(Below(asc[i])) = i - 1
    BY <2>1, <2>2
  <2>4. QED
    BY <2>3
<1> HIDE DEF asc
<1>9. asc \in [1..n -> S] /\ Len(asc) = n
  <2>1. asc \in [1..n -> S]
    BY <1>7, <1>8
  <2>2. QED
    BY ONLY <2>1, n \in Nat
<1>10. ASSUME NEW i \in 1..n, NEW j \in 1..n, i < j PROVE asc[i] < asc[j]
  <2>1. asc[i] \in S /\ asc[j] \in S /\ place[asc[i]] = i - 1 /\ place[asc[j]] = j - 1
    BY <1>8
  <2> HIDE DEF place
  <2>2. asc[i] # asc[j]
    BY <1>10, <2>1
  <2>3. asc[j] < asc[i] => place[asc[j]] < place[asc[i]]
    BY <1>2, <2>1
  <2>4. ~(asc[j] < asc[i])
    BY <1>10, <2>1, <2>3
  <2>5. QED
    BY <1>4, <2>1, <2>2, <2>4
<1>11. ASSUME NEW e \in S PROVE \E k \in 1..n : asc[k] = e
  <2>1. place[e] \in 0..(n - 1)
    BY <1>1
  <2> HIDE DEF place
  <2>2. place[e] + 1 \in 1..n /\ (place[e] + 1) - 1 = place[e]
    BY <2>1
  <2>3. asc[place[e] + 1] \in S /\ place[asc[place[e] + 1]] = place[e]
    BY <1>8, <2>2
  <2>4. asc[place[e] + 1] = e
    BY <1>5, <2>3
  <2>5. QED
    BY <2>2, <2>4
<1>12. QED
  BY <1>0, <1>9, <1>10, <1>11 DEF asc

\* What is left of a sequence is a sequence of some of its elements, in their order.
LEMMA AtFacts ==
  ASSUME NEW S, NEW seq \in Seq(S), NEW I \in SUBSET (DOMAIN seq)
  PROVE  /\ IsFiniteSet(I) /\ Cardinality(I) \in Nat
         /\ At(seq, I) \in Seq(S) /\ Len(At(seq, I)) = Cardinality(I)
         /\ Ascending(I) \in [1..Cardinality(I) -> I]
         /\ \A k \in 1..Cardinality(I) : At(seq, I)[k] = seq[Ascending(I)[k]]
         /\ \A i, j \in 1..Cardinality(I) : i < j => Ascending(I)[i] < Ascending(I)[j]
         /\ \A i \in I : \E k \in 1..Cardinality(I) : Ascending(I)[k] = i
<1>1. DOMAIN seq = 1..Len(seq) /\ Len(seq) \in Nat
  OBVIOUS
<1>2. IsFiniteSet(I) /\ I \in SUBSET Int
  <2>1. IsFiniteSet(1..Len(seq))
    BY <1>1, FS_Interval
  <2>2. I \in SUBSET (1..Len(seq))
    BY <1>1
  <2>3. QED
    BY <1>1, <2>1, <2>2, FS_Subset
<1>3. PICK n \in Nat : n = Cardinality(I)
  BY <1>2, FS_CardinalityType
<1>4. Ascending(I) \in [1..n -> I]
  BY <1>2, <1>3, AscendingFacts
<1>5. At(seq, I) = [k \in 1..n |-> seq[Ascending(I)[k]]]
  BY <1>4 DEF At
<1>6. \A k \in 1..n : seq[Ascending(I)[k]] \in S
  BY <1>1, <1>4, ElementOfSeq
<1>7. At(seq, I) \in [1..n -> S]
  BY <1>5, <1>6
<1>8. At(seq, I) \in Seq(S) /\ Len(At(seq, I)) = n
  BY <1>7
<1>9. QED
  BY <1>2, <1>3, <1>4, <1>5, <1>8, AscendingFacts

-----------------------------------------------------------------------------
(* Sequences of sequences, joined *)

\* What a concatenation consists of.
LEMMA Concatenated ==
  ASSUME NEW S, NEW s \in Seq(S), NEW t \in Seq(S), NEW u, u = s \o t,
         NEW p \in Nat, p = Len(s), NEW q \in Nat, q = Len(t)
  PROVE  /\ u \in Seq(S) /\ Len(u) = p + q
         /\ \A i \in 1..(p + q) : u[i] = IF i <= p THEN s[i] ELSE t[i - p]
BY ConcatProperties

\* The body of FlattenSeq, up to a place.
JoinedUpTo(ss, f, m) == f = [i \in 1..m |-> IF i = 1 THEN ss[i] ELSE f[i - 1] \o ss[i]]

\* There is a function like that, up to any place.
LEMMA JoinedExists == ASSUME NEW ss PROVE \A m \in Nat : \E f : JoinedUpTo(ss, f, m)
<1> DEFINE Good == {m \in Nat : \E f : JoinedUpTo(ss, f, m)}
<1>1. 0 \in Good
  <2> DEFINE g == [i \in 1..0 |-> <<>>]
  <2>1. g = [i \in 1..0 |-> IF i = 1 THEN ss[i] ELSE g[i - 1] \o ss[i]]
    OBVIOUS
  <2> HIDE DEF g
  <2>2. QED
    BY <2>1 DEF JoinedUpTo
<1>2. ASSUME NEW m \in Good PROVE m + 1 \in Good
  <2>1. PICK g : JoinedUpTo(ss, g, m)
    OBVIOUS
  <2> DEFINE h == [i \in 1..(m + 1) |-> IF i = 1 THEN ss[i] ELSE g[i - 1] \o ss[i]]
  <2>2. ASSUME NEW i \in 1..m PROVE g[i] = h[i]
    <3>1. g = [k \in 1..m |-> IF k = 1 THEN ss[k] ELSE g[k - 1] \o ss[k]]
      BY <2>1 DEF JoinedUpTo
    <3>2. i \in 1..(m + 1)
      OBVIOUS
    <3>3. g[i] = IF i = 1 THEN ss[i] ELSE g[i - 1] \o ss[i]
      BY <3>1, Zenon
    <3>4. h[i] = IF i = 1 THEN ss[i] ELSE g[i - 1] \o ss[i]
      BY <3>2, Zenon
    <3>5. QED
      BY <3>3, <3>4, Zenon
  <2>3. ASSUME NEW i \in 1..(m + 1), i # 1 PROVE g[i - 1] = h[i - 1]
    <3>1. i - 1 \in 1..m
      BY <2>3
    <3> HIDE DEF h
    <3>2. QED
      BY <2>2, <3>1
  <2>4. \A i \in 1..(m + 1) :
          h[i] = IF i = 1 THEN ss[i] ELSE h[i - 1] \o ss[i]
    <3>1. \A i \in 1..(m + 1) : h[i] = IF i = 1 THEN ss[i] ELSE g[i - 1] \o ss[i]
      OBVIOUS
    <3> HIDE DEF h
    <3>2. QED
      BY <2>3, <3>1
  <2>5. h = [i \in 1..(m + 1) |-> h[i]]
    OBVIOUS
  <2> HIDE DEF h
  <2>6. h = [i \in 1..(m + 1) |-> IF i = 1 THEN ss[i] ELSE h[i - 1] \o ss[i]]
    BY <2>4, <2>5
  <2>7. m + 1 \in Nat /\ JoinedUpTo(ss, h, m + 1)
    <3>1. JoinedUpTo(ss, h, m + 1)
      BY <2>6, Zenon DEF JoinedUpTo
    <3>2. QED
      BY <3>1
  <2>8. QED
    BY <2>7
<1> HIDE DEF Good
<1>3. Good \in SUBSET Nat
  BY DEF Good
<1>4. \A m \in Nat : m \in Good
  BY <1>1, <1>2, <1>3, ByInduction
<1>5. QED
  BY <1>4 DEF Good

\* Where each of n sequences ends when they are joined.
JoinedAt(ss, n, flat, end) ==
  /\ end \in [0..n -> Nat] /\ end[0] = 0 /\ end[n] = Len(flat)
  /\ \A k \in 1..n : end[k] = end[k - 1] + Len(ss[k])
  /\ \A k \in 1..n : \A j \in 1..Len(ss[k]) :
       /\ end[k - 1] + j \in 1..Len(flat)
       /\ flat[end[k - 1] + j] = ss[k][j]
  /\ \A x \in 1..Len(flat) : \E k \in 1..n : \E j \in 1..Len(ss[k]) : x = end[k - 1] + j

\* FlattenSeq has every element of every sequence at its place behind those before it.
LEMMA FlattenFacts ==
  ASSUME NEW S, NEW ss \in Seq(Seq(S))
  PROVE  /\ FlattenSeq(ss) \in Seq(S)
         /\ \E end : JoinedAt(ss, Len(ss), FlattenSeq(ss), end)
<1>1. PICK n \in Nat : n = Len(ss)
  OBVIOUS
<1>2. CASE n = 0
  <2>1. ss = <<>>
    BY <1>1, <1>2, EmptySeq
  <2>2. FlattenSeq(ss) = <<>>
    <3>1. Len(ss) = 0
      BY <1>1, <1>2
    <3>2. FlattenSeq(ss) = ss
      BY <3>1, Zenon DEF FlattenSeq
    <3>3. QED
      BY <2>1, <3>2
  <2>3. FlattenSeq(ss) \in Seq(S) /\ Len(FlattenSeq(ss)) = 0
    BY <2>2
  <2> DEFINE end == [k \in 0..0 |-> 0]
  <2>4. end \in [0..Len(ss) -> Nat] /\ end[0] = 0 /\ Len(ss) = 0
    BY <1>1, <1>2
  <2>5. 1..0 = {}
    OBVIOUS
  <2> HIDE DEF end
  <2>6. JoinedAt(ss, Len(ss), FlattenSeq(ss), end)
    BY <2>3, <2>4, <2>5, Zenon DEF JoinedAt
  <2>7. QED
    BY <2>3, <2>6, Zenon
<1>3. CASE n > 0
  <2> DEFINE f == CHOOSE f : f = [i \in 1..n |-> IF i = 1 THEN ss[i] ELSE f[i - 1] \o ss[i]]
  <2>1. FlattenSeq(ss) = f[n]
    <3>1. Len(ss) # 0
      BY <1>1, <1>3
    <3>2. FlattenSeq(ss) =
            (CHOOSE g : g = [i \in 1..Len(ss) |->
               IF i = 1 THEN ss[i] ELSE g[i - 1] \o ss[i]])[Len(ss)]
      BY <3>1, Zenon DEF FlattenSeq
    <3>3. QED
      BY <1>1, <3>2, Zenon
  <2>2. f = [i \in 1..n |-> IF i = 1 THEN ss[i] ELSE f[i - 1] \o ss[i]]
    <3>1. \E g : g = [i \in 1..n |-> IF i = 1 THEN ss[i] ELSE g[i - 1] \o ss[i]]
      BY JoinedExists, Zenon DEF JoinedUpTo
    <3>2. QED
      BY <3>1, Zenon
  <2> HIDE DEF f
  <2>3. \A i \in 1..n : ss[i] \in Seq(S)
    BY <1>1
  <2>4. f[1] = ss[1]
    BY <1>3, <2>2
  <2>5. ASSUME NEW i \in 1..n, i # 1 PROVE f[i] = f[i - 1] \o ss[i] /\ i - 1 \in 1..n
    <3>1. f[i] = IF i = 1 THEN ss[i] ELSE f[i - 1] \o ss[i]
      BY <2>2, Zenon
    <3>2. f[i] = f[i - 1] \o ss[i]
      BY <2>5, <3>1, Zenon
    <3>3. i - 1 \in 1..n
      BY <2>5
    <3>4. QED
      BY <3>2, <3>3, Zenon
  <2>6. \A i \in 1..n : f[i] \in Seq(S)
    <3> DEFINE Good == {m \in Nat : m + 1 \in 1..n => f[m + 1] \in Seq(S)}
    <3>1. 0 \in Good
      BY <1>3, <2>3, <2>4
    <3>2. ASSUME NEW m \in Good PROVE m + 1 \in Good
      <4> SUFFICES ASSUME (m + 1) + 1 \in 1..n PROVE f[(m + 1) + 1] \in Seq(S)
        OBVIOUS
      <4>1. m + 1 \in 1..n /\ ((m + 1) + 1) - 1 = m + 1 /\ (m + 1) + 1 # 1
        OBVIOUS
      <4>2. f[m + 1] \in Seq(S)
        BY <4>1
      <4>3. f[(m + 1) + 1] = f[m + 1] \o ss[(m + 1) + 1]
        BY <2>5, <4>1
      <4>4. QED
        BY <2>3, <4>2, <4>3, ConcatProperties
    <3>3. Good \in SUBSET Nat
      OBVIOUS
    <3> HIDE DEF Good
    <3>4. \A m \in Nat : m \in Good
      BY <3>1, <3>2, <3>3, ByInduction
    <3>5. ASSUME NEW i \in 1..n PROVE f[i] \in Seq(S)
      <4>1. i - 1 \in Nat /\ (i - 1) + 1 = i
        OBVIOUS
      <4>2. QED
        BY <3>4, <4>1 DEF Good
    <3>6. QED
      BY <3>5
  <2> DEFINE end == [k \in 0..n |-> IF k = 0 THEN 0 ELSE Len(f[k])]
  <2>7. end \in [0..n -> Nat] /\ end[0] = 0 /\ end[n] = Len(f[n])
    <3>1. \A k \in 1..n : Len(f[k]) \in Nat
      BY <2>6, LenProperties
    <3>2. \A k \in 0..n : k = 0 \/ k \in 1..n
      OBVIOUS
    <3>3. QED
      BY <1>3, <3>1, <3>2
  <2>8. ASSUME NEW k \in 1..n
        PROVE  /\ end[k] = Len(f[k]) /\ end[k - 1] \in Nat /\ Len(ss[k]) \in Nat
               /\ end[k] = end[k - 1] + Len(ss[k])
               /\ \A j \in 1..Len(ss[k]) : f[k][end[k - 1] + j] = ss[k][j]
               /\ \A x \in 1..end[k - 1] : k # 1 /\ f[k][x] = f[k - 1][x]
    <3>1. end[k] = Len(f[k]) /\ Len(ss[k]) \in Nat /\ ss[k] \in Seq(S) /\ k \in 0..n
      BY <2>3, LenProperties
    <3>2. CASE k = 1
      <4>1. end[k - 1] = 0 /\ f[k] = ss[k]
        BY <2>4, <3>2, <2>7
      <4> HIDE DEF end
      <4>2. QED
        BY <3>1, <4>1
    <3>3. CASE k # 1
      <4>1. f[k] = f[k - 1] \o ss[k] /\ k - 1 \in 1..n /\ f[k - 1] \in Seq(S)
        BY <2>5, <2>6, <3>3
      <4>2. PICK p \in Nat : p = end[k - 1] /\ p = Len(f[k - 1])
        BY <4>1, LenProperties
      <4> HIDE DEF end
      <4>3. PICK q \in Nat : q = Len(ss[k])
        BY <3>1
      <4>4. /\ Len(f[k]) = p + q
            /\ \A i \in 1..(p + q) : f[k][i] = IF i <= p THEN f[k - 1][i] ELSE ss[k][i - p]
        <5>1. PICK before \in Seq(S) : before = f[k - 1]
          BY <4>1
        <5>2. PICK after \in Seq(S) : after = ss[k]
          BY <3>1
        <5>3. f[k] = before \o after
          BY <4>1, <5>1, <5>2, Zenon
        <5>4. p = Len(before) /\ q = Len(after)
          BY <4>2, <4>3, <5>1, <5>2, Zenon
        <5>5. /\ Len(f[k]) = p + q
              /\ \A i \in 1..(p + q) : f[k][i] = IF i <= p THEN before[i] ELSE after[i - p]
          BY ONLY <5>3, <5>4, Concatenated, before \in Seq(S), after \in Seq(S),
                  p \in Nat, q \in Nat
        <5>6. QED
          BY <5>1, <5>2, <5>5, Zenon
      <4>5. ASSUME NEW j \in 1..q PROVE f[k][p + j] = ss[k][j]
        <5>1. p + j \in 1..(p + q) /\ ~(p + j <= p) /\ (p + j) - p = j
          OBVIOUS
        <5>2. QED
          BY <4>4, <5>1
      <4>6. ASSUME NEW x \in 1..p PROVE f[k][x] = f[k - 1][x]
        <5>1. x \in 1..(p + q) /\ x <= p
          OBVIOUS
        <5>2. QED
          BY <4>4, <5>1
      <4>7. QED
        BY <3>1, <3>3, <4>2, <4>3, <4>4, <4>5, <4>6
    <3>4. QED
      BY <3>2, <3>3
  <2> HIDE DEF end
  <2> DEFINE Placed(m) ==
        /\ \A k \in 1..m : \A j \in 1..Len(ss[k]) :
             /\ end[k - 1] + j \in 1..end[m]
             /\ f[m][end[k - 1] + j] = ss[k][j]
        /\ \A x \in 1..end[m] : \E k \in 1..m : \E j \in 1..Len(ss[k]) : x = end[k - 1] + j
  <2>9. ASSUME NEW m \in 1..n, m # 1 => Placed(m - 1) PROVE Placed(m)
    <3>1. /\ end[m] = end[m - 1] + Len(ss[m]) /\ end[m - 1] \in Nat /\ Len(ss[m]) \in Nat
          /\ \A j \in 1..Len(ss[m]) : f[m][end[m - 1] + j] = ss[m][j]
          /\ \A x \in 1..end[m - 1] : m # 1 /\ f[m][x] = f[m - 1][x]
      BY <2>8
    <3>2. ASSUME NEW k \in 1..m, NEW j \in 1..Len(ss[k])
          PROVE  end[k - 1] + j \in 1..end[m] /\ f[m][end[k - 1] + j] = ss[k][j]
      <4>1. CASE k = m
        <5>1. end[k - 1] + j \in 1..end[m]
          BY ONLY <3>1, <4>1, j \in 1..Len(ss[k])
        <5>2. QED
          BY <3>1, <4>1, <5>1
      <4>2. CASE k # m
        <5>1. k \in 1..(m - 1) /\ m # 1
          BY <4>2
        <5>2. end[k - 1] + j \in 1..end[m - 1] /\ f[m - 1][end[k - 1] + j] = ss[k][j]
          BY <2>9, <5>1
        <5>3. QED
          BY <3>1, <5>2
      <4>3. QED
        BY <4>1, <4>2
    <3>3. ASSUME NEW x \in 1..end[m]
          PROVE  \E k \in 1..m : \E j \in 1..Len(ss[k]) : x = end[k - 1] + j
      <4>1. CASE x \in 1..end[m - 1]
        <5>1. m # 1
          BY <3>1, <4>1
        <5>2. PICK k \in 1..(m - 1) : \E j \in 1..Len(ss[k]) : x = end[k - 1] + j
          BY <2>9, <4>1, <5>1
        <5>3. k \in 1..m
          OBVIOUS
        <5>4. QED
          BY <5>2, <5>3
      <4>2. CASE x \notin 1..end[m - 1]
        <5>1. x - end[m - 1] \in 1..Len(ss[m]) /\ x = end[m - 1] + (x - end[m - 1])
          BY <3>1, <4>2
        <5>2. m \in 1..m
          OBVIOUS
        <5>3. QED
          BY <5>1, <5>2
      <4>3. QED
        BY <4>1, <4>2
    <3>4. QED
      BY <3>2, <3>3
  <2> HIDE DEF Placed
  <2>10. Placed(n)
    <3> DEFINE Good == {m \in Nat : m + 1 \in 1..n => Placed(m + 1)}
    <3>1. 0 \in Good
      <4>1. 1 \in 1..n => Placed(1)
        BY <2>9
      <4>2. 0 + 1 = 1
        OBVIOUS
      <4>3. QED
        BY <4>1, <4>2
    <3>2. ASSUME NEW m \in Good PROVE m + 1 \in Good
      <4> SUFFICES ASSUME (m + 1) + 1 \in 1..n PROVE Placed((m + 1) + 1)
        OBVIOUS
      <4>1. m + 1 \in 1..n /\ ((m + 1) + 1) - 1 = m + 1
        OBVIOUS
      <4>2. Placed(m + 1)
        BY <4>1
      <4>3. QED
        BY <2>9, <4>1, <4>2
    <3>3. Good \in SUBSET Nat
      OBVIOUS
    <3> HIDE DEF Good
    <3>4. \A m \in Nat : m \in Good
      BY <3>1, <3>2, <3>3, ByInduction
    <3>5. n - 1 \in Nat /\ (n - 1) + 1 = n /\ n \in 1..n
      BY <1>3
    <3>6. QED
      BY <3>4, <3>5 DEF Good
  <2>11. n \in 1..n
    BY <1>3
  <2>12. Len(f[n]) = end[n] /\ f[n] \in Seq(S)
    BY <2>6, <2>7, <2>11
  <2>13. \A k \in 1..n : end[k] = end[k - 1] + Len(ss[k])
    BY <2>8
  <2>14. /\ \A k \in 1..n : \A j \in 1..Len(ss[k]) :
               end[k - 1] + j \in 1..end[n] /\ f[n][end[k - 1] + j] = ss[k][j]
         /\ \A x \in 1..end[n] : \E k \in 1..n : \E j \in 1..Len(ss[k]) : x = end[k - 1] + j
    BY <2>10, Zenon DEF Placed
  <2> DEFINE flat == FlattenSeq(ss)
  <2>15. /\ flat \in Seq(S) /\ end \in [0..n -> Nat] /\ end[0] = 0 /\ end[n] = Len(flat)
         /\ \A k \in 1..n : \A j \in 1..Len(ss[k]) :
               end[k - 1] + j \in 1..Len(flat) /\ flat[end[k - 1] + j] = ss[k][j]
         /\ \A x \in 1..Len(flat) : \E k \in 1..n : \E j \in 1..Len(ss[k]) :
               x = end[k - 1] + j
    <3>1. flat = f[n]
      BY <2>1
    <3> HIDE DEF flat
    <3>2. QED
      BY <2>7, <2>12, <2>14, <3>1
  <2>16. n = Len(ss)
    BY <1>1
  <2>17. JoinedAt(ss, n, flat, end)
    BY <2>13, <2>15, Zenon DEF JoinedAt
  <2>18. QED
    BY <2>15, <2>16, <2>17, Zenon
<1>4. n = 0 \/ n > 0
  OBVIOUS
<1>5. QED
  BY <1>2, <1>3, <1>4, Zenon

-----------------------------------------------------------------------------
(* Sums *)

\* The body of Size, up to a place.
SummedUpTo(r, f, m) == f = [k \in 0..m |-> IF k = 0 THEN 0 ELSE f[k - 1] + r[k]]

\* There is a function like that, up to any place.
LEMMA SummedExists == ASSUME NEW r PROVE \A m \in Nat : \E f : SummedUpTo(r, f, m)
<1> DEFINE Good == {m \in Nat : \E f : SummedUpTo(r, f, m)}
<1>1. 0 \in Good
  <2> DEFINE g == [i \in 0..0 |-> 0]
  <2>1. g = [i \in 0..0 |-> IF i = 0 THEN 0 ELSE g[i - 1] + r[i]]
    OBVIOUS
  <2> HIDE DEF g
  <2>2. QED
    BY <2>1 DEF SummedUpTo
<1>2. ASSUME NEW m \in Good PROVE m + 1 \in Good
  <2>1. PICK g : SummedUpTo(r, g, m)
    OBVIOUS
  <2> DEFINE h == [i \in 0..(m + 1) |-> IF i = 0 THEN 0 ELSE g[i - 1] + r[i]]
  <2>2. ASSUME NEW i \in 0..m PROVE g[i] = h[i]
    <3>1. g = [k \in 0..m |-> IF k = 0 THEN 0 ELSE g[k - 1] + r[k]]
      BY <2>1 DEF SummedUpTo
    <3>2. i \in 0..(m + 1)
      OBVIOUS
    <3>3. g[i] = IF i = 0 THEN 0 ELSE g[i - 1] + r[i]
      BY <3>1, Zenon
    <3>4. h[i] = IF i = 0 THEN 0 ELSE g[i - 1] + r[i]
      BY <3>2, Zenon
    <3>5. QED
      BY <3>3, <3>4, Zenon
  <2>3. ASSUME NEW i \in 0..(m + 1), i # 0 PROVE g[i - 1] = h[i - 1]
    <3>1. i - 1 \in 0..m
      BY <2>3
    <3> HIDE DEF h
    <3>2. QED
      BY <2>2, <3>1
  <2>4. \A i \in 0..(m + 1) : h[i] = IF i = 0 THEN 0 ELSE h[i - 1] + r[i]
    <3>1. \A i \in 0..(m + 1) : h[i] = IF i = 0 THEN 0 ELSE g[i - 1] + r[i]
      OBVIOUS
    <3> HIDE DEF h
    <3>2. QED
      BY <2>3, <3>1
  <2>5. h = [i \in 0..(m + 1) |-> h[i]]
    OBVIOUS
  <2> HIDE DEF h
  <2>6. h = [i \in 0..(m + 1) |-> IF i = 0 THEN 0 ELSE h[i - 1] + r[i]]
    BY <2>4, <2>5
  <2>7. SummedUpTo(r, h, m + 1)
    BY <2>6, Zenon DEF SummedUpTo
  <2>8. QED
    BY <2>7
<1> HIDE DEF Good
<1>3. Good \in SUBSET Nat
  BY DEF Good
<1>4. \A m \in Nat : m \in Good
  BY <1>1, <1>2, <1>3, ByInduction
<1>5. QED
  BY <1>4 DEF Good

\* A Size is reached by adding up.
LEMMA SizeFacts ==
  ASSUME NEW r, NEW n \in Nat, n = Len(r), \A k \in 1..n : r[k] \in Nat
  PROVE  /\ Size(r) \in Nat
         /\ \E sum \in [0..n -> Nat] :
              /\ sum[0] = 0 /\ sum[n] = Size(r)
              /\ \A k \in 1..n : sum[k] = sum[k - 1] + r[k]
<1> DEFINE sum == CHOOSE f : f = [k \in 0..n |-> IF k = 0 THEN 0 ELSE f[k - 1] + r[k]]
<1>1. Size(r) = sum[n]
  <2>1. Size(r) = (CHOOSE f : f = [k \in 0..Len(r) |->
                     IF k = 0 THEN 0 ELSE f[k - 1] + r[k]])[Len(r)]
    BY Zenon DEF Size
  <2>2. QED
    BY <2>1, Zenon
<1>2. sum = [k \in 0..n |-> IF k = 0 THEN 0 ELSE sum[k - 1] + r[k]]
  <2>1. \E f : f = [k \in 0..n |-> IF k = 0 THEN 0 ELSE f[k - 1] + r[k]]
    BY SummedExists, Zenon DEF SummedUpTo
  <2>2. QED
    BY <2>1, Zenon
<1> HIDE DEF sum
<1>3. sum[0] = 0 /\ \A k \in 1..n : sum[k] = sum[k - 1] + r[k]
  <2>1. 0 \in 0..n /\ \A k \in 1..n : k \in 0..n /\ k # 0
    OBVIOUS
  <2>2. QED
    BY <1>2, <2>1
<1>4. ASSUME NEW m \in 0..n PROVE sum[m] \in Nat
  <2> DEFINE Good == {k \in Nat : k \in 0..n => sum[k] \in Nat}
  <2>1. 0 \in Good
    BY <1>3
  <2>2. ASSUME NEW k \in Good PROVE k + 1 \in Good
    <3> SUFFICES ASSUME k + 1 \in 0..n PROVE sum[k + 1] \in Nat
      OBVIOUS
    <3>1. k \in 0..n /\ k + 1 \in 1..n /\ (k + 1) - 1 = k
      OBVIOUS
    <3>2. sum[k + 1] = sum[k] + r[k + 1]
      BY <1>3, <3>1
    <3>3. sum[k] \in Nat /\ r[k + 1] \in Nat
      BY <3>1
    <3>4. QED
      BY <3>2, <3>3
  <2>3. Good \in SUBSET Nat
    OBVIOUS
  <2> HIDE DEF Good
  <2>4. \A k \in Nat : k \in Good
    BY <2>1, <2>2, <2>3, ByInduction
  <2>5. m \in Good
    BY <2>4
  <2>6. QED
    BY <2>5 DEF Good
<1>5. sum \in [0..n -> Nat]
  <2>1. sum = [k \in 0..n |-> sum[k]]
    <3>1. DOMAIN sum = 0..n
      BY <1>2
    <3>2. QED
      BY <1>2, <3>1
  <2>2. QED
    BY <1>4, <2>1
<1>6. n \in 0..n
  OBVIOUS
<1>7. QED
  BY <1>1, <1>3, <1>4, <1>5, <1>6

\* Two ways of adding up the same numbers come to the same.
LEMMA SumIsSize ==
  ASSUME NEW r, NEW n \in Nat, n = Len(r), \A k \in 1..n : r[k] \in Nat,
         NEW sum, sum[0] = 0, \A k \in 1..n : sum[k] = sum[k - 1] + r[k]
  PROVE  sum[n] = Size(r)
<1>1. PICK t \in [0..n -> Nat] : /\ t[0] = 0 /\ t[n] = Size(r)
                                 /\ \A k \in 1..n : t[k] = t[k - 1] + r[k]
  BY SizeFacts
<1> DEFINE Good == {k \in Nat : k \in 0..n => sum[k] = t[k]}
<1>2. 0 \in Good
  BY <1>1
<1>3. ASSUME NEW k \in Good PROVE k + 1 \in Good
  <2> SUFFICES ASSUME k + 1 \in 0..n PROVE sum[k + 1] = t[k + 1]
    OBVIOUS
  <2>1. k \in 0..n /\ k + 1 \in 1..n /\ (k + 1) - 1 = k
    OBVIOUS
  <2>2. sum[k + 1] = sum[k] + r[k + 1] /\ t[k + 1] = t[k] + r[k + 1] /\ sum[k] = t[k]
    BY <1>1, <2>1
  <2>3. QED
    BY <2>2
<1>4. Good \in SUBSET Nat
  OBVIOUS
<1> HIDE DEF Good
<1>5. \A k \in Nat : k \in Good
  BY <1>2, <1>3, <1>4, ByInduction
<1>6. sum[n] = t[n]
  BY <1>5 DEF Good
<1>7. QED
  BY <1>1, <1>6

\* Sizes of parts that do not meet.
Parts(r, n, part) ==
  /\ n = Len(r)
  /\ \A k \in 1..n : IsFiniteSet(part[k]) /\ r[k] = Cardinality(part[k])
  /\ \A i, j \in 1..n : i # j => part[i] \cap part[j] = {}

\* They add up to the size of the whole.
LEMMA SizeOfParts ==
  ASSUME NEW r, NEW n \in Nat, NEW part, Parts(r, n, part)
  PROVE  Size(r) = Cardinality(UNION {part[k] : k \in 1..n})
<1> n = Len(r)
  BY DEF Parts
<1> \A k \in 1..n : IsFiniteSet(part[k]) /\ r[k] = Cardinality(part[k])
  BY DEF Parts
<1> \A i, j \in 1..n : i # j => part[i] \cap part[j] = {}
  BY DEF Parts
<1>1. \A k \in 1..n : r[k] \in Nat
  BY FS_CardinalityType
<1> DEFINE first(m) == UNION {part[k] : k \in 1..m}
<1>2. ASSUME NEW m \in 1..n, IsFiniteSet(first(m - 1))
      PROVE  /\ IsFiniteSet(first(m))
             /\ Cardinality(first(m)) = Cardinality(first(m - 1)) + r[m]
  <2>1. first(m) = first(m - 1) \cup part[m]
    <3>1. 1..m = 1..(m - 1) \cup {m}
      OBVIOUS
    <3>2. QED
      BY <3>1, Zenon
  <2>2. first(m - 1) \cap part[m] = {}
    <3> SUFFICES ASSUME NEW x \in part[m], NEW k \in 1..(m - 1), x \in part[k] PROVE FALSE
      OBVIOUS
    <3>1. k \in 1..n /\ k # m
      OBVIOUS
    <3>2. QED
      BY <3>1
  <2> HIDE DEF first
  <2>3. IsFiniteSet(part[m]) /\ Cardinality(part[m]) \in Nat /\ r[m] = Cardinality(part[m])
    BY FS_CardinalityType
  <2>4. Cardinality(first(m - 1)) \in Nat
    BY <1>2, FS_CardinalityType
  <2>5. /\ IsFiniteSet(first(m))
        /\ Cardinality(first(m)) = (Cardinality(first(m - 1)) + Cardinality(part[m])) - 0
    <3>1. Cardinality(first(m - 1) \cap part[m]) = 0
      BY <2>2, FS_EmptySet
    <3>2. /\ IsFiniteSet(first(m - 1) \cup part[m])
          /\ Cardinality(first(m - 1) \cup part[m]) =
               Cardinality(first(m - 1)) + Cardinality(part[m])
                 - Cardinality(first(m - 1) \cap part[m])
      BY <1>2, <2>3, FS_Union
    <3>3. QED
      BY <2>1, <2>3, <2>4, <3>1, <3>2
  <2>6. QED
    BY <2>3, <2>4, <2>5
<1>3. first(0) = {}
  OBVIOUS
<1> HIDE DEF first
<1>4. ASSUME NEW m \in 0..n PROVE IsFiniteSet(first(m))
  <2> DEFINE Good == {k \in Nat : k \in 0..n => IsFiniteSet(first(k))}
  <2>1. 0 \in Good
    BY <1>3, FS_EmptySet
  <2>2. ASSUME NEW k \in Good PROVE k + 1 \in Good
    <3> SUFFICES ASSUME k + 1 \in 0..n PROVE IsFiniteSet(first(k + 1))
      OBVIOUS
    <3>1. k \in 0..n /\ k + 1 \in 1..n /\ (k + 1) - 1 = k
      OBVIOUS
    <3>2. QED
      BY <1>2, <3>1
  <2>3. Good \in SUBSET Nat
    OBVIOUS
  <2> HIDE DEF Good
  <2>4. m \in Good
    BY <2>1, <2>2, <2>3, ByInduction
  <2>5. QED
    BY <2>4 DEF Good
<1> DEFINE sum == [m \in 0..n |-> Cardinality(first(m))]
<1>5. sum[0] = 0
  <2>1. sum[0] = Cardinality(first(0))
    OBVIOUS
  <2>2. QED
    BY <1>3, <2>1, FS_EmptySet, Zenon
<1>6. ASSUME NEW k \in 1..n PROVE sum[k] = sum[k - 1] + r[k]
  <2>1. k - 1 \in 0..n /\ k \in 0..n
    OBVIOUS
  <2>2. IsFiniteSet(first(k - 1))
    BY <1>4, <2>1
  <2>3. QED
    BY <1>2, <2>1, <2>2
<1>7. sum[n] = Cardinality(first(n))
  OBVIOUS
<1> HIDE DEF sum
<1>8. sum[n] = Size(r)
  BY <1>1, <1>5, <1>6, SumIsSize
<1>9. QED
  BY <1>7, <1>8, Zenon DEF first

\* The length of joined sequences.
LEMMA FlattenLength ==
  ASSUME NEW S, NEW ss \in Seq(Seq(S))
  PROVE  Len(FlattenSeq(ss)) = Size([k \in 1..Len(ss) |-> Len(ss[k])])
<1> DEFINE r == [k \in 1..Len(ss) |-> Len(ss[k])]
<1>1. Len(ss) \in Nat /\ Len(r) = Len(ss)
  OBVIOUS
<1>2. \A k \in 1..Len(ss) : ss[k] \in Seq(S)
  OBVIOUS
<1>3. \A k \in 1..Len(ss) : r[k] = Len(ss[k]) /\ r[k] \in Nat
  BY <1>2, LenProperties
<1> HIDE DEF r
<1>4. PICK end : JoinedAt(ss, Len(ss), FlattenSeq(ss), end)
  BY FlattenFacts, Zenon
<1>5. end[0] = 0 /\ \A k \in 1..Len(ss) : end[k] = end[k - 1] + r[k]
  BY <1>3, <1>4 DEF JoinedAt
<1>6. end[Len(ss)] = Size(r)
  BY <1>1, <1>3, <1>5, SumIsSize
<1>7. QED
  BY <1>4, <1>6 DEF r, JoinedAt

-----------------------------------------------------------------------------
(* What is swept *)

\* Every entry of a directory once, by rank.
LEMMA SortedFacts ==
  ASSUME NEW S, IsFiniteSet(S), \A e \in S : e.rank \in Int,
         \A e, f \in S : e.rank = f.rank => e = f
  PROVE  /\ Cardinality(S) \in Nat
         /\ Sorted(S) \in Seq(S) /\ Len(Sorted(S)) = Cardinality(S)
         /\ \A i, j \in 1..Cardinality(S) : i < j => Sorted(S)[i].rank < Sorted(S)[j].rank
         /\ \A e \in S : \E k \in 1..Cardinality(S) : Sorted(S)[k] = e
<1> DEFINE R == {p.rank : p \in S}
           rank == Ascending(R)
           Entry(k) == CHOOSE p \in S : p.rank = rank[k]
<1>1. IsFiniteSet(R) /\ Cardinality(R) = Cardinality(S)
  <2> DEFINE f == [p \in S |-> p.rank]
  <2>1. f \in Bijection(S, R)
    BY DEF Bijection, Injection, Surjection, IsInjective
  <2> HIDE DEF f
  <2>2. QED
    BY <2>1, FS_Bijection DEF ExistsBijection
<1>2. PICK n \in Nat : n = Cardinality(S)
  BY FS_CardinalityType
<1>3. R \in SUBSET Int
  OBVIOUS
<1>4. /\ rank \in [1..n -> R]
      /\ \A i, j \in 1..n : i < j => rank[i] < rank[j]
      /\ \A r \in R : \E k \in 1..n : rank[k] = r
  <2> HIDE DEF R
  <2>1. QED
    BY <1>1, <1>2, <1>3, AscendingFacts
<1>5. Sorted(S) = [k \in 1..n |-> Entry(k)]
  <2>1. Sorted(S) = [k \in DOMAIN rank |-> Entry(k)]
    BY Zenon DEF Sorted
  <2>2. DOMAIN rank = 1..n
    BY <1>4
  <2>3. QED
    BY <2>1, <2>2, Zenon
<1> HIDE DEF rank
<1>6. \A k \in 1..n : Entry(k) \in S /\ Entry(k).rank = rank[k]
  <2>1. \A k \in 1..n : \E p \in S : p.rank = rank[k]
    BY <1>4
  <2>2. QED
    BY <2>1, Zenon
<1> HIDE DEF Entry
<1>7. Sorted(S) \in [1..n -> S] /\ \A k \in 1..n : Sorted(S)[k] = Entry(k)
  BY <1>5, <1>6
<1>8. Sorted(S) \in Seq(S) /\ Len(Sorted(S)) = n
  BY <1>7
<1>9. \A i, j \in 1..n : i < j => Sorted(S)[i].rank < Sorted(S)[j].rank
  BY <1>4, <1>6, <1>7
<1>10. ASSUME NEW e \in S PROVE \E k \in 1..n : Sorted(S)[k] = e
  <2>1. PICK k \in 1..n : rank[k] = e.rank
    BY <1>4
  <2>2. Entry(k) = e
    BY <1>6, <2>1
  <2>3. QED
    BY <1>7, <2>2
<1>11. QED
  BY <1>2, <1>8, <1>9, <1>10

\* Fields that are left, and no blanks among them.
LEMMA TypedFacts ==
  ASSUME NEW csv \in Seq(Field)
  PROVE  /\ Typed(csv) \in Seq(Field)
         /\ \A k \in DOMAIN Typed(csv) : \E i \in DOMAIN csv :
              csv[i] # Blank /\ Typed(csv)[k] = csv[i]
         /\ \A i \in DOMAIN csv : csv[i] # Blank =>
              \E k \in DOMAIN Typed(csv) : Typed(csv)[k] = csv[i]
<1> DEFINE I == {i \in DOMAIN csv : csv[i] # Blank}
<1>1. I \in SUBSET DOMAIN csv /\ Typed(csv) = At(csv, I)
  BY DEF Typed
<1>2. \A i \in I : i \in DOMAIN csv /\ csv[i] # Blank
  OBVIOUS
<1>3. \A i \in DOMAIN csv : csv[i] # Blank => i \in I
  OBVIOUS
<1> HIDE DEF I
<1>4. PICK n \in Nat : n = Cardinality(I)
  BY <1>1, AtFacts
<1>5. /\ Typed(csv) \in Seq(Field) /\ Len(Typed(csv)) = n
      /\ Ascending(I) \in [1..n -> I]
      /\ \A k \in 1..n : Typed(csv)[k] = csv[Ascending(I)[k]]
      /\ \A i \in I : \E k \in 1..n : Ascending(I)[k] = i
  BY <1>1, <1>4, AtFacts
<1>6. DOMAIN Typed(csv) = 1..n
  BY <1>5, LenProperties
<1>7. ASSUME NEW k \in DOMAIN Typed(csv)
      PROVE  \E i \in DOMAIN csv : csv[i] # Blank /\ Typed(csv)[k] = csv[i]
  BY <1>2, <1>5, <1>6
<1>8. ASSUME NEW i \in DOMAIN csv, csv[i] # Blank
      PROVE  \E k \in DOMAIN Typed(csv) : Typed(csv)[k] = csv[i]
  <2>1. i \in I
    BY <1>3, <1>8
  <2>2. PICK k \in 1..n : Ascending(I)[k] = i
    BY <1>5, <2>1
  <2>3. Typed(csv)[k] = csv[i]
    BY <1>5, <2>2
  <2>4. k \in DOMAIN Typed(csv)
    BY <1>6
  <2>5. QED
    BY <2>3, <2>4
<1>9. QED
  BY <1>5, <1>7, <1>8

\* What a list of versions is read as has nothing twice.
LEMMA ParsedFacts ==
  ASSUME NEW csv \in Seq(Field)
  PROVE  /\ ParseVersions(csv) \in Seq(Field) /\ IsInjective(ParseVersions(csv))
         /\ ParseVersions(csv) # Bad => ParseVersions(csv) = Typed(csv)
<1>1. <<>> \in Seq(Field) /\ IsInjective(<<>>)
  BY DEF IsInjective
<1>2. QED
  BY <1>1, TypedFacts DEF ParseVersions, Bad

\* The conversion to an int32 stays within its values, and keeps what is one.
LEMMA Int32Facts ==
  ASSUME NEW n \in Int
  PROVE  /\ Int32(n) \in -Half..(Half - 1)
         /\ n \in -Half..(Half - 1) => Int32(n) = n
<1>1. PICK h \in Nat \ {0} : h = Half
  BY RequestAssumption
<1>2. PICK w \in Nat \ {0} : w = 2 * h
  OBVIOUS
<1>3. PICK m \in 0..(w - 1) : m = n % w
  OBVIOUS
<1>4. Int32(n) = IF m < h THEN m ELSE m - w
  BY <1>1, <1>2, <1>3 DEF Int32
<1>5. (IF m < h THEN m ELSE m - w) \in -h..(h - 1)
  BY <1>2
<1>6. n \in -h..(h - 1) => (IF m < h THEN m ELSE m - w) = n
  <2>1. CASE n \in 0..(h - 1)
    <3>1. n % w = n
      BY <1>2, <2>1
    <3>2. QED
      BY <1>2, <1>3, <2>1, <3>1
  <2>2. CASE n \in -h..(0 - 1)
    <3>1. n % w = n + w
      BY <1>2, <2>2
    <3>2. QED
      BY <1>2, <1>3, <2>2, <3>1
  <2>3. CASE n \notin -h..(h - 1)
    BY <2>3
  <2>4. QED
    BY <2>1, <2>2, <2>3
<1>7. QED
  BY <1>1, <1>4, <1>5, <1>6

\* An int32 is told by its residue.
LEMMA Residues ==
  ASSUME NEW h \in Nat \ {0}, NEW m \in -h..(h - 1)
  PROVE  m % (2 * h) = IF m >= 0 THEN m ELSE m + 2 * h
<1>1. PICK w \in Nat \ {0} : w = 2 * h
  OBVIOUS
<1>2. CASE m >= 0
  <2>1. m \in 0..(w - 1)
    BY <1>1, <1>2
  <2>2. m % w = m
    BY <2>1
  <2>3. QED
    BY <1>1, <1>2, <2>2
<1>3. CASE ~(m >= 0)
  <2>1. m + w \in 0..(w - 1) /\ m \in Int
    BY <1>1, <1>3
  <2>2. m % w = m + w
    BY <2>1
  <2>3. QED
    BY <1>1, <1>3, <2>2
<1>4. QED
  BY <1>2, <1>3

\* The conversion to an int32 keeps the lower bits, and they leave no choice.
LEMMA Int32Wraps ==
  ASSUME NEW n \in Int
  PROVE  /\ IsInt32Of(Int32(n), n)
         /\ \A a, b : IsInt32Of(a, n) /\ IsInt32Of(b, n) => a = b
<1>1. PICK h \in Nat \ {0} : h = Half
  BY RequestAssumption
<1>2. PICK w \in Nat \ {0} : w = 2 * h
  OBVIOUS
<1>3. PICK r \in 0..(w - 1) : r = n % w
  OBVIOUS
<1>4. \A m \in -h..(h - 1) : m % w = IF m >= 0 THEN m ELSE m + w
  BY <1>2, Residues
<1>5. PICK m \in -h..(h - 1) : m = Int32(n)
  BY <1>1, Int32Facts
<1>6. m = IF r < h THEN r ELSE r - w
  BY <1>1, <1>2, <1>3, <1>5 DEF Int32
<1>7. m % w = r
  <2>1. m % w = IF m >= 0 THEN m ELSE m + w
    BY <1>4
  <2>2. (IF m >= 0 THEN m ELSE m + w) = r
    BY ONLY <1>2, <1>6, h \in Nat \ {0}, w \in Nat \ {0}, r \in 0..(w - 1)
  <2>3. QED
    BY <2>1, <2>2
<1>8. IsInt32Of(Int32(n), n)
  BY <1>1, <1>2, <1>3, <1>5, <1>7 DEF IsInt32Of
<1>9. ASSUME NEW a, NEW b, IsInt32Of(a, n), IsInt32Of(b, n) PROVE a = b
  <2>1. a \in -h..(h - 1) /\ b \in -h..(h - 1) /\ a % w = r /\ b % w = r
    BY <1>1, <1>2, <1>3, <1>9 DEF IsInt32Of
  <2>2. (IF a >= 0 THEN a ELSE a + w) = (IF b >= 0 THEN b ELSE b + w)
    BY <1>4, <2>1
  <2>3. QED
    BY ONLY <1>2, <2>1, <2>2, h \in Nat \ {0}, w \in Nat \ {0}
<1>10. QED
  BY <1>8, <1>9

\* What gubalctl sends are numbers.
LEMMA MajorsFacts ==
  ASSUME NEW csv \in Seq(Field)
  PROVE  ParseMajors(csv) \in Seq(Int)
<1> DEFINE t == Typed(csv)
<1>1. t \in Seq(Field)
  BY TypedFacts
<1> HIDE DEF t
<1>2. \A i \in 1..Len(t) : t[i].n \in Int
  <2>1. \A i \in 1..Len(t) : t[i] \in Field
    BY <1>1, ElementOfSeq
  <2>2. \A fd \in Field : fd.n \in Int
    BY DEF Field
  <2>3. QED
    BY <2>1, <2>2
<1>3. \A i \in 1..Len(t) : Int32(t[i].n) \in Int
  <2>1. Half \in Int
    BY RequestAssumption
  <2>2. QED
    BY <1>2, <2>1, Int32Facts
<1>4. Len(t) \in Nat /\ DOMAIN t = 1..Len(t)
  BY <1>1, LenProperties
<1>5. [i \in DOMAIN t |-> Int32(t[i].n)] \in Seq(Int)
  BY <1>3, <1>4
<1>6. <<>> \in Seq(Int)
  OBVIOUS
<1>7. QED
  BY <1>5, <1>6 DEF ParseMajors, Bad, t

\* ... which gubald writes as fields again.
LEMMA IntsFacts ==
  ASSUME NEW vs \in Seq(Int)
  PROVE  /\ ParseInts(vs) \in Seq(Field) /\ IsInjective(ParseInts(vs))
         /\ ParseInts(vs) # Bad =>
              ParseInts(vs) = Typed([i \in DOMAIN vs |-> Number(vs[i])])
<1> DEFINE csv == [i \in DOMAIN vs |-> Number(vs[i])]
<1>1. csv \in Seq(Field)
  <2>1. DOMAIN vs = 1..Len(vs) /\ Len(vs) \in Nat
    BY LenProperties
  <2>2. \A i \in 1..Len(vs) : Number(vs[i]) \in Field
    BY ElementOfSeq DEF Number, Field
  <2>3. QED
    BY <2>1, <2>2
<1> HIDE DEF csv
<1>2. ParseInts(vs) = ParseVersions(csv)
  BY DEF ParseInts, csv
<1>3. QED
  BY <1>1, <1>2, ParsedFacts DEF csv

-----------------------------------------------------------------------------
(* Targets and policies *)

Browsers == {ChromeBrowser, FirefoxBrowser}
Target == [b : Browsers, tags : Seq(Field)]

\* Browsers of their own, with versions.
TargetsOk(ts) ==
  /\ ts \in Seq(Target) /\ ts # <<>>
  /\ \A t \in DOMAIN ts : ts[t].tags # Bad /\ IsInjective(ts[t].tags)
  /\ \A t, u \in DOMAIN ts : ts[t].b = ts[u].b => t = u

\* The two browsers differ.
LEMMA BrowsersDiffer == ChromeBrowser.name = "chrome" /\ FirefoxBrowser.name = "firefox"
                        /\ ChromeBrowser # FirefoxBrowser
BY DEF ChromeBrowser, FirefoxBrowser, Preset

\* Both browsers.
LEMMA BothTargets ==
  ASSUME NEW c \in Seq(Field), NEW f \in Seq(Field)
  PROVE  /\ Targets(c, f) \in Seq(Target) /\ Len(Targets(c, f)) = 2
         /\ Targets(c, f)[1] = [b |-> ChromeBrowser, tags |-> c]
         /\ Targets(c, f)[2] = [b |-> FirefoxBrowser, tags |-> f]
<1>1. [b |-> ChromeBrowser, tags |-> c] \in Target
  BY DEF Target, Browsers
<1>2. [b |-> FirefoxBrowser, tags |-> f] \in Target
  BY DEF Target, Browsers
<1>3. QED
  BY <1>1, <1>2 DEF Targets

\* The targets of a request.
LEMMA RequestedTargets ==
  ASSUME NEW cs \in Seq(Int), NEW fs \in Seq(Int),
         ParseInts(cs) # Bad, ParseInts(fs) # Bad
  PROVE  TargetsOk(Targets(ParseInts(cs), ParseInts(fs)))
<1> DEFINE c == ParseInts(cs)
           f == ParseInts(fs)
<1>1. c \in Seq(Field) /\ f \in Seq(Field) /\ IsInjective(c) /\ IsInjective(f)
  BY IntsFacts
<1>2. c # Bad /\ f # Bad
  OBVIOUS
<1> HIDE DEF c, f
<1> DEFINE ts == Targets(c, f)
<1>3. /\ ts \in Seq(Target) /\ Len(ts) = 2
      /\ ts[1] = [b |-> ChromeBrowser, tags |-> c]
      /\ ts[2] = [b |-> FirefoxBrowser, tags |-> f]
  BY <1>1, BothTargets
<1> HIDE DEF ts
<1>4. DOMAIN ts = {1, 2}
  BY <1>3
<1>5. ts # <<>>
  <2>1. Len(<<>>) = 0
    OBVIOUS
  <2>2. Len(ts) # 0
    BY <1>3
  <2>3. QED
    BY <2>1, <2>2, Zenon
<1>6. \A t \in DOMAIN ts : ts[t].tags # Bad /\ IsInjective(ts[t].tags)
  BY <1>1, <1>2, <1>3, <1>4
<1>7. \A t, u \in DOMAIN ts : ts[t].b = ts[u].b => t = u
  BY <1>3, <1>4, BrowsersDiffer
<1>8. TargetsOk(ts)
  BY <1>3, <1>5, <1>6, <1>7 DEF TargetsOk
<1>9. QED
  BY <1>8 DEF ts, c, f

\* Those of a command line.
LEMMA TypedTargets ==
  ASSUME NEW chrome \in Seq(Field), NEW firefox \in Seq(Field),
         BrowsersFromFlags(chrome, firefox) # Bad
  PROVE  TargetsOk(BrowsersFromFlags(chrome, firefox))
<1> DEFINE c == ParseVersions(chrome)
           f == ParseVersions(firefox)
           all == Targets(c, f)
           I == {k \in DOMAIN all : all[k].tags # Bad}
           ts == At(all, I)
<1>1. c \in Seq(Field) /\ f \in Seq(Field) /\ IsInjective(c) /\ IsInjective(f)
  BY ParsedFacts
<1>2. BrowsersFromFlags(chrome, firefox) = ts /\ ts # <<>>
  BY DEF BrowsersFromFlags, Bad
<1> HIDE DEF c, f
<1>3. /\ all \in Seq(Target) /\ Len(all) = 2
      /\ all[1] = [b |-> ChromeBrowser, tags |-> c]
      /\ all[2] = [b |-> FirefoxBrowser, tags |-> f]
  BY <1>1, BothTargets
<1> HIDE DEF all
<1>4. DOMAIN all = {1, 2}
  BY <1>3
<1>5. I \in SUBSET DOMAIN all /\ \A k \in I : all[k].tags # Bad
  OBVIOUS
<1> HIDE DEF I
<1>6. PICK n \in Nat : n = Cardinality(I)
  BY <1>3, <1>5, AtFacts
<1>7. /\ ts \in Seq(Target) /\ Len(ts) = n
      /\ Ascending(I) \in [1..n -> I]
      /\ \A k \in 1..n : ts[k] = all[Ascending(I)[k]]
      /\ \A i, j \in 1..n : i < j => Ascending(I)[i] < Ascending(I)[j]
  BY <1>3, <1>5, <1>6, AtFacts
<1> HIDE DEF ts
<1>8. DOMAIN ts = 1..n
  BY <1>7, LenProperties
<1>9. \A t \in DOMAIN ts : ts[t].tags # Bad /\ IsInjective(ts[t].tags)
  <2>1. \A k \in I : all[k].tags # Bad /\ IsInjective(all[k].tags)
    BY <1>1, <1>3, <1>4, <1>5
  <2>2. QED
    BY <1>7, <1>8, <2>1
<1>10. ASSUME NEW t \in DOMAIN ts, NEW u \in DOMAIN ts, ts[t].b = ts[u].b PROVE t = u
  <2>1. \A k, l \in I : all[k].b = all[l].b => k = l
    BY <1>3, <1>4, <1>5, BrowsersDiffer
  <2>2. Ascending(I)[t] = Ascending(I)[u] /\ Ascending(I)[t] \in {1, 2}
    BY <1>4, <1>5, <1>7, <1>8, <1>10, <2>1
  <2>3. ~(t < u) /\ ~(u < t)
    BY <1>7, <1>8, <2>2
  <2>4. QED
    BY <1>8, <2>3
<1>11. TargetsOk(ts)
  BY <1>2, <1>7, <1>9, <1>10 DEF TargetsOk
<1>12. QED
  BY <1>2, <1>11

\* The policies of a directory.
PoliciesOk(ps, ruleset) ==
  /\ IsFiniteSet(ruleset) /\ Cardinality(ruleset) \in Nat
  /\ ps \in Seq(ruleset) /\ ps # <<>> /\ Len(ps) = Cardinality(ruleset)
  /\ \A i, j \in DOMAIN ps : i < j => ps[i].rank < ps[j].rank
  /\ \A i, j \in DOMAIN ps : ps[i].name = ps[j].name => i = j
  /\ \A e \in ruleset : \E k \in DOMAIN ps : ps[k] = e
  /\ \A e \in ruleset : e.rank \in Int /\ e.name \in Seq(STRING)
  /\ \A e, f \in ruleset : e.name = f.name => e = f

\* A directory that can be read has its policies sorted by name, each of them once.
LEMMA ReadPolicies ==
  ASSUME inv \in Invocations, LoadPolicies(inv.dir) # {}
  PROVE  /\ LoadPolicies(inv.dir) = Yaml(inv.dir)
         /\ PoliciesOk(Sorted(LoadPolicies(inv.dir)), Yaml(inv.dir))
<1> DEFINE S == Yaml(inv.dir)
<1>1. LoadPolicies(inv.dir) = S
  BY DEF LoadPolicies
<1>2. /\ IsFiniteSet(inv.dir)
      /\ \A e \in S : e.rank \in Int /\ e.name \in Seq(STRING)
      /\ \A e, f \in S : e.rank = f.rank \/ e.name = f.name => e = f
  BY InvocationsAssumption
<1>3. S \in SUBSET inv.dir
  BY DEF Yaml
<1> HIDE DEF S
<1>4. IsFiniteSet(S)
  BY <1>2, <1>3, FS_Subset
<1>5. PICK n \in Nat : n = Cardinality(S)
  BY <1>4, FS_CardinalityType
<1> DEFINE ps == Sorted(S)
<1>6. /\ ps \in Seq(S) /\ Len(ps) = n
      /\ \A i, j \in 1..n : i < j => ps[i].rank < ps[j].rank
      /\ \A e \in S : \E k \in 1..n : ps[k] = e
  BY <1>2, <1>4, <1>5, SortedFacts
<1> HIDE DEF ps
<1>7. DOMAIN ps = 1..n /\ \A k \in 1..n : ps[k] \in S
  BY <1>6, LenProperties, ElementOfSeq
<1>8. ps # <<>>
  <2>1. PICK e \in S : TRUE
    BY <1>1
  <2>2. PICK k \in 1..n : ps[k] = e
    BY <1>6, <2>1
  <2>3. n > 0
    OBVIOUS
  <2>4. QED
    BY <1>6, <2>3, EmptySeq
<1>9. ASSUME NEW i \in 1..n, NEW j \in 1..n, ps[i].name = ps[j].name PROVE i = j
  <2>1. ps[i] = ps[j] /\ ps[i].rank \in Int
    BY <1>2, <1>7, <1>9
  <2>2. ~(i < j) /\ ~(j < i)
    BY <1>6, <2>1
  <2>3. QED
    BY <2>2
<1>10. PoliciesOk(ps, S)
  BY <1>2, <1>4, <1>5, <1>6, <1>7, <1>8, <1>9 DEF PoliciesOk
<1>11. QED
  BY <1>1, <1>10 DEF ps, S
-----------------------------------------------------------------------------
(* The matrix *)

\* Joined sequences have the elements of all of them.
IsJoined(flat, S, ss, n) ==
  /\ flat \in Seq(S)
  /\ \E end : JoinedAt(ss, n, flat, end)
  /\ \A k \in 1..n : \A j \in 1..Len(ss[k]) : \E x \in 1..Len(flat) : flat[x] = ss[k][j]

\* That is what FlattenSeq returns, ...
LEMMA JoinedElements ==
  ASSUME NEW S, NEW ss \in Seq(Seq(S)), NEW n \in Nat, n = Len(ss),
         NEW flat, flat = FlattenSeq(ss)
  PROVE  IsJoined(flat, S, ss, n)
<1>1. PICK end : JoinedAt(ss, n, flat, end)
  BY FlattenFacts, Zenon
<1>2. \A k \in 1..n : \A j \in 1..Len(ss[k]) :
        end[k - 1] + j \in 1..Len(flat) /\ flat[end[k - 1] + j] = ss[k][j]
  BY <1>1 DEF JoinedAt
<1>3. flat \in Seq(S)
  BY FlattenFacts, Zenon
<1>4. \A k \in 1..n : \A j \in 1..Len(ss[k]) : \E x \in 1..Len(flat) : flat[x] = ss[k][j]
  BY <1>2
<1>5. QED
  BY <1>1, <1>3, <1>4, Zenon DEF IsJoined

\* Sequences that have nothing twice, and nothing in common, ...
NoneTwice(ss, n) ==
  /\ \A k \in 1..n : \A i, j \in 1..Len(ss[k]) : ss[k][i] = ss[k][j] => i = j
  /\ \A k, l \in 1..n : \A i \in 1..Len(ss[k]) : \A j \in 1..Len(ss[l]) :
       ss[k][i] = ss[l][j] => k = l

\* ... have nothing twice when they are joined.
LEMMA JoinedOnce ==
  ASSUME NEW ss, NEW n \in Nat, NEW flat, NEW end, JoinedAt(ss, n, flat, end),
         NoneTwice(ss, n)
  PROVE  \A x, y \in 1..Len(flat) : flat[x] = flat[y] => x = y
<1> SUFFICES ASSUME NEW x \in 1..Len(flat), NEW y \in 1..Len(flat), flat[x] = flat[y]
             PROVE  x = y
  OBVIOUS
<1>1. /\ \A k \in 1..n : \A j \in 1..Len(ss[k]) : flat[end[k - 1] + j] = ss[k][j]
      /\ \A z \in 1..Len(flat) : \E k \in 1..n : \E j \in 1..Len(ss[k]) : z = end[k - 1] + j
  BY DEF JoinedAt
<1>2. PICK k \in 1..n : \E i \in 1..Len(ss[k]) : x = end[k - 1] + i
  BY <1>1
<1>3. PICK i \in 1..Len(ss[k]) : x = end[k - 1] + i
  BY <1>2
<1>4. PICK l \in 1..n : \E j \in 1..Len(ss[l]) : y = end[l - 1] + j
  BY <1>1
<1>5. PICK j \in 1..Len(ss[l]) : y = end[l - 1] + j
  BY <1>4
<1>6. ss[k][i] = ss[l][j]
  <2>1. flat[x] = ss[k][i]
    BY <1>1, <1>3, Zenon
  <2>2. flat[y] = ss[l][j]
    BY <1>1, <1>5, Zenon
  <2>3. QED
    BY <2>1, <2>2, Zenon
<1>7. k = l
  BY <1>6, Zenon DEF NoneTwice
<1>8. i = j
  BY <1>6, <1>7, Zenon DEF NoneTwice
<1>9. QED
  BY <1>3, <1>5, <1>7, <1>8, Zenon

\* Where a sequence ends among the joined ones grows with its number.
LEMMA EndsGrow ==
  ASSUME NEW n \in Nat, NEW end \in [0..n -> Nat], \A h \in 1..n : end[h - 1] <= end[h]
  PROVE  \A m \in 0..n : \A h \in 0..m : end[h] <= end[m]
<1> DEFINE Good == {m \in Nat : m \in 0..n => \A h \in 0..m : end[h] <= end[m]}
<1>1. 0 \in Good
  <2>1. 0 \in 0..n /\ \A h \in 0..0 : h = 0
    OBVIOUS
  <2>2. end[0] <= end[0]
    BY <2>1
  <2>3. QED
    BY <2>1, <2>2
<1>2. ASSUME NEW m \in Good PROVE m + 1 \in Good
  <2> SUFFICES ASSUME m + 1 \in 0..n, NEW h \in 0..(m + 1) PROVE end[h] <= end[m + 1]
    OBVIOUS
  <2>1. m \in 0..n /\ m + 1 \in 1..n /\ (m + 1) - 1 = m /\ h \in 0..n
    OBVIOUS
  <2>2. PICK e, f, g \in Nat : e = end[m] /\ f = end[m + 1] /\ g = end[h]
    BY <2>1
  <2>3. e <= f
    BY <2>1, <2>2
  <2>4. CASE h = m + 1
    BY <2>2, <2>4
  <2>5. CASE h \in 0..m
    <3>1. g <= e
      BY <2>1, <2>2, <2>5
    <3>2. QED
      BY <2>2, <2>3, <3>1
  <2>6. QED
    BY <2>4, <2>5
<1>3. Good \in SUBSET Nat
  OBVIOUS
<1> HIDE DEF Good
<1>4. \A m \in Nat : m \in Good
  BY <1>1, <1>2, <1>3, ByInduction
<1>5. QED
  BY <1>4 DEF Good

\* Elements of joined sequences keep their order: by their sequence, then by their place in it.
KeepsOrder(ss, n, flat) ==
  \A k, l \in 1..n : \A i \in 1..Len(ss[k]) : \A j \in 1..Len(ss[l]) :
    k < l \/ (k = l /\ i < j) =>
      \A x, y \in 1..Len(flat) : flat[x] = ss[k][i] /\ flat[y] = ss[l][j] => x < y

LEMMA JoinedInOrder ==
  ASSUME NEW S, NEW ss \in Seq(Seq(S)), NEW n \in Nat, n = Len(ss),
         NEW flat, NEW end, JoinedAt(ss, n, flat, end),
         \A x, y \in 1..Len(flat) : flat[x] = flat[y] => x = y
  PROVE  KeepsOrder(ss, n, flat)
<1> SUFFICES ASSUME NEW k \in 1..n, NEW l \in 1..n,
                    NEW i \in 1..Len(ss[k]), NEW j \in 1..Len(ss[l]),
                    k < l \/ (k = l /\ i < j),
                    NEW x \in 1..Len(flat), NEW y \in 1..Len(flat),
                    flat[x] = ss[k][i], flat[y] = ss[l][j]
             PROVE  x < y
  BY SMTT(60) DEF KeepsOrder
<1>2. /\ end \in [0..n -> Nat]
      /\ \A h \in 1..n : end[h] = end[h - 1] + Len(ss[h])
      /\ \A h \in 1..n : \A z \in 1..Len(ss[h]) :
           end[h - 1] + z \in 1..Len(flat) /\ flat[end[h - 1] + z] = ss[h][z]
  BY DEF JoinedAt
<1>3. \A h \in 1..n : Len(ss[h]) \in Nat
  <2>1. \A h \in 1..n : ss[h] \in Seq(S)
    BY ElementOfSeq
  <2>2. QED
    BY <2>1, LenProperties
<1>4. \A h \in 1..n : end[h - 1] \in Nat
  <2>1. \A h \in 1..n : h - 1 \in 0..n
    OBVIOUS
  <2>2. QED
    BY <1>2, <2>1
<1>5. \A m \in 0..n : \A h \in 0..m : end[h] <= end[m]
  <2>1. ASSUME NEW h \in 1..n PROVE end[h - 1] <= end[h]
    <3>1. PICK e, f, len \in Nat : e = end[h - 1] /\ f = end[h] /\ len = Len(ss[h])
      <4>1. h \in 0..n
        OBVIOUS
      <4>2. end[h - 1] \in Nat /\ end[h] \in Nat /\ Len(ss[h]) \in Nat
        BY <1>2, <1>3, <1>4, <4>1
      <4>3. QED
        BY <4>2, Zenon
    <3>2. f = e + len
      BY <1>2, <3>1
    <3>3. e <= f
      BY ONLY e \in Nat, len \in Nat, <3>2
    <3>4. QED
      BY <3>1, <3>3, Zenon
  <2>2. QED
    BY ONLY n \in Nat, <1>2, <2>1, EndsGrow
<1>6. x = end[k - 1] + i /\ y = end[l - 1] + j
  <2>1. end[k - 1] + i \in 1..Len(flat) /\ flat[end[k - 1] + i] = flat[x]
    BY <1>2
  <2>2. end[l - 1] + j \in 1..Len(flat) /\ flat[end[l - 1] + j] = flat[y]
    BY <1>2
  <2>3. QED
    BY <2>1, <2>2, Zenon
<1>7. PICK a, b, c \in Nat : a = end[k - 1] /\ b = end[l - 1] /\ c = Len(ss[k])
  BY <1>3, <1>4
<1>8. x = a + i /\ y = b + j
  BY <1>6, <1>7, Zenon
<1>9. i \in 1..c /\ j \in Nat \ {0}
  <2>1. Len(ss[l]) \in Nat
    BY <1>3
  <2>2. QED
    BY <1>7, <2>1
<1>10. CASE k = l /\ i < j
  <2>1. a = b
    BY <1>7, <1>10
  <2>2. QED
    BY ONLY <1>8, <1>9, <1>10, <2>1, a \in Nat, c \in Nat
<1>11. CASE k < l
  <2>1. k \in 0..(l - 1) /\ l - 1 \in 0..n
    BY <1>11
  <2>2. end[k] <= end[l - 1]
    BY <1>5, <2>1
  <2>3. a + c <= b
    BY <1>2, <1>7, <2>2
  <2>4. QED
    BY ONLY <1>8, <1>9, <2>3, a \in Nat, b \in Nat, c \in Nat
<1>12. QED
  BY <1>10, <1>11

\* Sequences of one length.
LEMMA JoinedEqually ==
  ASSUME NEW ss, NEW n \in Nat, NEW m \in Nat, \A k \in 1..n : Len(ss[k]) = m,
         NEW flat, NEW end, JoinedAt(ss, n, flat, end)
  PROVE  Len(flat) = n * m
<1>2. end[0] = 0 /\ end[n] = Len(flat) /\ \A k \in 1..n : end[k] = end[k - 1] + Len(ss[k])
  BY DEF JoinedAt
<1> DEFINE Good == {k \in Nat : k \in 0..n => end[k] = k * m}
<1>3. 0 \in Good
  BY <1>2
<1>4. ASSUME NEW k \in Good PROVE k + 1 \in Good
  <2> SUFFICES ASSUME k + 1 \in 0..n PROVE end[k + 1] = (k + 1) * m
    OBVIOUS
  <2>1. k \in 0..n /\ k + 1 \in 1..n /\ (k + 1) - 1 = k /\ k \in Nat
    OBVIOUS
  <2>2. end[k + 1] = k * m + m
    BY <1>2, <2>1
  <2>3. k * m + m = (k + 1) * m
    BY ONLY k \in Nat, m \in Nat
  <2>4. QED
    BY <2>2, <2>3
<1>5. Good \in SUBSET Nat
  OBVIOUS
<1> HIDE DEF Good
<1>6. \A k \in Nat : k \in Good
  BY <1>3, <1>4, <1>5, ByInduction
<1>7. end[n] = n * m
  BY <1>6 DEF Good
<1>8. QED
  BY <1>2, <1>7

\* Triples are equal part by part.
LEMMA TripleEqual ==
  ASSUME NEW a, NEW b, NEW c, NEW d, NEW e, NEW f, <<a, b, c>> = <<d, e, f>>
  PROVE  a = d /\ b = e /\ c = f
OBVIOUS

Keys == Seq(STRING) \X {"chrome", "firefox"} \X Field

\* The rows of one policy, and of all.
KeysOf(name, ts) ==
  FlattenSeq([t \in DOMAIN ts |->
    [i \in DOMAIN ts[t].tags |-> <<name, ts[t].b.name, ts[t].tags[i]>>]])
MatrixOf(ps, ts) == FlattenSeq([p \in DOMAIN ps |-> KeysOf(ps[p].name, ts)])

\* How many versions there are.
Versions(ts) == Size([t \in 1..Len(ts) |-> Len(ts[t].tags)])

\* Every version of every browser, and nothing else.
HasVersions(name, keys, ts) ==
  /\ \A x \in 1..Len(keys) : \E t \in DOMAIN ts : \E i \in DOMAIN ts[t].tags :
       keys[x] = <<name, ts[t].b.name, ts[t].tags[i]>>
  /\ \A t \in DOMAIN ts : \A i \in DOMAIN ts[t].tags : \E x \in 1..Len(keys) :
       keys[x] = <<name, ts[t].b.name, ts[t].tags[i]>>

\* First by browser, then by version.
KeysInOrder(name, keys, ts) ==
  \A t, u \in DOMAIN ts : \A i \in DOMAIN ts[t].tags : \A j \in DOMAIN ts[u].tags :
    t < u \/ (t = u /\ i < j) =>
      \A x, y \in 1..Len(keys) :
        /\ keys[x] = <<name, ts[t].b.name, ts[t].tags[i]>>
        /\ keys[y] = <<name, ts[u].b.name, ts[u].tags[j]>>
        => x < y

\* A policy has each version of each browser once, in their order.
LEMMA KeysFacts ==
  ASSUME NEW name \in Seq(STRING), NEW ts, TargetsOk(ts), NEW flat, flat = KeysOf(name, ts)
  PROVE  /\ flat \in Seq(Keys) /\ Len(flat) # 0
         /\ Len(flat) = Versions(ts) /\ Versions(ts) \in Nat
         /\ \A x, y \in 1..Len(flat) : flat[x] = flat[y] => x = y
         /\ HasVersions(name, flat, ts) /\ KeysInOrder(name, flat, ts)
<1> DEFINE Row(t) == [i \in DOMAIN ts[t].tags |-> <<name, ts[t].b.name, ts[t].tags[i]>>]
           ss == [t \in DOMAIN ts |-> Row(t)]
<1>1. /\ ts \in Seq(Target) /\ ts # <<>>
      /\ \A t \in DOMAIN ts : ts[t].tags # Bad /\ IsInjective(ts[t].tags)
      /\ \A t, u \in DOMAIN ts : ts[t].b = ts[u].b => t = u
  BY DEF TargetsOk
<1>2. PICK n \in Nat : n = Len(ts) /\ DOMAIN ts = 1..n
  BY <1>1
<1>3. n > 0
  BY <1>1, <1>2, EmptySeq
<1>4. ASSUME NEW t \in 1..n
      PROVE  /\ ts[t].b \in Browsers /\ ts[t].b.name \in {"chrome", "firefox"}
             /\ ts[t].tags \in Seq(Field) /\ Len(ts[t].tags) \in Nat /\ Len(ts[t].tags) > 0
             /\ DOMAIN ts[t].tags = 1..Len(ts[t].tags)
  <2>1. ts[t] \in Target
    BY <1>1, <1>2, ElementOfSeq
  <2>2. ts[t].b \in Browsers /\ ts[t].tags \in Seq(Field)
    BY <2>1 DEF Target
  <2>3. ts[t].tags # <<>>
    BY <1>1, <1>2 DEF Bad
  <2>4. QED
    BY <2>2, <2>3, EmptySeq, LenProperties, BrowsersDiffer DEF Browsers
<1>5. ASSUME NEW t \in 1..n
      PROVE  /\ Row(t) \in Seq(Keys) /\ Len(Row(t)) = Len(ts[t].tags)
             /\ \A i \in 1..Len(ts[t].tags) :
                  Row(t)[i] = <<name, ts[t].b.name, ts[t].tags[i]>>
  <2>1. \A i \in 1..Len(ts[t].tags) : <<name, ts[t].b.name, ts[t].tags[i]>> \in Keys
    BY <1>4, ElementOfSeq DEF Keys
  <2>2. PICK l \in Nat : l = Len(ts[t].tags) /\ DOMAIN ts[t].tags = 1..l
    BY <1>4
  <2>3. Row(t) \in [1..l -> Keys]
    BY <2>1, <2>2
  <2>4. \A i \in 1..l : Row(t)[i] = <<name, ts[t].b.name, ts[t].tags[i]>>
    BY <2>2
  <2> HIDE DEF Row
  <2>5. Row(t) \in Seq(Keys) /\ Len(Row(t)) = l
    BY <2>3
  <2>6. QED
    BY <2>2, <2>4, <2>5
<1> HIDE DEF Row
<1>6. /\ ss \in Seq(Seq(Keys)) /\ Len(ss) = n
      /\ \A t \in 1..n : ss[t] = Row(t)
  <2>1. ss \in [1..n -> Seq(Keys)]
    BY <1>2, <1>5
  <2>2. \A t \in 1..n : ss[t] = Row(t)
    BY <1>2
  <2> HIDE DEF ss
  <2>3. QED
    BY <2>1, <2>2
<1>7. flat = FlattenSeq(ss)
  BY Zenon DEF KeysOf, Row
<1> HIDE DEF ss
<1>8. \A k \in 1..n : \A i, j \in 1..Len(ss[k]) : ss[k][i] = ss[k][j] => i = j
  <2> SUFFICES ASSUME NEW k \in 1..n, NEW i \in 1..Len(ss[k]), NEW j \in 1..Len(ss[k]),
                      ss[k][i] = ss[k][j]
               PROVE  i = j
    OBVIOUS
  <2>1. i \in DOMAIN ts[k].tags /\ j \in DOMAIN ts[k].tags
    BY <1>4, <1>5, <1>6
  <2>2. ss[k][i] = <<name, ts[k].b.name, ts[k].tags[i]>>
        /\ ss[k][j] = <<name, ts[k].b.name, ts[k].tags[j]>>
    BY <1>4, <1>5, <1>6, <2>1
  <2>3. <<name, ts[k].b.name, ts[k].tags[i]>> = <<name, ts[k].b.name, ts[k].tags[j]>>
    BY <2>2, Zenon
  <2>4. IsInjective(ts[k].tags)
    BY <1>1, <1>2
  <2>5. ts[k].tags[i] = ts[k].tags[j]
    BY ONLY <2>3, TripleEqual, Zenon
  <2>6. QED
    BY <2>1, <2>4, <2>5, Zenon DEF IsInjective
<1>9. \A k, l \in 1..n : \A i \in 1..Len(ss[k]) : \A j \in 1..Len(ss[l]) :
        ss[k][i] = ss[l][j] => k = l
  <2> SUFFICES ASSUME NEW k \in 1..n, NEW l \in 1..n, NEW i \in 1..Len(ss[k]),
                      NEW j \in 1..Len(ss[l]), ss[k][i] = ss[l][j]
               PROVE  k = l
    OBVIOUS
  <2>1. ss[k][i] = <<name, ts[k].b.name, ts[k].tags[i]>>
        /\ ss[l][j] = <<name, ts[l].b.name, ts[l].tags[j]>>
    BY <1>5, <1>6
  <2>2. ts[k].b.name = ts[l].b.name
    <3>1. <<name, ts[k].b.name, ts[k].tags[i]>> = <<name, ts[l].b.name, ts[l].tags[j]>>
      BY <2>1, Zenon
    <3>2. QED
      BY ONLY <3>1, TripleEqual, Zenon
  <2>3. ts[k].b = ts[l].b
    BY <1>4, <2>2, BrowsersDiffer DEF Browsers
  <2>4. QED
    BY <1>1, <1>2, <2>3
<1>10. /\ flat \in Seq(Keys)
       /\ \E end : JoinedAt(ss, n, flat, end)
       /\ \A k \in 1..n : \A j \in 1..Len(ss[k]) :
            \E x \in 1..Len(flat) : flat[x] = ss[k][j]
       /\ \A x, y \in 1..Len(flat) : flat[x] = flat[y] => x = y
  <2>1. ss \in Seq(Seq(Keys)) /\ n = Len(ss)
    BY <1>6
  <2>2. /\ flat \in Seq(Keys)
        /\ \E end : JoinedAt(ss, n, flat, end)
        /\ \A k \in 1..n : \A j \in 1..Len(ss[k]) :
             \E x \in 1..Len(flat) : flat[x] = ss[k][j]
    <3>1. IsJoined(flat, Keys, ss, n)
      BY <1>7, <2>1, JoinedElements
    <3>2. QED
      BY <3>1 DEF IsJoined
  <2>3. NoneTwice(ss, n)
    BY <1>8, <1>9, Zenon DEF NoneTwice
  <2>4. \A x, y \in 1..Len(flat) : flat[x] = flat[y] => x = y
    BY <2>2, <2>3, JoinedOnce
  <2>5. QED
    BY <2>2, <2>4, Zenon
<1>11. ASSUME NEW x \in 1..Len(flat)
       PROVE  \E t \in DOMAIN ts : \E i \in DOMAIN ts[t].tags :
                flat[x] = <<name, ts[t].b.name, ts[t].tags[i]>>
  <2>1. PICK k \in 1..n : \E j \in 1..Len(ss[k]) : flat[x] = ss[k][j]
    <3>1. PICK end : JoinedAt(ss, n, flat, end)
      BY <1>10
    <3>2. PICK k \in 1..n : \E j \in 1..Len(ss[k]) : x = end[k - 1] + j
      BY <3>1 DEF JoinedAt
    <3>3. PICK j \in 1..Len(ss[k]) : x = end[k - 1] + j
      BY <3>2
    <3>4. flat[x] = ss[k][j]
      BY <3>1, <3>3, Zenon DEF JoinedAt
    <3>5. QED
      BY <3>4
  <2>2. PICK j \in 1..Len(ss[k]) : flat[x] = ss[k][j]
    BY <2>1
  <2>3. j \in 1..Len(ts[k].tags) /\ ss[k][j] = <<name, ts[k].b.name, ts[k].tags[j]>>
    BY <1>5, <1>6
  <2>4. k \in DOMAIN ts /\ j \in DOMAIN ts[k].tags
    BY <1>2, <1>4, <2>3
  <2>5. QED
    BY <2>2, <2>3, <2>4
<1>12. ASSUME NEW t \in DOMAIN ts, NEW i \in DOMAIN ts[t].tags
       PROVE  \E x \in 1..Len(flat) : flat[x] = <<name, ts[t].b.name, ts[t].tags[i]>>
  <2>1. t \in 1..n /\ i \in 1..Len(ts[t].tags)
    BY <1>2, <1>4
  <2>2. i \in 1..Len(ss[t]) /\ ss[t][i] = <<name, ts[t].b.name, ts[t].tags[i]>>
    BY <1>5, <1>6, <2>1
  <2>3. PICK x \in 1..Len(flat) : flat[x] = ss[t][i]
    BY <1>10, <2>1, <2>2
  <2>4. QED
    BY <2>2, <2>3, Zenon
<1>13. Len(flat) # 0
  <2>1. 1 \in DOMAIN ts /\ 1 \in DOMAIN ts[1].tags
    BY <1>2, <1>3, <1>4
  <2>2. PICK x \in 1..Len(flat) : TRUE
    BY <1>12, <2>1
  <2>3. QED
    BY <1>10
<1>14. Len(flat) = Versions(ts)
  <2>1. Len(flat) = Size([k \in 1..n |-> Len(ss[k])])
    BY <1>6, <1>7, FlattenLength
  <2>2. \A k \in 1..n : Len(ss[k]) = Len(ts[k].tags)
    BY <1>5, <1>6
  <2>3. [k \in 1..n |-> Len(ss[k])] = [k \in 1..n |-> Len(ts[k].tags)]
    BY <2>2
  <2>4. Versions(ts) = Size([k \in 1..n |-> Len(ts[k].tags)])
    BY <1>2 DEF Versions
  <2>5. QED
    BY <2>1, <2>3, <2>4
<1>15. Len(flat) \in Nat
  BY <1>10
<1>16. HasVersions(name, flat, ts)
  BY <1>11, <1>12 DEF HasVersions
<1>17. KeysInOrder(name, flat, ts)
  <2> SUFFICES ASSUME NEW t \in DOMAIN ts, NEW u \in DOMAIN ts,
                      NEW i \in DOMAIN ts[t].tags, NEW j \in DOMAIN ts[u].tags,
                      t < u \/ (t = u /\ i < j),
                      NEW x \in 1..Len(flat), NEW y \in 1..Len(flat),
                      flat[x] = <<name, ts[t].b.name, ts[t].tags[i]>>,
                      flat[y] = <<name, ts[u].b.name, ts[u].tags[j]>>
               PROVE  x < y
    BY SMTT(60) DEF KeysInOrder
  <2>1. /\ t \in 1..n /\ u \in 1..n
        /\ i \in 1..Len(ts[t].tags) /\ j \in 1..Len(ts[u].tags)
    BY <1>2, <1>4
  <2>2. i \in 1..Len(ss[t]) /\ ss[t][i] = <<name, ts[t].b.name, ts[t].tags[i]>>
    BY <1>5, <1>6, <2>1
  <2>3. j \in 1..Len(ss[u]) /\ ss[u][j] = <<name, ts[u].b.name, ts[u].tags[j]>>
    BY <1>5, <1>6, <2>1
  <2>4. flat[x] = ss[t][i] /\ flat[y] = ss[u][j]
    BY <2>2, <2>3, Zenon
  <2>5. PICK end : JoinedAt(ss, n, flat, end)
    BY <1>10
  <2>6. ss \in Seq(Seq(Keys)) /\ n = Len(ss)
    BY <1>6
  <2>7. \A v, w \in 1..Len(flat) : flat[v] = flat[w] => v = w
    BY <1>10
  <2>8. KeepsOrder(ss, n, flat)
    BY ONLY n \in Nat, <2>5, <2>6, <2>7, JoinedInOrder
  <2>9. QED
    BY ONLY t < u \/ (t = u /\ i < j), x \in 1..Len(flat), y \in 1..Len(flat),
       <2>1, <2>2, <2>3, <2>4, <2>8 DEF KeepsOrder
<1>18. QED
  BY <1>10, <1>13, <1>14, <1>15, <1>16, <1>17

\* First by policy, then by browser, then by version.
MatrixInOrder(flat, ps, ts) ==
  \A p, q \in DOMAIN ps : \A t, u \in DOMAIN ts :
  \A i \in DOMAIN ts[t].tags : \A j \in DOMAIN ts[u].tags :
    p < q \/ (p = q /\ (t < u \/ (t = u /\ i < j))) =>
      \A x, y \in DOMAIN flat :
        /\ flat[x] = <<ps[p].name, ts[t].b.name, ts[t].tags[i]>>
        /\ flat[y] = <<ps[q].name, ts[u].b.name, ts[u].tags[j]>>
        => x < y

\* All rows of all policies, in order and none twice.
IsMatrix(flat, ps, ts) ==
  /\ flat \in Seq(Keys) /\ flat # <<>> /\ Len(flat) = Len(ps) * Versions(ts)
  /\ \A x, y \in DOMAIN flat : flat[x] = flat[y] => x = y
  /\ \A p \in DOMAIN ps : \A t \in DOMAIN ts : \A i \in DOMAIN ts[t].tags :
       \E x \in DOMAIN flat : flat[x] = <<ps[p].name, ts[t].b.name, ts[t].tags[i]>>
  /\ \A x \in DOMAIN flat : \E p \in DOMAIN ps : \E t \in DOMAIN ts :
       \E i \in DOMAIN ts[t].tags : flat[x] = <<ps[p].name, ts[t].b.name, ts[t].tags[i]>>
  /\ MatrixInOrder(flat, ps, ts)

\* The matrix has every policy with every version once, in order.
LEMMA MatrixFacts ==
  ASSUME NEW ps, NEW ruleset, PoliciesOk(ps, ruleset), NEW ts, TargetsOk(ts),
         NEW flat, flat = MatrixOf(ps, ts)
  PROVE  IsMatrix(flat, ps, ts)
<1> DEFINE ss == [p \in DOMAIN ps |-> KeysOf(ps[p].name, ts)]
<1>1. PICK n \in Nat : n = Len(ps) /\ DOMAIN ps = 1..n
  BY DEF PoliciesOk
<1>2. n > 0
  <2>1. ps # <<>> /\ ps \in Seq(ruleset)
    BY DEF PoliciesOk
  <2>2. QED
    BY <1>1, <2>1, EmptySeq
<1>3. \A p \in 1..n : ps[p].name \in Seq(STRING)
  BY <1>1, ElementOfSeq DEF PoliciesOk
<1>4. \A p, q \in 1..n : ps[p].name = ps[q].name => p = q
  BY <1>1 DEF PoliciesOk
<1>5. /\ ss \in Seq(Seq(Keys)) /\ Len(ss) = n
      /\ \A p \in 1..n : ss[p] = KeysOf(ps[p].name, ts)
  <2>1. \A p \in 1..n : KeysOf(ps[p].name, ts) \in Seq(Keys)
    BY <1>3, KeysFacts
  <2>2. ss \in [1..n -> Seq(Keys)]
    BY <1>1, <2>1
  <2>3. \A p \in 1..n : ss[p] = KeysOf(ps[p].name, ts)
    BY <1>1
  <2> HIDE DEF ss
  <2>4. QED
    BY <2>2, <2>3
<1>6. flat = FlattenSeq(ss)
  BY Zenon DEF MatrixOf
<1> HIDE DEF ss
<1>7. PICK m \in Nat : m = Versions(ts)
  BY <1>2, <1>3, KeysFacts
<1>8. ASSUME NEW p \in 1..n
      PROVE  /\ Len(ss[p]) = m /\ Len(ss[p]) # 0
             /\ \A x, y \in 1..Len(ss[p]) : ss[p][x] = ss[p][y] => x = y
             /\ HasVersions(ps[p].name, ss[p], ts) /\ KeysInOrder(ps[p].name, ss[p], ts)
  <2>1. PICK name \in Seq(STRING) : name = ps[p].name
    BY <1>3
  <2>2. ss[p] = KeysOf(name, ts)
    BY <1>5, <2>1
  <2>3. /\ Len(ss[p]) = Versions(ts) /\ Len(ss[p]) # 0
        /\ \A x, y \in 1..Len(ss[p]) : ss[p][x] = ss[p][y] => x = y
        /\ HasVersions(name, ss[p], ts) /\ KeysInOrder(name, ss[p], ts)
    BY <2>2, KeysFacts
  <2>4. QED
    BY <1>7, <2>1, <2>3
<1>9. \A p, q \in 1..n : \A x \in 1..Len(ss[p]) : \A y \in 1..Len(ss[q]) :
        ss[p][x] = ss[q][y] => p = q
  <2> SUFFICES ASSUME NEW p \in 1..n, NEW q \in 1..n, NEW x \in 1..Len(ss[p]),
                      NEW y \in 1..Len(ss[q]), ss[p][x] = ss[q][y]
               PROVE  p = q
    OBVIOUS
  <2>1. ss[p][x][1] = ps[p].name
    BY <1>8 DEF HasVersions
  <2>2. ss[q][y][1] = ps[q].name
    BY <1>8 DEF HasVersions
  <2>3. QED
    BY <1>4, <2>1, <2>2
<1>10. /\ flat \in Seq(Keys)
       /\ \E end : JoinedAt(ss, n, flat, end)
       /\ \A k \in 1..n : \A j \in 1..Len(ss[k]) :
            \E x \in 1..Len(flat) : flat[x] = ss[k][j]
       /\ \A x, y \in 1..Len(flat) : flat[x] = flat[y] => x = y
  <2>1. ss \in Seq(Seq(Keys)) /\ n = Len(ss)
    BY <1>5
  <2>2. /\ flat \in Seq(Keys)
        /\ \E end : JoinedAt(ss, n, flat, end)
        /\ \A k \in 1..n : \A j \in 1..Len(ss[k]) :
             \E x \in 1..Len(flat) : flat[x] = ss[k][j]
    <3>1. IsJoined(flat, Keys, ss, n)
      BY <1>6, <2>1, JoinedElements
    <3>2. QED
      BY <3>1 DEF IsJoined
  <2>3. \A k \in 1..n : \A x, y \in 1..Len(ss[k]) : ss[k][x] = ss[k][y] => x = y
    BY <1>8
  <2>4. NoneTwice(ss, n)
    BY <1>9, <2>3, Zenon DEF NoneTwice
  <2>5. \A x, y \in 1..Len(flat) : flat[x] = flat[y] => x = y
    BY <2>2, <2>4, JoinedOnce
  <2>6. QED
    BY <2>2, <2>5, Zenon
<1>11. DOMAIN flat = 1..Len(flat) /\ Len(flat) \in Nat
  BY <1>10, LenProperties
<1>12. ASSUME NEW p \in 1..n, NEW t \in DOMAIN ts, NEW i \in DOMAIN ts[t].tags
       PROVE  \E x \in DOMAIN flat : flat[x] = <<ps[p].name, ts[t].b.name, ts[t].tags[i]>>
  <2>1. PICK x \in 1..Len(ss[p]) : ss[p][x] = <<ps[p].name, ts[t].b.name, ts[t].tags[i]>>
    <3>1. HasVersions(ps[p].name, ss[p], ts)
      BY <1>8
    <3>2. QED
      BY <3>1 DEF HasVersions
  <2>2. PICK y \in 1..Len(flat) : flat[y] = ss[p][x]
    BY <1>10
  <2>3. QED
    BY <1>11, <2>1, <2>2, Zenon
<1>13. flat # <<>>
  <2>1. 1 \in 1..n /\ Len(ss[1]) \in Nat /\ Len(ss[1]) # 0
    BY <1>2, <1>7, <1>8
  <2>2. 1 \in 1..Len(ss[1])
    BY <2>1
  <2>3. PICK x \in 1..Len(flat) : TRUE
    BY <1>10, <2>1, <2>2
  <2>4. QED
    BY <1>10, EmptySeq
<1>14. Len(flat) = n * m
  <2>1. \A k \in 1..n : Len(ss[k]) = m
    BY <1>8
  <2>2. PICK end : JoinedAt(ss, n, flat, end)
    BY <1>10
  <2>3. QED
    BY <2>1, <2>2, JoinedEqually, ZenonT(60)
<1>15. ASSUME NEW x \in 1..Len(flat)
       PROVE  \E p \in DOMAIN ps : \E t \in DOMAIN ts : \E i \in DOMAIN ts[t].tags :
                flat[x] = <<ps[p].name, ts[t].b.name, ts[t].tags[i]>>
  <2>1. PICK end : JoinedAt(ss, n, flat, end)
    BY <1>10
  <2>2. PICK p \in 1..n : \E j \in 1..Len(ss[p]) : x = end[p - 1] + j
    BY <2>1 DEF JoinedAt
  <2>3. PICK y \in 1..Len(ss[p]) : x = end[p - 1] + y
    BY <2>2
  <2>4. flat[x] = ss[p][y]
    BY <2>1, <2>3, Zenon DEF JoinedAt
  <2>5. \E t \in DOMAIN ts : \E i \in DOMAIN ts[t].tags :
          ss[p][y] = <<ps[p].name, ts[t].b.name, ts[t].tags[i]>>
    <3>1. HasVersions(ps[p].name, ss[p], ts)
      BY <1>8
    <3>2. QED
      BY <3>1 DEF HasVersions
  <2>6. p \in DOMAIN ps
    BY <1>1
  <2>7. QED
    BY <2>4, <2>5, <2>6, Zenon
<1>16. ASSUME NEW p \in 1..n, NEW t \in DOMAIN ts, NEW i \in DOMAIN ts[t].tags
       PROVE  \E a \in 1..Len(ss[p]) : ss[p][a] = <<ps[p].name, ts[t].b.name, ts[t].tags[i]>>
  <2>1. HasVersions(ps[p].name, ss[p], ts)
    BY <1>8
  <2>2. QED
    BY <2>1 DEF HasVersions
<1>17. MatrixInOrder(flat, ps, ts)
  <2> SUFFICES ASSUME NEW p \in DOMAIN ps, NEW q \in DOMAIN ps,
                      NEW t \in DOMAIN ts, NEW u \in DOMAIN ts,
                      NEW i \in DOMAIN ts[t].tags, NEW j \in DOMAIN ts[u].tags,
                      p < q \/ (p = q /\ (t < u \/ (t = u /\ i < j))),
                      NEW x \in DOMAIN flat, NEW y \in DOMAIN flat,
                      flat[x] = <<ps[p].name, ts[t].b.name, ts[t].tags[i]>>,
                      flat[y] = <<ps[q].name, ts[u].b.name, ts[u].tags[j]>>
               PROVE  x < y
    BY SMTT(60) DEF MatrixInOrder
  <2>1. p \in 1..n /\ q \in 1..n /\ x \in 1..Len(flat) /\ y \in 1..Len(flat)
    BY <1>1, <1>11
  <2>2. PICK a \in 1..Len(ss[p]) : ss[p][a] = <<ps[p].name, ts[t].b.name, ts[t].tags[i]>>
    BY <1>16, <2>1
  <2>3. PICK b \in 1..Len(ss[q]) : ss[q][b] = <<ps[q].name, ts[u].b.name, ts[u].tags[j]>>
    BY <1>16, <2>1
  <2>4. p < q \/ (p = q /\ a < b)
    <3>1. CASE p < q
      BY <3>1
    <3>2. CASE p = q /\ (t < u \/ (t = u /\ i < j))
      <4>1. KeysInOrder(ps[p].name, ss[p], ts)
        BY <1>8, <2>1
      <4>2. b \in 1..Len(ss[p]) /\ ss[p][b] = <<ps[p].name, ts[u].b.name, ts[u].tags[j]>>
        BY <2>3, <3>2, Zenon
      <4>3. a < b
        BY <2>2, <3>2, <4>1, <4>2 DEF KeysInOrder
      <4>4. QED
        BY <3>2, <4>3
    <3>3. QED
      BY <3>1, <3>2
  <2>5. flat[x] = ss[p][a] /\ flat[y] = ss[q][b]
    BY <2>2, <2>3, Zenon
  <2>6. PICK end : JoinedAt(ss, n, flat, end)
    BY <1>10
  <2>7. ss \in Seq(Seq(Keys)) /\ n = Len(ss)
    BY <1>5
  <2>8. \A v, w \in 1..Len(flat) : flat[v] = flat[w] => v = w
    BY <1>10
  <2>9. KeepsOrder(ss, n, flat)
    BY ONLY n \in Nat, <2>6, <2>7, <2>8, JoinedInOrder
  <2>10. QED
    BY ONLY <2>1, <2>2, <2>3, <2>4, <2>5, <2>9 DEF KeepsOrder
<1>18. \A x, y \in DOMAIN flat : flat[x] = flat[y] => x = y
  BY <1>10, <1>11, Zenon
<1>19. \A p \in DOMAIN ps : \A t \in DOMAIN ts : \A i \in DOMAIN ts[t].tags :
         \E x \in DOMAIN flat : flat[x] = <<ps[p].name, ts[t].b.name, ts[t].tags[i]>>
  BY <1>1, <1>12, Zenon
<1>20. \A x \in DOMAIN flat : \E p \in DOMAIN ps : \E t \in DOMAIN ts :
         \E i \in DOMAIN ts[t].tags : flat[x] = <<ps[p].name, ts[t].b.name, ts[t].tags[i]>>
  <2> SUFFICES ASSUME NEW x \in DOMAIN flat
               PROVE  \E p \in DOMAIN ps : \E t \in DOMAIN ts : \E i \in DOMAIN ts[t].tags :
                        flat[x] = <<ps[p].name, ts[t].b.name, ts[t].tags[i]>>
    OBVIOUS
  <2>1. x \in 1..Len(flat)
    BY <1>11, Zenon
  <2>2. QED
    BY <1>15, <2>1, Zenon
<1>21. QED
  BY <1>1, <1>7, <1>10, <1>13, <1>14, <1>17, <1>18, <1>19, <1>20, Zenon DEF IsMatrix
-----------------------------------------------------------------------------
(* The invariant *)

\* The request that a command line stands for.
SentRequest ==
  /\ ParseMajors(inv.chrome) # Bad /\ ParseMajors(inv.firefox) # Bad
  /\ LoadPolicies(inv.dir) # {}
  /\ request = [chrome |-> ParseMajors(inv.chrome), firefox |-> ParseMajors(inv.firefox),
                policies |-> LoadPolicies(inv.dir), pr |-> Int32(inv.pr)]

\* What is swept for it.
Chosen ==
  /\ LoadPolicies(inv.dir) # {} /\ policies = Sorted(LoadPolicies(inv.dir))
  /\ IF Remote
     THEN LET chrome == ParseInts(ParseMajors(inv.chrome))
              firefox == ParseInts(ParseMajors(inv.firefox))
          IN  chrome # Bad /\ firefox # Bad /\ targets = Targets(chrome, firefox)
     ELSE /\ BrowsersFromFlags(inv.chrome, inv.firefox) # Bad
          /\ targets = BrowsersFromFlags(inv.chrome, inv.firefox)

\* Rows with an outcome for every place of a matrix, and the pictures copied for them.
SweptRows(rs, matrix) ==
  /\ rs = [i \in DOMAIN matrix |-> rs[i]]
  /\ \A i \in DOMAIN matrix : \E o \in Outcome : rs[i] = ResultOf(matrix[i], o)
Pictures(rs) ==
  [name \in {rs[i].frame : i \in DOMAIN rs} \ {NoFrame} |->
    Key(rs[Max({i \in DOMAIN rs : rs[i].frame = name})])]

RequestIsSent == Remote /\ (client = "calling" \/ worker # "idle") => SentRequest

SweepIsChosen == targets # <<>> \/ worker = "sweep" \/ rows # <<>> => Chosen

RowsAreTheMatrix ==
  rows # <<>> => SweptRows(rows, MatrixOf(policies, targets)) /\ frames = Pictures(rows)

\* Who gets where, and with what.
Stages ==
  /\ inv \in Invocations /\ client \in {"flags", "calling", "exited"} /\ exit \in {0, 1}
  /\ worker \in {"idle", "ack", "targets", "sweep", "bundle", "upload", "post", "files",
                 "done", "gone"}
  /\ worker \in {"idle", "ack", "targets", "sweep"} => rows = <<>>
  /\ worker \in {"bundle", "upload", "post", "files"} => rows # <<>>
  /\ worker \in {"ack", "upload", "post"} => Async
  /\ worker = "bundle" /\ Remote => Async
  /\ worker = "targets" => Remote
  /\ worker = "files" => ~Remote
  /\ ~Remote /\ worker \in {"sweep", "bundle", "files"} => client = "calling"
  /\ client = "flags" => worker = "idle"

\* An answer is about the rows.
ReplyIsOfRows ==
  reply # {} => ~Async /\ worker = "done" /\ rows # <<>> /\ reply = {ReportToResult(rows)}

\* Which of its files chrome-sweep has written.
FilesInOrder ==
  ~Remote => /\ worker \in {"idle", "sweep", "bundle"} => out = {}
             /\ worker = "files" => out = {"report.zip"}

\* Exit code 0.
GoodExit ==
  client = "exited" /\ exit = 0 =>
    IF Async THEN worker # "idle"
    ELSE /\ worker = "done" /\ rows # <<>> /\ AllPassed(rows)
         /\ ~Remote => out = {"report.zip", "report.md"}

\* Room for the header, the link and the note.
Room == Async /\ HeadSize + inv.sha + LinkSize + NoteSize <= MaxComment

\* The comments of a submit, by how far it is.
Acknowledged(c) == c.kind = "ack" /\ c.pr = Int32(inv.pr)
Closed(c) == c.kind = (IF rows # <<>> THEN "result" ELSE "error") /\ c.pr = Int32(inv.pr)
ThreadFollows ==
  Room =>
    /\ client = "flags" \/ (client = "calling" /\ worker = "idle") \/ worker = "ack"
         => comments = <<>>
    /\ worker \in {"targets", "sweep", "bundle", "upload", "post"}
         => \E c : comments = <<c>> /\ Acknowledged(c)
    /\ worker = "done" => \E c, d : comments = <<c, d>> /\ Acknowledged(c) /\ Closed(d)

\* Nothing is linked that is not there.
Linked ==
  /\ url => bucket # {}
  /\ \E S : comments \in Seq(S)
  /\ \A i \in DOMAIN comments : comments[i].link => bucket # {}

\* Where the bundle is.
BundleFollows ==
  /\ worker \in {"upload", "files"} => zip = WriteBundle(rows, frames)
  /\ bucket # {} => rows # <<>> /\ bucket = {WriteBundle(rows, frames)}
  /\ client = "exited" /\ exit = 0 /\ ~Remote => zip = WriteBundle(rows, frames)

IInv == /\ RequestIsSent /\ SweepIsChosen /\ RowsAreTheMatrix /\ Stages
        /\ ReplyIsOfRows /\ FilesInOrder /\ GoodExit

\* What is swept are targets and policies.
LEMMA ChosenFacts ==
  ASSUME inv \in Invocations, Chosen
  PROVE  /\ TargetsOk(targets) /\ PoliciesOk(policies, Yaml(inv.dir))
         /\ MatrixOf(policies, targets) \in Seq(Keys) /\ MatrixOf(policies, targets) # <<>>
<1>1. PoliciesOk(policies, Yaml(inv.dir))
  BY ReadPolicies DEF Chosen
<1>2. inv.chrome \in Seq(Field) /\ inv.firefox \in Seq(Field)
  BY InvocationsAssumption
<1>3. CASE Remote
  <2>1. ParseMajors(inv.chrome) \in Seq(Int) /\ ParseMajors(inv.firefox) \in Seq(Int)
    BY <1>2, MajorsFacts
  <2>2. /\ ParseInts(ParseMajors(inv.chrome)) # Bad /\ ParseInts(ParseMajors(inv.firefox)) # Bad
        /\ targets = Targets(ParseInts(ParseMajors(inv.chrome)),
                             ParseInts(ParseMajors(inv.firefox)))
    BY <1>3 DEF Chosen
  <2>3. TargetsOk(targets)
    BY <2>1, <2>2, RequestedTargets
  <2>4. QED
    BY <1>1, <2>3, MatrixFacts DEF IsMatrix
<1>4. CASE ~Remote
  <2>1. TargetsOk(targets)
    BY <1>2, <1>4, TypedTargets DEF Chosen
  <2>2. QED
    BY <1>1, <2>1, MatrixFacts DEF IsMatrix
<1>5. QED
  BY <1>3, <1>4

\* Run returns a row for every version and policy.
LEMMA RunReturnsFacts ==
  ASSUME inv \in Invocations, Chosen, RunReturns
  PROVE  /\ rows' # <<>> /\ SweptRows(rows', MatrixOf(policies, targets))
         /\ frames' = Pictures(rows')
<1> DEFINE m == MatrixOf(policies, targets)
<1>1. m \in Seq(Keys) /\ m # <<>>
  BY ChosenFacts
<1>2. Matrix = m
  BY DEF Matrix, MatrixOf, KeysOf
<1>3. frames' = Pictures(rows')
  BY DEF RunReturns, Pictures
<1>4. \E odd \in SUBSET DOMAIN Matrix : \E o \in [odd -> Outcome \ {PlainPass}] :
        rows' = [i \in DOMAIN Matrix |->
                  ResultOf(Matrix[i], IF i \in odd THEN o[i] ELSE PlainPass)]
  BY DEF RunReturns
<1> HIDE DEF m
<1>5. PICK odd \in SUBSET DOMAIN m : \E o \in [odd -> Outcome \ {PlainPass}] :
        rows' = [i \in DOMAIN m |-> ResultOf(m[i], IF i \in odd THEN o[i] ELSE PlainPass)]
  BY <1>2, <1>4
<1>6. PICK o \in [odd -> Outcome \ {PlainPass}] :
        rows' = [i \in DOMAIN m |-> ResultOf(m[i], IF i \in odd THEN o[i] ELSE PlainPass)]
  BY <1>5
<1>7. rows' = [i \in DOMAIN m |-> rows'[i]]
  BY <1>6
<1>8. ASSUME NEW i \in DOMAIN m PROVE \E a \in Outcome : rows'[i] = ResultOf(m[i], a)
  <2>1. PlainPass \in Outcome
    BY DEF Outcome
  <2>2. (IF i \in odd THEN o[i] ELSE PlainPass) \in Outcome
    BY <2>1
  <2>3. rows'[i] = ResultOf(m[i], IF i \in odd THEN o[i] ELSE PlainPass)
    BY <1>6
  <2>4. QED
    BY <2>2, <2>3
<1>9. rows' # <<>>
  <2>1. DOMAIN m # {} /\ DOMAIN rows' = DOMAIN m
    <3>1. Len(m) \in Nat \ {0} /\ DOMAIN m = 1..Len(m)
      BY <1>1, EmptySeq, LenProperties
    <3>2. DOMAIN rows' = DOMAIN m
      BY <1>7
    <3>3. QED
      BY <3>1, <3>2
  <2>2. DOMAIN <<>> = {}
    OBVIOUS
  <2>3. QED
    BY <2>1, <2>2
<1>10. SweptRows(rows', m)
  BY <1>7, <1>8 DEF SweptRows
<1>11. QED
  BY <1>3, <1>9, <1>10 DEF m

\* A request stays as it was sent.
LEMMA SentStep ==
  ASSUME IInv, [Next]_vars
  PROVE  RequestIsSent'
<1> USE DEF IInv, RequestIsSent, SentRequest, Remote, procVars, toolVars, sweepVars,
      resultVars
<1>1. CASE BadCommandLine
  BY <1>1 DEF BadCommandLine, Exit
<1>2. CASE Send
  BY <1>2 DEF Send
<1>3. CASE CallFails
  BY <1>3 DEF CallFails, Exit, Waiting
<1>4. CASE Accepted
  BY <1>4 DEF Accepted, Exit, Waiting
<1>5. CASE Answered
  BY <1>5 DEF Answered, Exit, Waiting
<1>6. CASE Refused
  BY <1>6 DEF Refused, Exit, Arrives, Waiting
<1>7. CASE Busy
  BY <1>7 DEF Busy, Exit, Arrives, Waiting, Post
<1>8. CASE Admitted
  BY <1>8 DEF Admitted, Arrives, Waiting
<1>9. CASE PostAck
  BY <1>9 DEF PostAck, Post
<1>10. CASE BrowsersFor
  BY <1>10 DEF BrowsersFor, SweepFails, Post
<1>11. CASE Sweep
  BY <1>11 DEF Sweep, SweepFails, Post
<1>12. CASE Bundle
  BY <1>12 DEF Bundle
<1>13. CASE Upload
  BY <1>13 DEF Upload
<1>14. CASE BadSweepFlags
  BY <1>14 DEF BadSweepFlags, Exit
<1>15. CASE SweepStarts
  BY <1>15 DEF SweepStarts
<1>16. CASE LocalSweep
  BY <1>16 DEF LocalSweep
<1>17. CASE LocalBundle
  BY <1>17 DEF LocalBundle
<1>18. CASE LocalReport
  BY <1>18 DEF LocalReport, Exit
<1>19. CASE LocalFails
  BY <1>19 DEF LocalFails, Exit
<1>20. CASE PostResult
  BY <1>20 DEF PostResult, Post
<1>21. CASE ProcMoves
  BY <1>21 DEF ProcMoves, Exit, Waiting
<1>22. CASE UNCHANGED vars
  BY <1>22 DEF vars
<1>23. QED
  BY <1>1, <1>2, <1>3, <1>4, <1>5, <1>6, <1>7, <1>8, <1>9, <1>10, <1>11, <1>12, <1>13, <1>14,
    <1>15, <1>16, <1>17, <1>18, <1>19, <1>20, <1>21, <1>22 DEF Next, RequestStep

\* What is swept is chosen once, from the request or the command line.
LEMMA ChosenStep ==
  ASSUME IInv, [Next]_vars
  PROVE  SweepIsChosen'
<1> USE DEF IInv, RequestIsSent, SentRequest, SweepIsChosen, Stages, Chosen, Remote,
      procVars, toolVars, sweepVars, resultVars
<1>1. CASE BadCommandLine
  BY <1>1 DEF BadCommandLine, Exit
<1>2. CASE Send
  BY <1>2 DEF Send
<1>3. CASE CallFails
  BY <1>3 DEF CallFails, Exit, Waiting
<1>4. CASE Accepted
  BY <1>4 DEF Accepted, Exit, Waiting
<1>5. CASE Answered
  BY <1>5 DEF Answered, Exit, Waiting
<1>6. CASE Refused
  BY <1>6 DEF Refused, Exit, Arrives, Waiting
<1>7. CASE Busy
  BY <1>7 DEF Busy, Exit, Arrives, Waiting, Post
<1>8. CASE Admitted
  BY <1>8 DEF Admitted, Arrives, Waiting
<1>9. CASE PostAck
  BY <1>9 DEF PostAck, Post
<1>10. CASE BrowsersFor
  BY <1>10 DEF BrowsersFor, SweepFails, Post
<1>11. CASE Sweep
  <2>1. Chosen /\ inv \in Invocations
    BY <1>11 DEF Sweep
  <2>2. RunReturns => /\ rows' # <<>> /\ SweptRows(rows', MatrixOf(policies, targets))
                      /\ frames' = Pictures(rows')
    BY <2>1, RunReturnsFacts
  <2>3. QED
    BY <1>11, <2>1, <2>2 DEF Sweep, SweepFails, Post
<1>12. CASE Bundle
  BY <1>12 DEF Bundle
<1>13. CASE Upload
  BY <1>13 DEF Upload
<1>14. CASE BadSweepFlags
  BY <1>14 DEF BadSweepFlags, Exit
<1>15. CASE SweepStarts
  BY <1>15 DEF SweepStarts
<1>16. CASE LocalSweep
  <2>1. Chosen /\ inv \in Invocations
    BY <1>16 DEF LocalSweep
  <2>2. RunReturns => /\ rows' # <<>> /\ SweptRows(rows', MatrixOf(policies, targets))
                      /\ frames' = Pictures(rows')
    BY <2>1, RunReturnsFacts
  <2>3. QED
    BY <1>16, <2>1, <2>2 DEF LocalSweep
<1>17. CASE LocalBundle
  BY <1>17 DEF LocalBundle
<1>18. CASE LocalReport
  BY <1>18 DEF LocalReport, Exit
<1>19. CASE LocalFails
  BY <1>19 DEF LocalFails, Exit
<1>20. CASE PostResult
  BY <1>20 DEF PostResult, Post
<1>21. CASE ProcMoves
  BY <1>21 DEF ProcMoves, Exit, Waiting
<1>22. CASE UNCHANGED vars
  BY <1>22 DEF vars
<1>23. QED
  BY <1>1, <1>2, <1>3, <1>4, <1>5, <1>6, <1>7, <1>8, <1>9, <1>10, <1>11, <1>12, <1>13, <1>14,
    <1>15, <1>16, <1>17, <1>18, <1>19, <1>20, <1>21, <1>22 DEF Next, RequestStep

\* Run returns a row for every place of the matrix, which then stays.
LEMMA RowsStep ==
  ASSUME IInv, [Next]_vars
  PROVE  RowsAreTheMatrix'
<1> USE DEF IInv, SweepIsChosen, RowsAreTheMatrix, Stages, Remote, procVars, toolVars,
      sweepVars, resultVars
<1>1. CASE BadCommandLine
  BY <1>1 DEF BadCommandLine, Exit
<1>2. CASE Send
  BY <1>2 DEF Send
<1>3. CASE CallFails
  BY <1>3 DEF CallFails, Exit, Waiting
<1>4. CASE Accepted
  BY <1>4 DEF Accepted, Exit, Waiting
<1>5. CASE Answered
  BY <1>5 DEF Answered, Exit, Waiting
<1>6. CASE Refused
  BY <1>6 DEF Refused, Exit, Arrives, Waiting
<1>7. CASE Busy
  BY <1>7 DEF Busy, Exit, Arrives, Waiting, Post
<1>8. CASE Admitted
  BY <1>8 DEF Admitted, Arrives, Waiting
<1>9. CASE PostAck
  BY <1>9 DEF PostAck, Post
<1>10. CASE BrowsersFor
  BY <1>10 DEF BrowsersFor, SweepFails, Post
<1>11. CASE Sweep
  <2>1. Chosen /\ inv \in Invocations
    BY <1>11 DEF Sweep
  <2>2. RunReturns => /\ rows' # <<>> /\ SweptRows(rows', MatrixOf(policies, targets))
                      /\ frames' = Pictures(rows')
    BY <2>1, RunReturnsFacts
  <2>3. QED
    BY <1>11, <2>1, <2>2 DEF Sweep, SweepFails, Post
<1>12. CASE Bundle
  BY <1>12 DEF Bundle
<1>13. CASE Upload
  BY <1>13 DEF Upload
<1>14. CASE BadSweepFlags
  BY <1>14 DEF BadSweepFlags, Exit
<1>15. CASE SweepStarts
  BY <1>15 DEF SweepStarts
<1>16. CASE LocalSweep
  <2>1. Chosen /\ inv \in Invocations
    BY <1>16 DEF LocalSweep
  <2>2. RunReturns => /\ rows' # <<>> /\ SweptRows(rows', MatrixOf(policies, targets))
                      /\ frames' = Pictures(rows')
    BY <2>1, RunReturnsFacts
  <2>3. QED
    BY <1>16, <2>1, <2>2 DEF LocalSweep
<1>17. CASE LocalBundle
  BY <1>17 DEF LocalBundle
<1>18. CASE LocalReport
  BY <1>18 DEF LocalReport, Exit
<1>19. CASE LocalFails
  BY <1>19 DEF LocalFails, Exit
<1>20. CASE PostResult
  BY <1>20 DEF PostResult, Post
<1>21. CASE ProcMoves
  BY <1>21 DEF ProcMoves, Exit, Waiting
<1>22. CASE UNCHANGED vars
  BY <1>22 DEF vars
<1>23. QED
  BY <1>1, <1>2, <1>3, <1>4, <1>5, <1>6, <1>7, <1>8, <1>9, <1>10, <1>11, <1>12, <1>13, <1>14,
    <1>15, <1>16, <1>17, <1>18, <1>19, <1>20, <1>21, <1>22 DEF Next, RequestStep

\* The stages follow each other.
LEMMA StagesStep ==
  ASSUME IInv, [Next]_vars
  PROVE  Stages'
<1> USE DEF IInv, SweepIsChosen, Stages, Remote, Async, procVars, toolVars, sweepVars,
      resultVars
<1>1. CASE BadCommandLine
  BY <1>1 DEF BadCommandLine, Exit
<1>2. CASE Send
  BY <1>2 DEF Send
<1>3. CASE CallFails
  BY <1>3 DEF CallFails, Exit, Waiting
<1>4. CASE Accepted
  BY <1>4 DEF Accepted, Exit, Waiting
<1>5. CASE Answered
  BY <1>5 DEF Answered, Exit, Waiting, Verdict
<1>6. CASE Refused
  BY <1>6 DEF Refused, Exit, Arrives, Waiting
<1>7. CASE Busy
  BY <1>7 DEF Busy, Exit, Arrives, Waiting, Post
<1>8. CASE Admitted
  BY <1>8 DEF Admitted, Arrives, Waiting
<1>9. CASE PostAck
  BY <1>9 DEF PostAck, Post
<1>10. CASE BrowsersFor
  BY <1>10 DEF BrowsersFor, SweepFails, Post
<1>11. CASE Sweep
  <2>1. Chosen /\ inv \in Invocations
    BY <1>11 DEF Sweep
  <2>2. RunReturns => /\ rows' # <<>> /\ SweptRows(rows', MatrixOf(policies, targets))
                      /\ frames' = Pictures(rows')
    BY <2>1, RunReturnsFacts
  <2>3. QED
    BY <1>11, <2>1, <2>2 DEF Sweep, SweepFails, Post
<1>12. CASE Bundle
  BY <1>12 DEF Bundle
<1>13. CASE Upload
  BY <1>13 DEF Upload
<1>14. CASE BadSweepFlags
  BY <1>14 DEF BadSweepFlags, Exit
<1>15. CASE SweepStarts
  BY <1>15 DEF SweepStarts
<1>16. CASE LocalSweep
  <2>1. Chosen /\ inv \in Invocations
    BY <1>16 DEF LocalSweep
  <2>2. RunReturns => /\ rows' # <<>> /\ SweptRows(rows', MatrixOf(policies, targets))
                      /\ frames' = Pictures(rows')
    BY <2>1, RunReturnsFacts
  <2>3. QED
    BY <1>16, <2>1, <2>2 DEF LocalSweep
<1>17. CASE LocalBundle
  BY <1>17 DEF LocalBundle
<1>18. CASE LocalReport
  BY <1>18 DEF LocalReport, Exit
<1>19. CASE LocalFails
  BY <1>19 DEF LocalFails, Exit
<1>20. CASE PostResult
  BY <1>20 DEF PostResult, Post
<1>21. CASE ProcMoves
  BY <1>21 DEF ProcMoves, Exit, Waiting
<1>22. CASE UNCHANGED vars
  BY <1>22 DEF vars
<1>23. QED
  BY <1>1, <1>2, <1>3, <1>4, <1>5, <1>6, <1>7, <1>8, <1>9, <1>10, <1>11, <1>12, <1>13, <1>14,
    <1>15, <1>16, <1>17, <1>18, <1>19, <1>20, <1>21, <1>22 DEF Next, RequestStep

\* An answer is given once, about the rows.
LEMMA ReplyStep ==
  ASSUME IInv, [Next]_vars
  PROVE  ReplyIsOfRows'
<1> USE DEF IInv, SweepIsChosen, ReplyIsOfRows, Stages, Remote, Async, procVars, toolVars,
      sweepVars, resultVars
<1>1. CASE BadCommandLine
  BY <1>1 DEF BadCommandLine, Exit
<1>2. CASE Send
  BY <1>2 DEF Send
<1>3. CASE CallFails
  BY <1>3 DEF CallFails, Exit, Waiting
<1>4. CASE Accepted
  BY <1>4 DEF Accepted, Exit, Waiting
<1>5. CASE Answered
  BY <1>5 DEF Answered, Exit, Waiting
<1>6. CASE Refused
  BY <1>6 DEF Refused, Exit, Arrives, Waiting
<1>7. CASE Busy
  BY <1>7 DEF Busy, Exit, Arrives, Waiting, Post
<1>8. CASE Admitted
  BY <1>8 DEF Admitted, Arrives, Waiting
<1>9. CASE PostAck
  BY <1>9 DEF PostAck, Post
<1>10. CASE BrowsersFor
  BY <1>10 DEF BrowsersFor, SweepFails, Post
<1>11. CASE Sweep
  <2>1. Chosen /\ inv \in Invocations
    BY <1>11 DEF Sweep
  <2>2. RunReturns => /\ rows' # <<>> /\ SweptRows(rows', MatrixOf(policies, targets))
                      /\ frames' = Pictures(rows')
    BY <2>1, RunReturnsFacts
  <2>3. QED
    BY <1>11, <2>1, <2>2 DEF Sweep, SweepFails, Post
<1>12. CASE Bundle
  BY <1>12 DEF Bundle
<1>13. CASE Upload
  BY <1>13 DEF Upload
<1>14. CASE BadSweepFlags
  BY <1>14 DEF BadSweepFlags, Exit
<1>15. CASE SweepStarts
  BY <1>15 DEF SweepStarts
<1>16. CASE LocalSweep
  <2>1. Chosen /\ inv \in Invocations
    BY <1>16 DEF LocalSweep
  <2>2. RunReturns => /\ rows' # <<>> /\ SweptRows(rows', MatrixOf(policies, targets))
                      /\ frames' = Pictures(rows')
    BY <2>1, RunReturnsFacts
  <2>3. QED
    BY <1>16, <2>1, <2>2 DEF LocalSweep
<1>17. CASE LocalBundle
  BY <1>17 DEF LocalBundle
<1>18. CASE LocalReport
  BY <1>18 DEF LocalReport, Exit
<1>19. CASE LocalFails
  BY <1>19 DEF LocalFails, Exit
<1>20. CASE PostResult
  BY <1>20 DEF PostResult, Post
<1>21. CASE ProcMoves
  BY <1>21 DEF ProcMoves, Exit, Waiting
<1>22. CASE UNCHANGED vars
  BY <1>22 DEF vars
<1>23. QED
  BY <1>1, <1>2, <1>3, <1>4, <1>5, <1>6, <1>7, <1>8, <1>9, <1>10, <1>11, <1>12, <1>13, <1>14,
    <1>15, <1>16, <1>17, <1>18, <1>19, <1>20, <1>21, <1>22 DEF Next, RequestStep

\* The bundle is written before the report.
LEMMA FilesStep ==
  ASSUME IInv, [Next]_vars
  PROVE  FilesInOrder'
<1> USE DEF IInv, FilesInOrder, Stages, Remote, procVars, toolVars, sweepVars, resultVars
<1>1. CASE BadCommandLine
  BY <1>1 DEF BadCommandLine, Exit
<1>2. CASE Send
  BY <1>2 DEF Send
<1>3. CASE CallFails
  BY <1>3 DEF CallFails, Exit, Waiting
<1>4. CASE Accepted
  BY <1>4 DEF Accepted, Exit, Waiting
<1>5. CASE Answered
  BY <1>5 DEF Answered, Exit, Waiting
<1>6. CASE Refused
  BY <1>6 DEF Refused, Exit, Arrives, Waiting
<1>7. CASE Busy
  BY <1>7 DEF Busy, Exit, Arrives, Waiting, Post
<1>8. CASE Admitted
  BY <1>8 DEF Admitted, Arrives, Waiting
<1>9. CASE PostAck
  BY <1>9 DEF PostAck, Post
<1>10. CASE BrowsersFor
  BY <1>10 DEF BrowsersFor, SweepFails, Post
<1>11. CASE Sweep
  BY <1>11 DEF Sweep, SweepFails, Post
<1>12. CASE Bundle
  BY <1>12 DEF Bundle
<1>13. CASE Upload
  BY <1>13 DEF Upload
<1>14. CASE BadSweepFlags
  BY <1>14 DEF BadSweepFlags, Exit
<1>15. CASE SweepStarts
  BY <1>15 DEF SweepStarts
<1>16. CASE LocalSweep
  BY <1>16 DEF LocalSweep
<1>17. CASE LocalBundle
  BY <1>17 DEF LocalBundle
<1>18. CASE LocalReport
  BY <1>18 DEF LocalReport, Exit
<1>19. CASE LocalFails
  BY <1>19 DEF LocalFails, Exit
<1>20. CASE PostResult
  BY <1>20 DEF PostResult, Post
<1>21. CASE ProcMoves
  BY <1>21 DEF ProcMoves, Exit, Waiting
<1>22. CASE UNCHANGED vars
  BY <1>22 DEF vars
<1>23. QED
  BY <1>1, <1>2, <1>3, <1>4, <1>5, <1>6, <1>7, <1>8, <1>9, <1>10, <1>11, <1>12, <1>13, <1>14,
    <1>15, <1>16, <1>17, <1>18, <1>19, <1>20, <1>21, <1>22 DEF Next, RequestStep

\* Exit code 0 is for a good end only, and then it stays true.
LEMMA GoodExitStep ==
  ASSUME IInv, [Next]_vars
  PROVE  GoodExit'
<1> USE DEF IInv, GoodExit, FilesInOrder, ReplyIsOfRows, Stages, Remote, Async, AllPassed,
      procVars, toolVars, sweepVars, resultVars
<1>1. CASE BadCommandLine
  BY <1>1 DEF BadCommandLine, Exit
<1>2. CASE Send
  BY <1>2 DEF Send
<1>3. CASE CallFails
  BY <1>3 DEF CallFails, Exit, Waiting
<1>4. CASE Accepted
  BY <1>4 DEF Accepted, Exit, Waiting
<1>5. CASE Answered
  <2>1. PICK r \in reply : Exit(Verdict(r))
    BY <1>5 DEF Answered
  <2>2. r = ReportToResult(rows) /\ ~Async /\ worker = "done" /\ rows # <<>>
    BY <2>1
  <2>3. r.success = AllPassed(rows)
    BY <2>2 DEF ReportToResult
  <2>4. exit' = 0 => AllPassed(rows)
    BY <2>1, <2>3 DEF Exit, Verdict
  <2>5. QED
    BY <1>5, <2>2, <2>4 DEF Answered, Waiting
<1>6. CASE Refused
  BY <1>6 DEF Refused, Exit, Arrives, Waiting
<1>7. CASE Busy
  BY <1>7 DEF Busy, Exit, Arrives, Waiting, Post
<1>8. CASE Admitted
  BY <1>8 DEF Admitted, Arrives, Waiting
<1>9. CASE PostAck
  BY <1>9 DEF PostAck, Post
<1>10. CASE BrowsersFor
  BY <1>10 DEF BrowsersFor, SweepFails, Post
<1>11. CASE Sweep
  BY <1>11 DEF Sweep, SweepFails, Post
<1>12. CASE Bundle
  BY <1>12 DEF Bundle
<1>13. CASE Upload
  BY <1>13 DEF Upload
<1>14. CASE BadSweepFlags
  BY <1>14 DEF BadSweepFlags, Exit
<1>15. CASE SweepStarts
  BY <1>15 DEF SweepStarts
<1>16. CASE LocalSweep
  BY <1>16 DEF LocalSweep
<1>17. CASE LocalBundle
  BY <1>17 DEF LocalBundle
<1>18. CASE LocalReport
  BY <1>18 DEF LocalReport, Exit
<1>19. CASE LocalFails
  BY <1>19 DEF LocalFails, Exit
<1>20. CASE PostResult
  BY <1>20 DEF PostResult, Post
<1>21. CASE ProcMoves
  BY <1>21 DEF ProcMoves, Exit, Waiting
<1>22. CASE UNCHANGED vars
  BY <1>22 DEF vars
<1>23. QED
  BY <1>1, <1>2, <1>3, <1>4, <1>5, <1>6, <1>7, <1>8, <1>9, <1>10, <1>11, <1>12, <1>13, <1>14,
    <1>15, <1>16, <1>17, <1>18, <1>19, <1>20, <1>21, <1>22 DEF Next, RequestStep

\* The invariant is one.
THEOREM InvariantHolds == Spec => []IInv
<1>1. Init => IInv
  BY DEF Init, IInv, RequestIsSent, SweepIsChosen, RowsAreTheMatrix, Stages, ReplyIsOfRows,
         FilesInOrder, GoodExit
<1>2. IInv /\ [Next]_vars => IInv'
  BY SentStep, ChosenStep, RowsStep, StagesStep, ReplyStep, FilesStep, GoodExitStep
     DEF IInv
<1>3. QED
  BY <1>1, <1>2, PTL DEF Spec

\* Exit code 0 means: accepted, for a submit; otherwise a complete sweep in which
\* every row passed, with report and bundle written. Every other way out of a tool
\* has another code: an answer is one of the rows, only chrome-sweep's last step
\* leaves with 0, and by then both files are there.
THEOREM ExitCodeTells == Spec => []ExitTellsTheOutcome
<1>1. IInv => ExitTellsTheOutcome
  BY DEF IInv, GoodExit, ExitTellsTheOutcome
<1>2. QED
  BY <1>1, InvariantHolds, PTL

-----------------------------------------------------------------------------
(* Stacks *)

\* Names with a part more.
LEMMA LongerNames ==
  ASSUME NEW a, NEW b, NEW c
  PROVE  Append(<<a>>, b) = <<a, b>> /\ Append(<<a, b>>, c) = <<a, b, c>> /\ <<a>> # <<b, c>>
<1>1. <<a>> # <<b, c>>
  <2>1. Len(<<a>>) = 1 /\ Len(<<b, c>>) = 2
    OBVIOUS
  <2>2. 1 # 2
    OBVIOUS
  <2>3. QED
    BY <2>1, <2>2
<1> DEFINE S == {a, b, c}
<1>2. /\ <<a>> \in Seq(S) /\ Len(<<a>>) = 1 /\ <<a>>[1] = a
      /\ <<a, b>> \in Seq(S) /\ Len(<<a, b>>) = 2 /\ <<a, b>>[1] = a /\ <<a, b>>[2] = b
      /\ <<a, b, c>> \in Seq(S) /\ Len(<<a, b, c>>) = 3
      /\ <<a, b, c>>[1] = a /\ <<a, b, c>>[2] = b /\ <<a, b, c>>[3] = c
      /\ b \in S /\ c \in S
  OBVIOUS
<1> HIDE DEF S
<1>3. Append(<<a>>, b) = <<a, b>>
  <2>1. PICK s \in Seq(S) : s = <<a>>
    BY <1>2
  <2>2. PICK t \in Seq(S) : t = <<a, b>>
    BY <1>2
  <2>3. PICK u : u = Append(s, b)
    OBVIOUS
  <2>4. u \in Seq(S) /\ Len(u) = 2 /\ u[1] = a /\ u[2] = b
    BY <1>2, <2>1, <2>3, AppendProperties
  <2>5. u = t
    BY <1>2, <2>2, <2>4, SeqEqual
  <2>6. QED
    BY <2>1, <2>2, <2>3, <2>5, Zenon
<1>4. Append(<<a, b>>, c) = <<a, b, c>>
  <2>1. PICK s \in Seq(S) : s = <<a, b>>
    BY <1>2
  <2>2. PICK t \in Seq(S) : t = <<a, b, c>>
    BY <1>2
  <2>3. PICK u : u = Append(s, c)
    OBVIOUS
  <2>4. u \in Seq(S) /\ Len(u) = 3 /\ u[1] = a /\ u[2] = b /\ u[3] = c
    BY <1>2, <2>1, <2>3, AppendProperties
  <2>5. u = t
    BY <1>2, <2>2, <2>4, SeqEqual
  <2>6. QED
    BY <2>1, <2>2, <2>3, <2>5, Zenon
<1>5. QED
  BY <1>1, <1>3, <1>4

\* What a stack is made of.
LEMMA StackOf ==
  ASSUME NEW b \in Browsers, NEW tag, NEW name, name = <<b.name, tag>>
  PROVE  /\ Stack(b, tag).deployment.name = name
         /\ Stack(b, tag).deployment.selector = [app |-> name]
         /\ Stack(b, tag).deployment.template = [app |-> name]
         /\ Stack(b, tag).service.name = name
         /\ Stack(b, tag).service.selector = [app |-> name]
         /\ Stack(b, tag).netpol.podSelector = [app |-> name]
         /\ Stack(b, tag).job.name = <<b.name, "smoke", tag>>
         /\ Stack(b, tag).job.hosts = <<name, <<"localhost">>>>
<1>1. /\ b.deployment = <<b.name>> /\ b.job = <<b.name, "smoke">>
      /\ b.name \in {"chrome", "firefox"}
  BY DEF Browsers, ChromeBrowser, FirefoxBrowser, Preset
<1>2. Append(b.deployment, tag) = name /\ Append(b.job, tag) = <<b.name, "smoke", tag>>
  <2>1. /\ Append(<<b.name>>, tag) = <<b.name, tag>>
        /\ Append(<<b.name, "smoke">>, tag) = <<b.name, "smoke", tag>>
    BY LongerNames
  <2>2. QED
    BY <1>1, <2>1, Zenon
<1>3. BaseJob(b).hosts = <<b.deployment, <<"localhost">>>>
  BY <1>1 DEF BaseJob
<1>4. b.deployment # <<"localhost">>
  BY <1>1
<1>5. Stack(b, tag).job.hosts = <<name, <<"localhost">>>>
  <2>1. Stack(b, tag).job.hosts =
          [i \in DOMAIN BaseJob(b).hosts |->
            IF BaseJob(b).hosts[i] = b.deployment THEN name ELSE BaseJob(b).hosts[i]]
    BY <1>2 DEF Stack, RetargetJob, BaseJob, VersionedName
  <2> DEFINE hosts == <<b.deployment, <<"localhost">>>>
  <2>2. Stack(b, tag).job.hosts =
          [i \in DOMAIN hosts |-> IF hosts[i] = b.deployment THEN name ELSE hosts[i]]
    BY <1>3, <2>1, Zenon
  <2>3. [i \in DOMAIN hosts |-> IF hosts[i] = b.deployment THEN name ELSE hosts[i]]
          = <<name, <<"localhost">>>>
    BY <1>4
  <2>4. QED
    BY <2>2, <2>3, Zenon
<1>6. QED
  BY <1>2, <1>5 DEF Stack, VersionedName, RetargetDeployment, RetargetService,
     RetargetNetworkPolicy, RetargetJob, BaseDeployment, BaseService, BaseNetworkPolicy, BaseJob

\* A selector with one label.
LEMMA SelectsByApp ==
  ASSUME NEW n, NEW m
  PROVE  Selects([app |-> n], [app |-> m]) <=> n = m
BY DEF Selects

\* Versions swept at the same time do not meet in the cluster, whatever they are:
\* selectors and names of a stack go by browser and version, those of the browser
\* deployed for good by the browser alone.
THEOREM VersionsAreApart == Spec => []StacksAreApart
<1>1. ASSUME IInv PROVE StacksAreApart
  <2> DEFINE Stacks == UNION {{Stack(targets[t].b, targets[t].tags[i]) :
                                 i \in DOMAIN targets[t].tags} : t \in DOMAIN targets}
             Base == {BaseDeployment(ChromeBrowser), BaseDeployment(FirefoxBrowser)}
  <2>1. ASSUME NEW s \in Stacks
        PROVE  \E b \in Browsers : \E tag : s = Stack(b, tag)
    <3>1. PICK t \in DOMAIN targets : \E i \in DOMAIN targets[t].tags :
            s = Stack(targets[t].b, targets[t].tags[i])
      OBVIOUS
    <3>2. targets # <<>>
      BY <3>1
    <3>3. TargetsOk(targets)
      BY <1>1, <3>2, ChosenFacts DEF IInv, SweepIsChosen, Stages
    <3>4. targets \in Seq(Target)
      BY <3>3 DEF TargetsOk
    <3>5. targets[t] \in Target
      BY <3>1, <3>4, LenProperties, ElementOfSeq
    <3>6. targets[t].b \in Browsers
      BY <3>5 DEF Target
    <3>7. QED
      BY <3>1, <3>6
  <2> HIDE DEF Stacks
  <2>2. ASSUME NEW s \in Stacks
        PROVE  LET selectors == {s.deployment.selector, s.service.selector,
                                 s.netpol.podSelector} IN
               /\ \A sel \in selectors :
                    /\ Selects(sel, s.deployment.template)
                    /\ \A d \in Base \cup {o.deployment : o \in Stacks \ {s}} :
                         ~Selects(sel, d.template)
               /\ ToSet(s.job.hosts) = {s.service.name, <<"localhost">>}
               /\ \A o \in Stacks \ {s} :
                    o.job.name # s.job.name /\ o.deployment.name # s.deployment.name
    <3>1. PICK b \in Browsers : \E tag : s = Stack(b, tag)
      BY <2>1
    <3>2. PICK tag : s = Stack(b, tag)
      BY <3>1
    <3> DEFINE name == <<b.name, tag>>
    <3>3. /\ s.deployment.name = name /\ s.service.name = name
          /\ s.deployment.selector = [app |-> name] /\ s.service.selector = [app |-> name]
          /\ s.netpol.podSelector = [app |-> name] /\ s.deployment.template = [app |-> name]
          /\ s.job.name = <<b.name, "smoke", tag>> /\ s.job.hosts = <<name, <<"localhost">>>>
      BY <3>2, StackOf
    <3>4. ASSUME NEW o \in Stacks \ {s}
          PROVE  \E other : /\ other # name /\ o.deployment.template = [app |-> other]
                            /\ o.deployment.name = other /\ o.job.name # s.job.name
      <4>1. PICK c \in Browsers : \E u : o = Stack(c, u)
        BY <2>1
      <4>2. PICK u : o = Stack(c, u)
        BY <4>1
      <4>3. PICK other : other = <<c.name, u>>
        OBVIOUS
      <4>4. /\ o.deployment.template = [app |-> other] /\ o.deployment.name = other
            /\ o.job.name = <<c.name, "smoke", u>>
        BY <4>2, <4>3, StackOf
      <4>5. c.name # b.name \/ u # tag
        <5>1. c.name = b.name => c = b
          BY BrowsersDiffer DEF Browsers
        <5>2. QED
          BY <3>2, <4>2, <5>1
      <4>6. QED
        BY <3>3, <4>3, <4>4, <4>5
    <3>5. \A d \in Base : \E other : other # name /\ d.template = [app |-> other]
      <4>1. \A c : BaseDeployment(c).template = [app |-> <<c.name>>]
        BY DEF BaseDeployment
      <4>2. \A c : <<c.name>> # name
        BY LongerNames
      <4>3. QED
        BY <4>1, <4>2
    <3> HIDE DEF name, Base
    <3>6. ASSUME NEW sel \in {s.deployment.selector, s.service.selector, s.netpol.podSelector}
          PROVE  /\ Selects(sel, s.deployment.template)
                 /\ \A d \in Base \cup {o.deployment : o \in Stacks \ {s}} :
                      ~Selects(sel, d.template)
      <4>1. sel = [app |-> name]
        BY <3>3
      <4>2. Selects(sel, s.deployment.template)
        BY <3>3, <4>1, SelectsByApp
      <4>3. ASSUME NEW d \in Base PROVE ~Selects(sel, d.template)
        <5>1. PICK other : other # name /\ d.template = [app |-> other]
          BY <3>5
        <5>2. QED
          BY <4>1, <5>1, SelectsByApp
      <4>4. ASSUME NEW o \in Stacks \ {s} PROVE ~Selects(sel, o.deployment.template)
        <5>1. PICK other : other # name /\ o.deployment.template = [app |-> other]
          BY <3>4
        <5>2. QED
          BY <4>1, <5>1, SelectsByApp
      <4>5. QED
        BY <4>2, <4>3, <4>4
    <3>7. ToSet(s.job.hosts) = {s.service.name, <<"localhost">>}
      <4>1. ToSet(<<name, <<"localhost">>>>) = {name, <<"localhost">>}
        BY DEF ToSet
      <4>2. QED
        BY <3>3, <4>1
    <3>8. \A o \in Stacks \ {s} :
            o.job.name # s.job.name /\ o.deployment.name # s.deployment.name
      BY <3>3, <3>4
    <3>9. QED
      BY <3>6, <3>7, <3>8
  <2>3. QED
    BY <2>2, Zenon DEF StacksAreApart, Stacks, Base
<1>2. QED
  BY <1>1, InvariantHolds, PTL
-----------------------------------------------------------------------------
(* The size of a comment *)

\* Some numbers up to a bound have a greatest one.
LEMMA MaxFacts ==
  ASSUME NEW n \in Nat, NEW S \in SUBSET (0..n), S # {}
  PROVE  Max(S) \in S /\ \A x \in S : Max(S) >= x
<1> DEFINE Gaps == {n - x : x \in S}
<1>1. Gaps \in SUBSET Nat /\ Gaps # {}
  <2>1. \A x \in S : n - x \in Nat
    <3>1. \A x \in S : x \in 0..n
      OBVIOUS
    <3>2. QED
      BY <3>1
  <2>2. QED
    BY <2>1
<1>2. PICK g \in Gaps : \A h \in Gaps : <<h, g>> \notin OpToRel(<, Nat)
  BY <1>1, NatLessThanWellFounded, WFMin
<1>3. PICK m \in S : g = n - m
  BY <1>2
<1>4. ASSUME NEW x \in S PROVE m >= x
  <2>1. n - x \in Gaps /\ n - x \in Nat /\ g \in Nat
    BY <1>1
  <2>2. <<n - x, g>> \notin OpToRel(<, Nat)
    BY <1>2, <2>1
  <2>3. ~(n - x < g)
    BY <2>1, <2>2 DEF OpToRel
  <2>4. x \in 0..n /\ m \in 0..n
    OBVIOUS
  <2>5. QED
    BY ONLY <1>3, <2>3, <2>4, n \in Nat
<1>5. QED
  BY <1>4 DEF Max

\* What is cut is within its room if there is any, and what is capped within its limit.
LEMMA CapFacts ==
  ASSUME NEW r \in Seq(Nat), NEW max \in Int
  PROVE  CapTo(r, max) \in Nat /\ (NoteSize <= max => CapTo(r, max) <= max)
<1>1. PICK n \in Nat : n = Len(r)
  BY LenProperties
<1>2. \A k \in 1..n : r[k] \in Nat
  BY <1>1, ElementOfSeq
<1>3. Size(r) \in Nat
  BY <1>1, <1>2, SizeFacts
<1>4. NoteSize \in Nat
  BY RequestAssumption
<1> DEFINE room == max - NoteSize
           fitting == {k \in 1..Len(r) : Size(SubSeq(r, 1, k)) <= room}
           cut == Max({0} \cup fitting)
<1>5. {0} \cup fitting \in SUBSET (0..n) /\ {0} \cup fitting # {}
  BY <1>1
<1>6. cut \in {0} \cup fitting
  <2> HIDE DEF fitting
  <2>1. QED
    BY <1>5, MaxFacts
<1>7. \A k \in 1..n : SubSeq(r, 1, k) \in Seq(Nat)
  <2> SUFFICES ASSUME NEW k \in 1..n PROVE SubSeq(r, 1, k) \in Seq(Nat)
    OBVIOUS
  <2>1. \A i \in 1..k : r[i] \in Nat
    BY <1>2
  <2>2. 1 \in Int /\ k \in Int
    OBVIOUS
  <2>3. QED
    BY <2>1, <2>2, SubSeqProperties
<1>8. Size(SubSeq(r, 1, cut)) \in Nat /\ (0 <= room => Size(SubSeq(r, 1, cut)) <= room)
  <2>1. CASE cut = 0
    <3>1. SubSeq(r, 1, 0) = <<>>
      BY SubSeqEmpty
    <3>2. Len(<<>>) = 0
      OBVIOUS
    <3>3. PICK sum \in [0..0 -> Nat] : sum[0] = 0 /\ sum[0] = Size(<<>>)
      <4>1. \A k \in 1..0 : <<>>[k] \in Nat
        OBVIOUS
      <4>2. QED
        BY <3>2, <4>1, SizeFacts
    <3>4. SubSeq(r, 1, cut) = <<>>
      BY <2>1, <3>1, Zenon
    <3>5. Size(SubSeq(r, 1, cut)) = 0
      BY <3>3, <3>4, Zenon
    <3> HIDE DEF room, cut
    <3>6. QED
      BY <3>5
  <2>2. CASE cut \in fitting
    <3>1. cut \in 1..n /\ Size(SubSeq(r, 1, cut)) <= room
      BY <1>1, <2>2
    <3>2. PICK s \in Seq(Nat) : s = SubSeq(r, 1, cut)
      BY <1>7, <3>1
    <3>3. PICK l \in Nat : l = Len(s)
      BY LenProperties
    <3>4. \A k \in 1..l : s[k] \in Nat
      BY <3>3, ElementOfSeq
    <3>5. Size(s) \in Nat
      BY <3>3, <3>4, SizeFacts
    <3>6. QED
      BY <3>1, <3>2, <3>5
  <2>3. QED
    BY <1>6, <2>1, <2>2
<1>9. CutSize(r, max - NoteSize) = Size(SubSeq(r, 1, cut))
  BY DEF CutSize
<1> HIDE DEF cut, fitting
<1>10. PICK c \in Nat : c = Size(SubSeq(r, 1, cut)) /\ (NoteSize <= max => c <= max - NoteSize)
  BY <1>4, <1>8
<1>11. CapTo(r, max) = IF Size(r) <= max THEN Size(r) ELSE c + NoteSize
  BY <1>9, <1>10 DEF CapTo
<1>12. QED
  BY <1>3, <1>4, <1>10, <1>11

-----------------------------------------------------------------------------
(* The rows that a report shows *)

\* The companion slice of a map has every value of a sequence, each once.
OnceEach(names, seq, S) ==
  /\ names \in Seq(S)
  /\ \A i \in DOMAIN seq : \E k \in DOMAIN names : names[k] = seq[i]
  /\ \A k \in DOMAIN names : \E i \in DOMAIN seq : names[k] = seq[i]
  /\ \A k, l \in DOMAIN names : names[k] = names[l] => k = l

\* The first of each, in their order.
LEMMA FirstSeenFacts ==
  ASSUME NEW S, NEW seq \in Seq(S), NEW names, names = FirstSeen(seq)
  PROVE  OnceEach(names, seq, S)
<1> DEFINE I == {i \in DOMAIN seq : \A j \in 1..(i - 1) : seq[j] # seq[i]}
<1>1. I \in SUBSET DOMAIN seq /\ names = At(seq, I)
  BY DEF FirstSeen
<1>2. DOMAIN seq \in SUBSET Nat /\ \A i \in DOMAIN seq : \A j \in 1..(i - 1) : j \in DOMAIN seq
  OBVIOUS
<1>3. \A i, j \in I : seq[i] = seq[j] => i = j
  <2> SUFFICES ASSUME NEW i \in I, NEW j \in I, seq[i] = seq[j] PROVE i = j
    OBVIOUS
  <2>1. i \in DOMAIN seq /\ j \in DOMAIN seq
    OBVIOUS
  <2>2. i \in Nat /\ j \in Nat /\ i > 0 /\ j > 0
    BY <2>1
  <2>3. ~(i < j) /\ ~(j < i)
    BY <2>1, <2>2
  <2>4. QED
    BY <2>2, <2>3
<1>4. ASSUME NEW i \in DOMAIN seq PROVE \E j \in I : seq[j] = seq[i]
  <2> DEFINE Same == {j \in DOMAIN seq : seq[j] = seq[i]}
  <2>1. Same \in SUBSET Nat /\ Same # {}
    BY <1>2
  <2>2. PICK j \in Same : \A k \in Same : <<k, j>> \notin OpToRel(<, Nat)
    BY <2>1, NatLessThanWellFounded, WFMin
  <2>3. j \in DOMAIN seq /\ seq[j] = seq[i]
    OBVIOUS
  <2>4. ASSUME NEW k \in 1..(j - 1) PROVE seq[k] # seq[j]
    <3>1. k \in DOMAIN seq /\ k \in Nat /\ j \in Nat /\ k < j
      BY <1>2, <2>3
    <3>2. <<k, j>> \in OpToRel(<, Nat)
      BY ONLY <3>1 DEF OpToRel
    <3>3. k \notin Same
      BY <2>2, <3>2
    <3>4. QED
      BY <2>3, <3>1, <3>3
  <2>5. QED
    BY <2>3, <2>4
<1> HIDE DEF I
<1>5. PICK n \in Nat : n = Cardinality(I)
  BY <1>1, AtFacts
<1>6. /\ names \in Seq(S) /\ Len(names) = n
      /\ Ascending(I) \in [1..n -> I]
      /\ \A k \in 1..n : names[k] = seq[Ascending(I)[k]]
      /\ \A i, j \in 1..n : i < j => Ascending(I)[i] < Ascending(I)[j]
      /\ \A i \in I : \E k \in 1..n : Ascending(I)[k] = i
  BY <1>1, <1>5, AtFacts
<1>7. DOMAIN names = 1..n
  BY <1>6, LenProperties
<1>8. ASSUME NEW i \in DOMAIN seq PROVE \E k \in 1..n : names[k] = seq[i]
  <2>1. PICK j \in I : seq[j] = seq[i]
    BY <1>4
  <2>2. PICK k \in 1..n : Ascending(I)[k] = j
    BY <1>6
  <2>3. names[k] = seq[i]
    BY <1>6, <2>1, <2>2
  <2>4. QED
    BY <2>3
<1>9. ASSUME NEW k \in 1..n PROVE \E i \in DOMAIN seq : names[k] = seq[i]
  BY <1>1, <1>6
<1>10. ASSUME NEW k \in 1..n, NEW l \in 1..n, names[k] = names[l]
       PROVE  k = l
  <2>1. Ascending(I)[k] \in I /\ Ascending(I)[l] \in I
    BY <1>6
  <2>2. seq[Ascending(I)[k]] = seq[Ascending(I)[l]]
    BY <1>6, <1>10
  <2>3. Ascending(I)[k] = Ascending(I)[l] /\ Ascending(I)[k] \in Nat
    BY <1>1, <1>2, <1>3, <2>1, <2>2
  <2>4. ~(k < l) /\ ~(l < k)
    BY <1>6, <2>3
  <2>5. QED
    BY <2>4
<1>11. \A i \in DOMAIN seq : \E k \in DOMAIN names : names[k] = seq[i]
  BY <1>7, <1>8
<1>12. \A k \in DOMAIN names : \E i \in DOMAIN seq : names[k] = seq[i]
  BY <1>7, <1>9
<1>13. \A k, l \in DOMAIN names : names[k] = names[l] => k = l
  BY <1>7, <1>10
<1>14. QED
  BY <1>6, <1>11, <1>12, <1>13, Zenon DEF OnceEach

\* A column of a table.
Values(R, field) == {r[field] : r \in R}
IsColumn(col, R, rs, field) ==
  /\ col \in Seq(Values(R, field))
  /\ DOMAIN col = DOMAIN rs /\ Len(col) = Len(rs)
  /\ \A i \in DOMAIN rs : col[i] = rs[i][field]

\* It has the values of the rows, each at its row.
LEMMA ColumnFacts ==
  ASSUME NEW R, NEW rs \in Seq(R), NEW field, NEW col, col = Column(rs, field)
  PROVE  IsColumn(col, R, rs, field)
<1>1. PICK n \in Nat : n = Len(rs) /\ DOMAIN rs = 1..n
  BY LenProperties
<1>2. \A i \in 1..n : rs[i] \in R
  BY <1>1, ElementOfSeq
<1>3. col = [i \in 1..n |-> rs[i][field]]
  BY <1>1 DEF Column
<1>4. \A i \in 1..n : rs[i][field] \in Values(R, field)
  BY <1>2 DEF Values
<1>5. col \in [1..n -> Values(R, field)]
  BY <1>3, <1>4
<1>6. col \in Seq(Values(R, field)) /\ Len(col) = n
  BY <1>5
<1>7. \A i \in 1..n : col[i] = rs[i][field]
  BY <1>3
<1>8. QED
  BY <1>1, <1>5, <1>6, <1>7 DEF IsColumn

\* As many places of a sequence as of what is left of it at places I.
SameCount(seq, I, P) ==
  Cardinality({k \in DOMAIN At(seq, I) : At(seq, I)[k] \in P})
    = Cardinality({i \in I : seq[i] \in P})

\* Bijections keep cardinalities: what holds at some places of a sequence holds at as
\* many of what is left.
LEMMA CountedAt ==
  ASSUME NEW S, NEW seq \in Seq(S), NEW I \in SUBSET (DOMAIN seq), NEW P
  PROVE  SameCount(seq, I, P)
<1> DEFINE asc == Ascending(I)
           left == At(seq, I)
<1>1. PICK n \in Nat : n = Cardinality(I)
  BY AtFacts
<1>2. /\ IsFiniteSet(I) /\ left \in Seq(S) /\ Len(left) = n
      /\ asc \in [1..n -> I]
      /\ \A k \in 1..n : left[k] = seq[asc[k]]
      /\ \A i, j \in 1..n : i < j => asc[i] < asc[j]
      /\ \A i \in I : \E k \in 1..n : asc[k] = i
  BY <1>1, AtFacts
<1> HIDE DEF asc, left
<1>3. DOMAIN left = 1..n
  BY <1>2, LenProperties
<1> DEFINE A == {k \in DOMAIN left : left[k] \in P}
           B == {i \in I : seq[i] \in P}
           f == [k \in A |-> asc[k]]
<1>4. \A k \in A : asc[k] \in B
  BY <1>2, <1>3
<1>5. \A k, l \in A : asc[k] = asc[l] => k = l
  <2> SUFFICES ASSUME NEW k \in A, NEW l \in A, asc[k] = asc[l] PROVE k = l
    OBVIOUS
  <2>1. k \in 1..n /\ l \in 1..n /\ asc[k] \in I
    BY <1>2, <1>3
  <2>2. DOMAIN seq \in SUBSET Nat
    OBVIOUS
  <2>3. asc[k] \in Nat
    BY <2>1, <2>2
  <2>4. ~(k < l) /\ ~(l < k)
    BY <1>2, <2>1, <2>3
  <2>5. QED
    BY <2>1, <2>4
<1>6. \A i \in B : \E k \in A : asc[k] = i
  <2> SUFFICES ASSUME NEW i \in B PROVE \E k \in A : asc[k] = i
    OBVIOUS
  <2>1. PICK k \in 1..n : asc[k] = i
    BY <1>2
  <2>2. left[k] = seq[i]
    BY <1>2, <2>1
  <2>3. k \in A
    BY <1>3, <2>2
  <2>4. QED
    BY <2>1, <2>3
<1> HIDE DEF A, B
<1>7. f \in Bijection(A, B)
  BY <1>4, <1>5, <1>6 DEF Bijection, Injection, Surjection, IsInjective
<1>8. IsFiniteSet(A)
  <2>1. A \in SUBSET (1..n)
    BY <1>3 DEF A
  <2>2. IsFiniteSet(1..n)
    BY FS_Interval
  <2>3. QED
    BY <2>1, <2>2, FS_Subset
<1> HIDE DEF f
<1>9. Cardinality(B) = Cardinality(A)
  BY <1>7, <1>8, FS_Bijection DEF ExistsBijection
<1>10. QED
  BY <1>9 DEF A, B, left, SameCount

\* The rows with a value in a column.
With(rs, field, value) == At(rs, {i \in DOMAIN rs : rs[i][field] = value})

IsWith(own, R, rs, field, value) ==
  /\ own \in Seq(R)
  /\ Len(own) = Cardinality({i \in DOMAIN rs : rs[i][field] = value})
  /\ \A k \in DOMAIN own : \E i \in DOMAIN rs : rs[i][field] = value /\ own[k] = rs[i]
  /\ \A i \in DOMAIN rs : rs[i][field] = value => \E k \in DOMAIN own : own[k] = rs[i]
  /\ Passed(own) = Cardinality({i \in DOMAIN rs :
                                  rs[i][field] = value /\ rs[i].status = "pass"})

\* These rows are all there, and so are those of them that passed.
LEMMA WithFacts ==
  ASSUME NEW R, NEW rs \in Seq(R), NEW field, NEW value,
         NEW own, own = With(rs, field, value)
  PROVE  IsWith(own, R, rs, field, value)
<1> DEFINE I == {i \in DOMAIN rs : rs[i][field] = value}
<1>1. I \in SUBSET DOMAIN rs /\ own = At(rs, I)
  BY DEF With
<1>2. \A i : i \in I <=> i \in DOMAIN rs /\ rs[i][field] = value
  OBVIOUS
<1> HIDE DEF I
<1>3. PICK n \in Nat : n = Cardinality(I)
  BY <1>1, AtFacts
<1>4. /\ own \in Seq(R) /\ Len(own) = n
      /\ Ascending(I) \in [1..n -> I]
      /\ \A k \in 1..n : own[k] = rs[Ascending(I)[k]]
      /\ \A i \in I : \E k \in 1..n : Ascending(I)[k] = i
  BY <1>1, <1>3, AtFacts
<1>5. DOMAIN own = 1..n
  BY <1>4, LenProperties
<1>6. ASSUME NEW k \in DOMAIN own
      PROVE  \E i \in DOMAIN rs : rs[i][field] = value /\ own[k] = rs[i]
  BY <1>2, <1>4, <1>5
<1>7. ASSUME NEW i \in DOMAIN rs, rs[i][field] = value
      PROVE  \E k \in DOMAIN own : own[k] = rs[i]
  <2>1. i \in I
    BY <1>2, <1>7
  <2>2. PICK k \in 1..n : Ascending(I)[k] = i
    BY <1>4, <2>1
  <2>3. own[k] = rs[i]
    BY <1>4, <2>2
  <2>4. QED
    BY <1>5, <2>3
<1> DEFINE P == {r \in R : r.status = "pass"}
<1>8. Passed(own) = Cardinality({k \in DOMAIN own : own[k] \in P})
  <2>1. \A k \in DOMAIN own : own[k] \in R
    BY <1>4, LenProperties, ElementOfSeq
  <2>2. {k \in DOMAIN own : own[k] \in P} = {k \in DOMAIN own : own[k].status = "pass"}
    BY <2>1
  <2>3. QED
    BY <2>2 DEF Passed
<1>9. {i \in I : rs[i] \in P}
        = {i \in DOMAIN rs : rs[i][field] = value /\ rs[i].status = "pass"}
  <2>1. \A i \in DOMAIN rs : rs[i] \in R
    BY LenProperties, ElementOfSeq
  <2>2. QED
    BY <1>2, <2>1
<1> HIDE DEF P
<1>10. Passed(own) = Cardinality({i \in I : rs[i] \in P})
  <2>1. SameCount(rs, I, P)
    BY <1>1, CountedAt
  <2>2. QED
    BY <1>1, <1>8, <2>1, Zenon DEF SameCount
<1>11. Len(own) = Cardinality(I)
  BY <1>3, <1>4
<1>12. I = {i \in DOMAIN rs : rs[i][field] = value}
  BY DEF I
<1>13. QED
  BY <1>4, <1>6, <1>7, <1>9, <1>10, <1>11, <1>12 DEF IsWith

\* What the companion slice of a map has for a column.
NamesOf(names, n, R, rs, field) ==
  /\ names \in Seq(Values(R, field)) /\ DOMAIN names = 1..n
  /\ \A i \in DOMAIN rs : \E k \in 1..n : names[k] = rs[i][field]
  /\ \A k \in 1..n : \E i \in DOMAIN rs : names[k] = rs[i][field]
  /\ \A k, l \in 1..n : names[k] = names[l] => k = l

\* Each value once, and no other.
LEMMA NamesFacts ==
  ASSUME NEW R, NEW rs \in Seq(R), NEW field,
         NEW names, names = FirstSeen(Column(rs, field)), NEW n \in Nat, n = Len(names)
  PROVE  NamesOf(names, n, R, rs, field)
<1>1. PICK col : col = Column(rs, field)
  OBVIOUS
<1>2. PICK V : V = Values(R, field)
  OBVIOUS
<1>3. IsColumn(col, R, rs, field)
  BY <1>1, ColumnFacts
<1>4. /\ col \in Seq(V) /\ DOMAIN col = DOMAIN rs
      /\ \A i \in DOMAIN rs : col[i] = rs[i][field]
  BY <1>2, <1>3 DEF IsColumn
<1>5. names = FirstSeen(col)
  BY <1>1
<1>6. /\ names \in Seq(V)
      /\ \A i \in DOMAIN col : \E k \in DOMAIN names : names[k] = col[i]
      /\ \A k \in DOMAIN names : \E i \in DOMAIN col : names[k] = col[i]
      /\ \A k, l \in DOMAIN names : names[k] = names[l] => k = l
  <2>1. OnceEach(names, col, V)
    BY <1>4, <1>5, FirstSeenFacts
  <2>2. QED
    BY <2>1 DEF OnceEach
<1>7. DOMAIN names = 1..n
  BY <1>6, LenProperties
<1>8. /\ \A i \in DOMAIN rs : \E k \in 1..n : names[k] = rs[i][field]
      /\ \A k \in 1..n : \E i \in DOMAIN rs : names[k] = rs[i][field]
  <2>1. ASSUME NEW i \in DOMAIN rs PROVE \E k \in 1..n : names[k] = rs[i][field]
    BY <1>4, <1>6, <1>7
  <2>2. ASSUME NEW k \in 1..n PROVE \E i \in DOMAIN rs : names[k] = rs[i][field]
    <3>1. PICK i \in DOMAIN col : names[k] = col[i]
      BY <1>6, <1>7
    <3>2. QED
      BY <1>4, <3>1
  <2>3. QED
    BY <2>1, <2>2
<1>9. QED
  BY <1>2, <1>6, <1>7, <1>8 DEF NamesOf

\* How many of some rows have each name.
Counts(sizes, n, Q, rs, field, names) ==
  /\ n = Len(sizes)
  /\ \A k \in 1..n : sizes[k] = Cardinality({i \in Q : rs[i][field] = names[k]})

\* Some places of a table, counted value by value.
LEMMA CountedByValue ==
  ASSUME NEW R, NEW rs \in Seq(R), NEW field, NEW Q \in SUBSET (DOMAIN rs),
         NEW names, names = FirstSeen(Column(rs, field)), NEW n \in Nat, n = Len(names),
         NEW sizes, Counts(sizes, n, Q, rs, field, names)
  PROVE  Size(sizes) = Cardinality(Q)
<1> DEFINE part == [k \in 1..n |-> {i \in Q : rs[i][field] = names[k]}]
<1>1. /\ n = Len(sizes)
      /\ \A k \in 1..n : sizes[k] = Cardinality({i \in Q : rs[i][field] = names[k]})
  BY DEF Counts
<1>2. NamesOf(names, n, R, rs, field)
  BY NamesFacts
<1>3. \A k, l \in 1..n : names[k] = names[l] => k = l
  BY <1>2 DEF NamesOf
<1>4. IsFiniteSet(DOMAIN rs) /\ IsFiniteSet(Q)
  <2>1. DOMAIN rs = 1..Len(rs) /\ Len(rs) \in Nat
    BY LenProperties
  <2>2. IsFiniteSet(DOMAIN rs)
    BY <2>1, FS_Interval
  <2>3. QED
    BY <2>2, FS_Subset
<1>5. \A k \in 1..n : IsFiniteSet(part[k]) /\ sizes[k] = Cardinality(part[k])
  <2> SUFFICES ASSUME NEW k \in 1..n
               PROVE  IsFiniteSet(part[k]) /\ sizes[k] = Cardinality(part[k])
    OBVIOUS
  <2>1. part[k] = {i \in Q : rs[i][field] = names[k]}
    OBVIOUS
  <2>2. part[k] \in SUBSET Q
    BY <2>1
  <2> HIDE DEF part
  <2>3. IsFiniteSet(part[k])
    BY <1>4, <2>2, FS_Subset
  <2>4. QED
    BY <1>1, <2>1, <2>3
<1>6. \A i, j \in 1..n : i # j => part[i] \cap part[j] = {}
  BY <1>3
<1>7. UNION {part[k] : k \in 1..n} = Q
  <2>1. ASSUME NEW i \in Q PROVE \E k \in 1..n : i \in part[k]
    <3>1. PICK k \in 1..n : names[k] = rs[i][field]
      BY <1>2 DEF NamesOf
    <3>2. QED
      BY <3>1
  <2>2. \A k \in 1..n : part[k] \subseteq Q
    OBVIOUS
  <2> HIDE DEF part
  <2>3. QED
    BY <2>1, <2>2
<1> HIDE DEF part
<1>8. Size(sizes) = Cardinality(UNION {part[k] : k \in 1..n})
  <2>1. Parts(sizes, n, part)
    BY <1>1, <1>5, <1>6 DEF Parts
  <2>2. QED
    BY <2>1, SizeOfParts
<1>9. QED
  BY <1>7, <1>8

\* Rows in another order.
Reordered(flat, R, rs) ==
  flat \in Seq(R) /\ Len(flat) = Len(rs) /\ ToSet(flat) = ToSet(rs)

\* The parts of a table that is cut by the values of a column, with their own rows in
\* some order.
Recut(ss, own, n, rs, field, names) ==
  /\ names = FirstSeen(Column(rs, field)) /\ n = Len(names) /\ n = Len(ss)
  /\ \A k \in 1..n : own[k] = With(rs, field, names[k])
  /\ \A k \in 1..n : Len(ss[k]) = Len(own[k]) /\ ToSet(ss[k]) = ToSet(own[k])

\* A table that is cut by the values of a column, and joined again in any order within.
LEMMA Regrouped ==
  ASSUME NEW R, NEW rs \in Seq(R), NEW field, NEW names, NEW n \in Nat, NEW own,
         NEW ss \in Seq(Seq(R)), Recut(ss, own, n, rs, field, names),
         NEW flat, flat = FlattenSeq(ss)
  PROVE  Reordered(flat, R, rs)
<1> names = FirstSeen(Column(rs, field)) /\ n = Len(names) /\ n = Len(ss)
  BY DEF Recut
<1> \A k \in 1..n : own[k] = With(rs, field, names[k])
  BY DEF Recut
<1> \A k \in 1..n : Len(ss[k]) = Len(own[k]) /\ ToSet(ss[k]) = ToSet(own[k])
  BY DEF Recut
<1>1. /\ flat \in Seq(R)
      /\ \E end : JoinedAt(ss, n, flat, end)
      /\ \A k \in 1..n : \A j \in 1..Len(ss[k]) : \E x \in 1..Len(flat) : flat[x] = ss[k][j]
  <2>1. IsJoined(flat, R, ss, n)
    BY JoinedElements
  <2>2. QED
    BY <2>1 DEF IsJoined
<1>0. NamesOf(names, n, R, rs, field)
  BY NamesFacts
<1>7. ASSUME NEW k \in 1..n
      PROVE  /\ Len(own[k]) = Cardinality({i \in DOMAIN rs : rs[i][field] = names[k]})
             /\ \A l \in DOMAIN own[k] : \E i \in DOMAIN rs : own[k][l] = rs[i]
             /\ \A i \in DOMAIN rs : rs[i][field] = names[k] =>
                  \E l \in DOMAIN own[k] : own[k][l] = rs[i]
  <2>1. PICK o, v : o = own[k] /\ v = names[k]
    OBVIOUS
  <2>2. o = With(rs, field, v)
    BY <2>1
  <2>5. IsWith(o, R, rs, field, v)
    BY <2>2, WithFacts
  <2>3. /\ Len(o) = Cardinality({i \in DOMAIN rs : rs[i][field] = v})
        /\ \A l \in DOMAIN o : \E i \in DOMAIN rs : rs[i][field] = v /\ o[l] = rs[i]
        /\ \A i \in DOMAIN rs : rs[i][field] = v => \E l \in DOMAIN o : o[l] = rs[i]
    BY <2>5 DEF IsWith
  <2>4. QED
    BY ONLY <2>1, <2>3, Zenon
<1>2. Len(flat) = Len(rs)
  <2> DEFINE sizes == [k \in 1..n |-> Len(ss[k])]
  <2>1. Len(flat) = Size(sizes)
    <3>1. Len(FlattenSeq(ss)) = Size([k \in 1..Len(ss) |-> Len(ss[k])])
      BY FlattenLength
    <3>2. QED
      BY <3>1, Zenon
  <2>2. n = Len(sizes) /\ \A k \in 1..n : sizes[k] = Len(ss[k])
    OBVIOUS
  <2> HIDE DEF sizes
  <2>3. PICK m \in Nat : m = Len(rs) /\ DOMAIN rs = 1..m
    BY LenProperties
  <2>4. \A k \in 1..n : sizes[k] = Cardinality({i \in DOMAIN rs : rs[i][field] = names[k]})
    BY <1>7, <2>2
  <2>5. Size(sizes) = Cardinality(DOMAIN rs)
    <3>1. PICK Q \in SUBSET DOMAIN rs : Q = DOMAIN rs
      OBVIOUS
    <3>2. Counts(sizes, n, Q, rs, field, names)
      BY <2>2, <2>4, <3>1, Zenon DEF Counts
    <3>5. Size(sizes) = Cardinality(Q)
      BY <3>2, CountedByValue
    <3>6. QED
      BY <3>1, <3>5
  <2>6. Cardinality(1..m) = m
    BY FS_Interval
  <2>7. QED
    BY <2>1, <2>3, <2>5, <2>6, Zenon
<1>3. /\ DOMAIN rs = 1..Len(rs) /\ DOMAIN flat = 1..Len(flat)
      /\ \A k \in 1..n : DOMAIN ss[k] = 1..Len(ss[k])
  <2>1. \A k \in 1..n : ss[k] \in Seq(R)
    BY ElementOfSeq
  <2>2. QED
    BY <1>1, <2>1, LenProperties
<1>4. ASSUME NEW e \in ToSet(rs) PROVE e \in ToSet(flat)
  <2>1. PICK i \in DOMAIN rs : rs[i] = e
    BY DEF ToSet
  <2>2. PICK k \in 1..n : names[k] = rs[i][field]
    BY <1>0 DEF NamesOf
  <2>3. e \in ToSet(own[k])
    <3>1. \E l \in DOMAIN own[k] : own[k][l] = rs[i]
      BY <1>7, <2>2
    <3>2. QED
      BY <2>1, <3>1 DEF ToSet
  <2>4. e \in ToSet(ss[k])
    BY <2>3
  <2>5. PICK j \in 1..Len(ss[k]) : ss[k][j] = e
    BY <1>3, <2>4 DEF ToSet
  <2>6. PICK x \in 1..Len(flat) : flat[x] = ss[k][j]
    BY <1>1
  <2>7. QED
    BY <1>3, <2>5, <2>6 DEF ToSet
<1>5. ASSUME NEW e \in ToSet(flat) PROVE e \in ToSet(rs)
  <2>1. PICK x \in 1..Len(flat) : flat[x] = e
    BY <1>3 DEF ToSet
  <2>2. PICK end : JoinedAt(ss, n, flat, end)
    BY <1>1
  <2>3. PICK k \in 1..n : \E j \in 1..Len(ss[k]) : x = end[k - 1] + j
    BY <2>2 DEF JoinedAt
  <2>4. PICK j \in 1..Len(ss[k]) : x = end[k - 1] + j
    BY <2>3
  <2>5. ss[k][j] = e
    BY <2>1, <2>2, <2>4 DEF JoinedAt
  <2>6. e \in ToSet(ss[k])
    BY <1>3, <2>5 DEF ToSet
  <2>7. e \in ToSet(own[k])
    BY <2>6
  <2>8. PICK l \in DOMAIN own[k] : own[k][l] = e
    BY <2>7 DEF ToSet
  <2>9. \E i \in DOMAIN rs : rs[i] = e
    BY <1>7, <2>8
  <2>10. QED
    BY <2>9 DEF ToSet
<1>6. QED
  BY <1>1, <1>2, <1>4, <1>5 DEF Reordered

\* A table that is cut by the values of a column, with the passes and the rows of each part.
Grouped(names, own, sizes, lengths, rs, field) ==
  /\ names = FirstSeen(Column(rs, field))
  /\ own = [k \in DOMAIN names |-> With(rs, field, names[k])]
  /\ sizes = [k \in DOMAIN names |-> Passed(own[k])]
  /\ lengths = [k \in DOMAIN names |-> Len(own[k])]

\* The parts are the table, and so are their passes and their lengths.
LEMMA GroupedFacts ==
  ASSUME NEW R, NEW rs \in Seq(R), NEW field, NEW names, NEW own, NEW sizes, NEW lengths,
         Grouped(names, own, sizes, lengths, rs, field)
  PROVE  /\ Len(names) \in Nat /\ NamesOf(names, Len(names), R, rs, field)
         /\ own \in Seq(Seq(R)) /\ Len(own) = Len(names)
         /\ \A k \in DOMAIN names : IsWith(own[k], R, rs, field, names[k])
         /\ Size(sizes) = Passed(rs) /\ Size(lengths) = Len(rs)
<1>1. PICK V : V = Values(R, field)
  OBVIOUS
<1>2. PICK col : col = Column(rs, field)
  OBVIOUS
<1>3. IsColumn(col, R, rs, field)
  BY <1>2, ColumnFacts
<1>4. col \in Seq(V)
  BY <1>1, <1>3 DEF IsColumn
<1>5. names = FirstSeen(col)
  BY <1>2 DEF Grouped
<1>6. OnceEach(names, col, V)
  BY <1>4, <1>5, FirstSeenFacts
<1>7. PICK n \in Nat : n = Len(names) /\ DOMAIN names = 1..n
  BY <1>6, LenProperties DEF OnceEach
<1>8. names = FirstSeen(Column(rs, field))
  BY DEF Grouped
<1>9. NamesOf(names, n, R, rs, field)
  BY <1>7, <1>8, NamesFacts
<1>10. own = [k \in 1..n |-> With(rs, field, names[k])]
  BY <1>7 DEF Grouped
<1>11. ASSUME NEW k \in 1..n PROVE IsWith(own[k], R, rs, field, names[k])
  BY <1>10, WithFacts
<1>12. \A k \in 1..n : own[k] \in Seq(R)
  BY <1>11 DEF IsWith
<1>13. own \in Seq(Seq(R)) /\ Len(own) = n
  <2>1. own \in [1..n -> Seq(R)]
    BY <1>10, <1>12
  <2>2. QED
    BY ONLY n \in Nat, <2>1
<1>14. sizes = [k \in 1..n |-> Passed(own[k])] /\ lengths = [k \in 1..n |-> Len(own[k])]
  BY <1>7 DEF Grouped
<1>15. PICK m \in Nat : m = Len(rs) /\ DOMAIN rs = 1..m
  BY LenProperties
<1>16. Len(sizes) = n /\ Len(lengths) = n
  BY ONLY n \in Nat, <1>14
<1>17. PICK good \in SUBSET DOMAIN rs : good = {i \in DOMAIN rs : rs[i].status = "pass"}
  OBVIOUS
<1>18. Counts(sizes, n, good, rs, field, names)
  <2>1. ASSUME NEW k \in 1..n
        PROVE  sizes[k] = Cardinality({i \in good : rs[i][field] = names[k]})
    <3>1. sizes[k] = Cardinality({i \in DOMAIN rs :
                        rs[i][field] = names[k] /\ rs[i].status = "pass"})
      BY <1>11, <1>14 DEF IsWith
    <3>2. {i \in DOMAIN rs : rs[i][field] = names[k] /\ rs[i].status = "pass"}
            = {i \in good : rs[i][field] = names[k]}
      BY <1>17
    <3>3. QED
      BY <3>1, <3>2
  <2>2. QED
    BY <1>16, <2>1 DEF Counts
<1>19. Counts(lengths, n, DOMAIN rs, rs, field, names)
  <2>1. ASSUME NEW k \in 1..n
        PROVE  lengths[k] = Cardinality({i \in DOMAIN rs : rs[i][field] = names[k]})
    BY <1>11, <1>14 DEF IsWith
  <2>2. QED
    BY <1>16, <2>1 DEF Counts
<1>20. n = Len(names)
  BY <1>7
<1>21. Size(sizes) = Cardinality(good)
  BY <1>8, <1>18, <1>20, CountedByValue
<1>22. Size(lengths) = Cardinality(DOMAIN rs)
  BY <1>8, <1>19, <1>20, CountedByValue
<1>23. Cardinality(1..m) = m
  BY FS_Interval
<1>24. Cardinality(good) = Passed(rs)
  BY <1>17 DEF Passed
<1>25. QED
  BY <1>7, <1>9, <1>11, <1>13, <1>15, <1>21, <1>22, <1>23, <1>24, Zenon

\* The rows of a policy and of a browser are those with its name in that column.
LEMMA OwnRows ==
  ASSUME NEW rs, NEW name
  PROVE  /\ OfPolicy(rs, name) = With(rs, "policy", name)
         /\ OfBrowser(rs, name) = With(rs, "browser", name)
<1>1. {i \in DOMAIN rs : rs[i].policy = name} = {i \in DOMAIN rs : rs[i]["policy"] = name}
  OBVIOUS
<1>2. {i \in DOMAIN rs : rs[i].browser = name} = {i \in DOMAIN rs : rs[i]["browser"] = name}
  OBVIOUS
<1>3. QED
  BY <1>1, <1>2, Zenon DEF OfPolicy, OfBrowser, With

\* All rows passed if as many passed as there are.
LEMMA PassedFacts ==
  ASSUME NEW R, NEW rs \in Seq(R)
  PROVE  /\ Passed(rs) \in Nat /\ Passed(rs) <= Len(rs)
         /\ Passed(rs) = Len(rs) <=> AllPassed(rs)
<1>1. PICK n \in Nat : n = Len(rs) /\ DOMAIN rs = 1..n
  BY LenProperties
<1> DEFINE good == {i \in DOMAIN rs : rs[i].status = "pass"}
<1>2. IsFiniteSet(1..n) /\ Cardinality(1..n) = n
  BY FS_Interval
<1>3. good \in SUBSET (1..n) /\ (good = 1..n <=> AllPassed(rs))
  BY <1>1 DEF AllPassed
<1>4. Passed(rs) = Cardinality(good)
  BY DEF Passed
<1> HIDE DEF good
<1>5. IsFiniteSet(good) /\ Cardinality(good) <= n /\ (Cardinality(good) = n => good = 1..n)
  BY <1>2, <1>3, FS_Subset
<1>6. Cardinality(good) \in Nat
  BY <1>5, FS_CardinalityType
<1>7. good = 1..n => Cardinality(good) = n
  BY <1>2, Zenon
<1>8. QED
  BY <1>1, <1>3, <1>4, <1>5, <1>6, <1>7

\* The groups of a section show its rows and count those that passed.
LEMMA GroupsFacts ==
  ASSUME NEW R, NEW rs \in Seq(R), NEW groups, groups = BrowserGroups(rs)
  PROVE  /\ Reordered(FlattenSeq([j \in DOMAIN groups |-> groups[j].rows]), R, rs)
         /\ Size(Column(groups, "passed")) = Passed(rs)
<1>1. PICK names : names = FirstSeen(Column(rs, "browser"))
  OBVIOUS
<1>2. groups = [k \in DOMAIN names |->
                 [browser |-> names[k], passed |-> Passed(OfBrowser(rs, names[k])),
                  rows |-> OfBrowser(rs, names[k])]]
  BY <1>1, Zenon DEF BrowserGroups
<1>3. PICK own : own = [k \in DOMAIN names |-> With(rs, "browser", names[k])]
  OBVIOUS
<1>4. PICK sizes : sizes = [k \in DOMAIN names |-> Passed(own[k])]
  OBVIOUS
<1>5. PICK lengths : lengths = [k \in DOMAIN names |-> Len(own[k])]
  OBVIOUS
<1>6. Grouped(names, own, sizes, lengths, rs, "browser")
  BY <1>1, <1>3, <1>4, <1>5, Zenon DEF Grouped
<1>7. \A k \in DOMAIN names : own[k] = OfBrowser(rs, names[k])
  BY <1>3, OwnRows
<1>8. own = [j \in DOMAIN groups |-> groups[j].rows]
  <2>1. DOMAIN groups = DOMAIN names
    BY <1>2
  <2>2. \A j \in DOMAIN names : groups[j].rows = own[j]
    BY <1>2, <1>7
  <2>3. QED
    BY <1>3, <2>1, <2>2
<1>9. sizes = Column(groups, "passed")
  <2>1. DOMAIN groups = DOMAIN names
    BY <1>2
  <2>2. \A j \in DOMAIN names : groups[j]["passed"] = Passed(own[j])
    BY <1>2, <1>7
  <2>3. QED
    BY <1>4, <2>1, <2>2 DEF Column
<1>10. /\ NamesOf(names, Len(names), R, rs, "browser") /\ Len(names) \in Nat
       /\ own \in Seq(Seq(R)) /\ Len(own) = Len(names) /\ Size(sizes) = Passed(rs)
  BY <1>6, GroupedFacts
<1>11. PICK n \in Nat : n = Len(names)
  BY <1>10
<1>12. DOMAIN names = 1..n
  BY <1>10, <1>11 DEF NamesOf
<1>13. PICK flat : flat = FlattenSeq(own)
  OBVIOUS
<1>14. Recut(own, own, n, rs, "browser", names)
  BY <1>1, <1>3, <1>10, <1>11, <1>12 DEF Recut
<1>15. Reordered(flat, R, rs)
  BY <1>10, <1>13, <1>14, Regrouped
<1>16. QED
  BY <1>8, <1>9, <1>10, <1>13, <1>15, Zenon

\* The table of policies has each policy's own rows and how many of them passed.
LEMMA StatsFacts ==
  ASSUME NEW R, NEW rs \in Seq(R), NEW stats, stats = PolicyStats(rs)
  PROVE  /\ AllPassed(rs) <=> \A i \in DOMAIN stats : StatStatus(stats[i]) = "pass"
         /\ Size(Column(stats, "total")) = Len(rs)
<1>1. PICK names : names = FirstSeen(Column(rs, "policy"))
  OBVIOUS
<1>2. stats = [k \in DOMAIN names |->
                [name |-> names[k], passed |-> Passed(OfPolicy(rs, names[k])),
                 total |-> Len(OfPolicy(rs, names[k]))]]
  BY <1>1, Zenon DEF PolicyStats
<1>3. PICK own : own = [k \in DOMAIN names |-> With(rs, "policy", names[k])]
  OBVIOUS
<1>4. PICK sizes : sizes = [k \in DOMAIN names |-> Passed(own[k])]
  OBVIOUS
<1>5. PICK lengths : lengths = [k \in DOMAIN names |-> Len(own[k])]
  OBVIOUS
<1>6. Grouped(names, own, sizes, lengths, rs, "policy")
  BY <1>1, <1>3, <1>4, <1>5, Zenon DEF Grouped
<1>7. \A k \in DOMAIN names : own[k] = OfPolicy(rs, names[k])
  BY <1>3, OwnRows
<1>8. /\ DOMAIN stats = DOMAIN names
      /\ \A k \in DOMAIN names :
           /\ stats[k].name = names[k] /\ stats[k].passed = Passed(own[k])
           /\ stats[k].total = Len(own[k]) /\ stats[k]["total"] = Len(own[k])
  BY <1>2, <1>7
<1>9. lengths = Column(stats, "total")
  BY <1>5, <1>8 DEF Column
<1>10. /\ NamesOf(names, Len(names), R, rs, "policy") /\ Len(names) \in Nat
       /\ \A k \in DOMAIN names : IsWith(own[k], R, rs, "policy", names[k])
       /\ Size(lengths) = Len(rs)
  BY <1>6, GroupedFacts
<1>11. PICK n \in Nat : n = Len(names) /\ DOMAIN names = 1..n
  BY <1>10 DEF NamesOf
<1>12. ASSUME NEW k \in 1..n
       PROVE  /\ StatStatus(stats[k]) = "pass" <=> AllPassed(own[k])
              /\ \A l \in DOMAIN own[k] : \E i \in DOMAIN rs : own[k][l] = rs[i]
              /\ \A i \in DOMAIN rs : rs[i]["policy"] = names[k] =>
                   \E l \in DOMAIN own[k] : own[k][l] = rs[i]
  <2>1. PICK o : o = own[k]
    OBVIOUS
  <2>2. IsWith(o, R, rs, "policy", names[k])
    BY <1>10, <1>11, <2>1
  <2>3. o \in Seq(R)
    BY <2>2 DEF IsWith
  <2>4. PICK m \in Nat : m = Len(o) /\ DOMAIN o = 1..m
    BY <2>3, LenProperties
  <2>5. PICK p \in Nat : p = Passed(o) /\ p <= m /\ (p = m <=> AllPassed(o))
    BY <2>3, <2>4, PassedFacts
  <2>6. m > 0
    <3>1. PICK i \in DOMAIN rs : names[k] = rs[i]["policy"]
      BY <1>10, <1>11 DEF NamesOf
    <3>2. \E l \in DOMAIN o : o[l] = rs[i]
      BY <2>2, <3>1 DEF IsWith
    <3>3. QED
      BY <2>4, <3>2
  <2>7. stats[k].passed = p /\ stats[k].total = m
    BY <1>8, <1>11, <2>1, <2>4, <2>5
  <2>8. StatStatus(stats[k]) = "pass" <=> p = m
    BY <2>6, <2>7 DEF StatStatus
  <2>9. /\ \A l \in DOMAIN o : \E i \in DOMAIN rs : o[l] = rs[i]
        /\ \A i \in DOMAIN rs : rs[i]["policy"] = names[k] => \E l \in DOMAIN o : o[l] = rs[i]
    BY <2>2 DEF IsWith
  <2>10. QED
    BY <2>1, <2>5, <2>8, <2>9, Zenon
<1>13. ASSUME AllPassed(rs), NEW k \in 1..n PROVE AllPassed(own[k])
  <2>1. ASSUME NEW l \in DOMAIN own[k] PROVE own[k][l].status = "pass"
    <3>1. PICK i \in DOMAIN rs : own[k][l] = rs[i]
      BY <1>12
    <3>2. QED
      BY <1>13, <3>1 DEF AllPassed
  <2>2. QED
    BY <2>1 DEF AllPassed
<1>14. ASSUME \A k \in 1..n : AllPassed(own[k]), NEW i \in DOMAIN rs
       PROVE  rs[i].status = "pass"
  <2>1. PICK k \in 1..n : names[k] = rs[i]["policy"]
    BY <1>10, <1>11 DEF NamesOf
  <2>2. PICK l \in DOMAIN own[k] : own[k][l] = rs[i]
    BY <1>12, <2>1
  <2>3. AllPassed(own[k])
    BY <1>14
  <2>4. QED
    BY <2>2, <2>3 DEF AllPassed
<1>15. AllPassed(rs) <=> \A k \in 1..n : AllPassed(own[k])
  <2>1. (\A i \in DOMAIN rs : rs[i].status = "pass") <=> AllPassed(rs)
    BY DEF AllPassed
  <2>2. QED
    BY <1>13, <1>14, <2>1
<1>16. DOMAIN stats = 1..n
  BY <1>8, <1>11
<1>17. AllPassed(rs) <=> \A i \in DOMAIN stats : StatStatus(stats[i]) = "pass"
  BY <1>12, <1>15, <1>16
<1>18. QED
  BY <1>9, <1>10, <1>17

\* The sections show every row once, and count what the table of policies counts.
LEMMA SectionsFacts ==
  ASSUME NEW R, NEW rs \in Seq(R), NEW stats, stats = PolicyStats(rs),
         NEW sections, sections = Sections(rs)
  PROVE  /\ \A i \in DOMAIN stats :
              /\ sections[i].policy = stats[i].name
              /\ Size(Column(sections[i].groups, "passed")) = stats[i].passed
         /\ Reordered(Shown(rs), R, rs)
<1>1. PICK names : names = FirstSeen(Column(rs, "policy"))
  OBVIOUS
<1>2. stats = [k \in DOMAIN names |->
                [name |-> names[k], passed |-> Passed(OfPolicy(rs, names[k])),
                 total |-> Len(OfPolicy(rs, names[k]))]]
  BY <1>1, Zenon DEF PolicyStats
<1>3. sections = [k \in DOMAIN names |->
                   [policy |-> names[k], groups |-> BrowserGroups(OfPolicy(rs, names[k]))]]
  BY <1>1, Zenon DEF Sections
<1>4. PICK own : own = [k \in DOMAIN names |-> With(rs, "policy", names[k])]
  OBVIOUS
<1>5. PICK sizes : sizes = [k \in DOMAIN names |-> Passed(own[k])]
  OBVIOUS
<1>6. PICK lengths : lengths = [k \in DOMAIN names |-> Len(own[k])]
  OBVIOUS
<1>7. Grouped(names, own, sizes, lengths, rs, "policy")
  BY <1>1, <1>4, <1>5, <1>6, Zenon DEF Grouped
<1>8. /\ NamesOf(names, Len(names), R, rs, "policy") /\ Len(names) \in Nat
      /\ \A k \in DOMAIN names : IsWith(own[k], R, rs, "policy", names[k])
  BY <1>7, GroupedFacts
<1>9. PICK n \in Nat : n = Len(names) /\ DOMAIN names = 1..n
  BY <1>8 DEF NamesOf
<1>10. PICK groups : groups = [k \in 1..n |-> BrowserGroups(own[k])]
  OBVIOUS
<1>11. \A k \in 1..n : own[k] = OfPolicy(rs, names[k])
  BY <1>4, <1>9, OwnRows
<1>12. \A k \in 1..n : /\ stats[k].name = names[k] /\ stats[k].passed = Passed(own[k])
                       /\ sections[k].policy = names[k] /\ sections[k].groups = groups[k]
  BY <1>2, <1>3, <1>9, <1>10, <1>11
<1>13. DOMAIN stats = 1..n /\ DOMAIN sections = 1..n
  BY <1>2, <1>3, <1>9
<1>14. PICK ss : ss = [k \in 1..n |-> FlattenSeq([j \in DOMAIN groups[k] |-> groups[k][j].rows])]
  OBVIOUS
<1>15. ASSUME NEW k \in 1..n
       PROVE  /\ Reordered(ss[k], R, own[k])
              /\ Size(Column(groups[k], "passed")) = Passed(own[k])
  <2>1. PICK o \in Seq(R) : o = own[k]
    BY <1>8, <1>9 DEF IsWith
  <2>2. PICK g : g = BrowserGroups(o)
    OBVIOUS
  <2>3. /\ Reordered(FlattenSeq([j \in DOMAIN g |-> g[j].rows]), R, o)
        /\ Size(Column(g, "passed")) = Passed(o)
    BY <2>2, GroupsFacts, Zenon
  <2>4. g = groups[k]
    BY <1>10, <2>1, <2>2
  <2>5. ss[k] = FlattenSeq([j \in DOMAIN g |-> g[j].rows])
    BY <1>14, <2>4, Zenon
  <2>6. QED
    BY <2>1, <2>3, <2>4, <2>5, Zenon
<1>16. ss \in Seq(Seq(R)) /\ Len(ss) = n
  <2>1. \A k \in 1..n : ss[k] \in Seq(R)
    BY <1>15 DEF Reordered
  <2>2. ss = [k \in 1..n |-> ss[k]]
    BY <1>14, Zenon
  <2>3. QED
    BY ONLY n \in Nat, <2>1, <2>2
<1>17. Recut(ss, own, n, rs, "policy", names)
  <2>1. \A k \in 1..n : Len(ss[k]) = Len(own[k]) /\ ToSet(ss[k]) = ToSet(own[k])
    BY <1>15 DEF Reordered
  <2>2. \A k \in 1..n : own[k] = With(rs, "policy", names[k])
    BY <1>4, <1>9
  <2>3. QED
    BY <1>1, <1>9, <1>16, <2>1, <2>2, Zenon DEF Recut
<1>18. PICK flat : flat = FlattenSeq(ss)
  OBVIOUS
<1>19. Reordered(flat, R, rs)
  BY <1>16, <1>17, <1>18, Regrouped
<1>20. flat = Shown(rs)
  <2>1. Shown(rs) = FlattenSeq([i \in DOMAIN sections |->
                      FlattenSeq([j \in DOMAIN sections[i].groups |->
                        sections[i].groups[j].rows])])
    BY Zenon DEF Shown
  <2>2. ss = [i \in DOMAIN sections |->
               FlattenSeq([j \in DOMAIN sections[i].groups |-> sections[i].groups[j].rows])]
    <3>1. ASSUME NEW i \in 1..n
          PROVE  ss[i] = FlattenSeq([j \in DOMAIN sections[i].groups |->
                                      sections[i].groups[j].rows])
      <4>1. sections[i].groups = groups[i]
        BY <1>12
      <4>2. ss[i] = FlattenSeq([j \in DOMAIN groups[i] |-> groups[i][j].rows])
        BY <1>14, Zenon
      <4>3. QED
        BY <4>1, <4>2, Zenon
    <3>2. ss = [i \in 1..n |-> ss[i]]
      BY <1>14, Zenon
    <3>3. QED
      BY <1>13, <3>1, <3>2, Zenon
  <2>3. QED
    BY <1>18, <2>1, <2>2, Zenon
<1>21. QED
  BY <1>12, <1>13, <1>15, <1>19, <1>20

\* All rows there can be.
Results == {ResultOf(key, o) : key \in Keys, o \in Outcome}

\* Rows of a sweep are a sequence.
LEMMA RowsFacts ==
  ASSUME inv \in Invocations, Chosen, NEW rs, SweptRows(rs, MatrixOf(policies, targets))
  PROVE  /\ rs \in Seq(Results)
         /\ DOMAIN rs = DOMAIN MatrixOf(policies, targets)
<1>1. PICK m \in Seq(Keys) : m = MatrixOf(policies, targets)
  BY ChosenFacts
<1>2. /\ rs = [i \in DOMAIN m |-> rs[i]]
      /\ \A i \in DOMAIN m : \E o \in Outcome : rs[i] = ResultOf(m[i], o)
  BY <1>1 DEF SweptRows
<1>3. PICK n \in Nat : n = Len(m) /\ DOMAIN m = 1..n
  BY LenProperties
<1>4. \A i \in 1..n : m[i] \in Keys
  BY <1>3, ElementOfSeq
<1>5. \A i \in 1..n : rs[i] \in Results
  BY <1>2, <1>3, <1>4 DEF Results
<1>6. rs \in [1..n -> Results]
  BY <1>2, <1>3, <1>5
<1>7. rs \in Seq(Results)
  BY ONLY n \in Nat, <1>6
<1>8. QED
  BY <1>1, <1>3, <1>6, <1>7

\* The four tallies of a report agree, whatever the rows: the table of policies, the
\* sections of browsers and what they show are the rows, cut by their policies and then
\* by their browsers, and a part of a table has as many rows and passes as it takes.
THEOREM ReportsAgree == Spec => []TalliesAgree
<1>1. ASSUME IInv PROVE TalliesAgree
  <2> SUFFICES ASSUME rows # <<>> PROVE TalliesAgree
    BY DEF TalliesAgree
  <2>1. Chosen /\ inv \in Invocations /\ SweptRows(rows, MatrixOf(policies, targets))
    BY <1>1 DEF IInv, SweepIsChosen, RowsAreTheMatrix, Stages
  <2>0. rows \in Seq(Results)
    BY <2>1, RowsFacts
  <2>2. PICK R : R = Results /\ rows \in Seq(R)
    BY <2>0
  <2>3. PICK stats, sections : stats = PolicyStats(rows) /\ sections = Sections(rows)
    OBVIOUS
  <2>4. /\ AllPassed(rows) <=> \A i \in DOMAIN stats : StatStatus(stats[i]) = "pass"
        /\ Size(Column(stats, "total")) = Len(rows)
    BY <2>2, <2>3, StatsFacts
  <2>5. /\ \A i \in DOMAIN stats :
             /\ sections[i].policy = stats[i].name
             /\ Size(Column(sections[i].groups, "passed")) = stats[i].passed
        /\ Reordered(Shown(rows), R, rows)
    BY <2>2, <2>3, SectionsFacts
  <2>6. QED
    BY <2>3, <2>4, <2>5, Zenon DEF TalliesAgree, Reordered
<1>2. QED
  BY <1>1, InvariantHolds, PTL

-----------------------------------------------------------------------------
(* The comments on a pull request *)

\* A report is a sequence of sizes.
LEMMA MarkdownFacts ==
  ASSUME NEW rs \in Seq(Results)
  PROVE  RenderMarkdown(rs) \in Seq(Nat)
<1>1. PICK shown : shown = Shown(rs)
  OBVIOUS
<1>2. PICK stats, sections : stats = PolicyStats(rs) /\ sections = Sections(rs)
  OBVIOUS
<1>3. Reordered(Shown(rs), Results, rs)
  BY <1>2, SectionsFacts
<1>4. shown \in Seq(Results)
  BY <1>1, <1>3 DEF Reordered
<1>5. PICK n \in Nat : n = Len(shown) /\ DOMAIN shown = 1..n
  BY <1>4, LenProperties
<1> DEFINE Cell(r) == IF r.frame = NoFrame THEN <<1, 3>> ELSE <<1, 1>>
           Details(r) == IF r.status = "pass" THEN <<>> ELSE [k \in 1..2 * Len(r.logs) |-> 1]
           ss == [i \in DOMAIN shown |-> Cell(shown[i]) \o Details(shown[i])]
<1>6. ASSUME NEW i \in 1..n PROVE Cell(shown[i]) \o Details(shown[i]) \in Seq(Nat)
  <2>1. PICK r \in Results : r = shown[i]
    BY <1>4, <1>5, ElementOfSeq
  <2>2. Len(r.logs) \in Nat
    <3>1. PICK key \in Keys, o \in Outcome : r = ResultOf(key, o)
      BY <2>1 DEF Results
    <3>2. r.logs = Containers(key[2]) \/ r.logs = <<>>
      BY <3>1 DEF ResultOf
    <3>3. Len(Containers(key[2])) = 3 /\ Len(<<>>) = 0
      BY DEF Containers
    <3>4. QED
      BY <3>2, <3>3
  <2>3. PICK c \in Seq(Nat) : c = Cell(r)
    <3>1. <<1, 3>> \in Seq(Nat) /\ <<1, 1>> \in Seq(Nat)
      OBVIOUS
    <3>2. Cell(r) = <<1, 3>> \/ Cell(r) = <<1, 1>>
      BY Zenon
    <3> HIDE DEF Cell
    <3>3. QED
      BY <3>1, <3>2, Zenon
  <2>4. PICK d \in Seq(Nat) : d = Details(r)
    <3>1. PICK l \in Nat : l = Len(r.logs)
      BY <2>2
    <3>2. 2 * l \in Nat
      OBVIOUS
    <3>3. PICK m \in Nat : m = 2 * Len(r.logs)
      BY <3>1, <3>2, Zenon
    <3>4. [k \in 1..m |-> 1] \in Seq(Nat)
      OBVIOUS
    <3>5. <<>> \in Seq(Nat)
      OBVIOUS
    <3>6. Details(r) \in Seq(Nat)
      BY <3>3, <3>4, <3>5, Zenon
    <3>7. QED
      BY <3>6
  <2>5. c \o d \in Seq(Nat)
    BY ConcatProperties
  <2>6. Cell(shown[i]) \o Details(shown[i]) = c \o d
    BY <2>1, <2>3, <2>4, Zenon
  <2>7. QED
    BY <2>5, <2>6
<1>7. RenderMarkdown(rs) = FlattenSeq(ss)
  BY <1>1, Zenon DEF RenderMarkdown
<1>8. ss = [i \in 1..n |-> ss[i]] /\ \A i \in 1..n : ss[i] \in Seq(Nat)
  BY <1>5, <1>6, Zenon
<1> HIDE DEF ss
<1>9. ss \in Seq(Seq(Nat)) /\ n = Len(ss)
  BY ONLY n \in Nat, <1>8
<1>10. PICK flat : flat = FlattenSeq(ss)
  OBVIOUS
<1>11. flat \in Seq(Nat)
  <2>1. IsJoined(flat, Nat, ss, n)
    BY <1>9, <1>10, JoinedElements
  <2>2. QED
    BY <2>1 DEF IsJoined
<1>12. QED
  BY <1>7, <1>10, <1>11

\* Whatever is posted on a pull request whose sha leaves room is short enough for it.
LEMMA BodiesFit ==
  ASSUME inv \in Invocations, Room
  PROVE  /\ BodyAck(inv.sha) \in 0..MaxComment
         /\ \A err \in {1, MaxComment} : BodyRunError(inv.sha, err) \in 0..MaxComment
         /\ \A report \in Seq(Nat) : BodyResult(report, inv.sha, url) \in 0..MaxComment
<1>1. PICK h, l, s, note, max \in Nat :
        h = HeadSize /\ l = LinkSize /\ s = inv.sha /\ note = NoteSize /\ max = MaxComment
  BY RequestAssumption, InvocationsAssumption
<1>2. h + s + l + note <= max
  BY <1>1 DEF Room
<1>3. BodyAck(inv.sha) \in 0..MaxComment
  BY <1>1, <1>2 DEF BodyAck
<1>4. ASSUME NEW err \in {1, MaxComment} PROVE BodyRunError(inv.sha, err) \in 0..MaxComment
  <2>1. PICK e \in Nat : e = h + s + err
    BY <1>1
  <2>2. [i \in 1..e |-> 1] \in Seq(Nat)
    OBVIOUS
  <2>3. BodyRunError(inv.sha, err) = CapTo([i \in 1..e |-> 1], MaxComment)
    BY <1>1, <2>1, Zenon DEF BodyRunError
  <2>4. NoteSize <= MaxComment /\ MaxComment \in Nat
    BY <1>1, <1>2
  <2>5. PICK c \in Nat : c = CapTo([i \in 1..e |-> 1], MaxComment) /\ c <= MaxComment
    <3>1. PICK body \in Seq(Nat) : body = [i \in 1..e |-> 1]
      BY <2>2
    <3>2. MaxComment \in Int
      BY <2>4
    <3>3. CapTo(body, MaxComment) \in Nat
      BY <3>2, CapFacts
    <3>4. CapTo(body, MaxComment) <= MaxComment
      BY <2>4, <3>2, CapFacts
    <3>5. QED
      BY <3>1, <3>3, <3>4
  <2>6. c \in 0..MaxComment
    BY <2>4, <2>5
  <2>7. QED
    BY <2>3, <2>5, <2>6
<1>5. ASSUME NEW report \in Seq(Nat) PROVE BodyResult(report, inv.sha, url) \in 0..MaxComment
  <2>1. PICK tail \in Nat : tail = (IF url THEN LinkSize ELSE 0) /\ tail <= l
    BY <1>1
  <2>2. PICK room \in Nat : room = max - (h + s) - tail /\ note <= room
    <3>1. max - (h + s) - tail \in Nat /\ note <= max - (h + s) - tail
      BY <1>2, <2>1
    <3>2. QED
      BY <3>1
  <2>3. PICK c \in Nat : c = CapTo(report, room) /\ c <= room
    <3>1. NoteSize <= room
      BY <1>1, <2>2
    <3>2. QED
      BY <3>1, CapFacts
  <2>4. BodyResult(report, inv.sha, url) = h + s + CapTo(report, max - (h + s) - tail) + tail
    BY <1>1, <2>1, Zenon DEF BodyResult
  <2>5. BodyResult(report, inv.sha, url) = h + s + c + tail
    BY <2>2, <2>3, <2>4, Zenon
  <2>6. h + s + c + tail \in 0..max
    BY <2>2, <2>3
  <2>7. QED
    BY <1>1, <2>5, <2>6
<1>6. QED
  BY <1>3, <1>4, <1>5

\* The first comments of a thread.
LEMMA Appended ==
  ASSUME NEW a, NEW b
  PROVE  Append(<<>>, a) = <<a>> /\ Append(<<a>>, b) = <<a, b>>
<1>1. Append(<<a>>, b) = <<a, b>>
  BY LongerNames
<1>2. Append(<<>>, a) = <<a>>
  OBVIOUS
<1>3. QED
  BY <1>1, <1>2

\* What is short enough is posted, under the number that was sent.
LEMMA Posts ==
  ASSUME IInv, Async, worker # "idle", NEW kind, NEW size \in 0..MaxComment, Post(kind, size)
  PROVE  \E c : comments' = Append(comments, c) /\ c.kind = kind /\ c.pr = Int32(inv.pr)
<1>1. comments' = Append(comments, [kind |-> kind, pr |-> request.pr, size |-> size,
                                    link |-> url'])
  <2>1. ~(size > MaxComment)
    BY RequestAssumption
  <2>2. QED
    BY <2>1, Zenon DEF Post
<1>2. request.pr = Int32(inv.pr)
  BY DEF IInv, RequestIsSent, SentRequest, Async
<1>3. QED
  BY <1>1, <1>2

\* Comments are posted one after the other, and none is too long.
LEMMA ThreadStep ==
  ASSUME IInv, ThreadFollows, [Next]_vars
  PROVE  ThreadFollows'
<1> SUFFICES ASSUME Room' PROVE ThreadFollows'
  BY DEF ThreadFollows
<1>0. Room /\ inv' = inv
  BY DEF Next, RequestStep, Room, Async, Remote, BadCommandLine, Send, CallFails, Accepted,
         Answered, Refused, Busy, Admitted, PostAck, BrowsersFor, Sweep, Bundle, Upload,
         BadSweepFlags, SweepStarts, LocalSweep, LocalBundle, LocalReport, LocalFails,
         PostResult, ProcMoves, vars, toolVars
<1> USE <1>0 DEF ThreadFollows
<1> USE DEF IInv, Stages, Room, Async, Remote, Acknowledged, Closed, procVars, toolVars,
      sweepVars, resultVars
<1>1. CASE BadCommandLine
  BY <1>1 DEF BadCommandLine, Exit
<1>2. CASE Send
  BY <1>2 DEF Send
<1>3. CASE CallFails
  BY <1>3 DEF CallFails, Exit, Waiting
<1>4. CASE Accepted
  BY <1>4 DEF Accepted, Exit, Waiting
<1>5. CASE Answered
  BY <1>5 DEF Answered, Exit, Waiting
<1>6. CASE Refused
  BY <1>6 DEF Refused, Exit, Arrives, Waiting
<1>7. CASE Busy
  BY <1>7 DEF Busy, Exit, Arrives, Waiting, Post
<1>8. CASE Admitted
  BY <1>8 DEF Admitted, Arrives, Waiting
<1>9. CASE PostAck
  <2>1. worker = "ack" /\ Async /\ comments = <<>> /\ client # "flags"
    BY <1>9 DEF PostAck
  <2>2. BodyAck(inv.sha) \in 0..MaxComment
    BY BodiesFit
  <2>3. Post("ack", BodyAck(inv.sha))
    BY <1>9 DEF PostAck
  <2>4. PICK c : comments' = Append(comments, c) /\ c.kind = "ack" /\ c.pr = Int32(inv.pr)
    BY <2>1, <2>2, <2>3, Posts
  <2>5. comments' = <<c>>
    BY <2>1, <2>4, Appended, Zenon
  <2>6. Acknowledged(c)'
    BY <1>9, <2>4 DEF PostAck
  <2>7. worker' = "targets" /\ client' = client
    BY <1>9 DEF PostAck
  <2>8. QED
    BY <2>1, <2>5, <2>6, <2>7
<1>10. CASE BrowsersFor
  <2>1. CASE SweepFails
    <3>1. worker \in {"targets", "sweep"} /\ Async /\ Remote /\ rows = <<>> /\ rows' = rows
      BY <1>10, <2>1 DEF BrowsersFor, SweepFails, Post
    <3>2. PICK err \in {1, MaxComment} : Post("error", BodyRunError(inv.sha, err))
      BY <2>1, <3>1 DEF SweepFails
    <3>3. BodyRunError(inv.sha, err) \in 0..MaxComment
      BY BodiesFit
    <3>4. PICK d : comments' = Append(comments, d) /\ d.kind = "error" /\ d.pr = Int32(inv.pr)
      BY <3>1, <3>2, <3>3, Posts
    <3>5. PICK c : comments = <<c>> /\ Acknowledged(c)
      BY <3>1
    <3>6. comments' = <<c, d>>
      BY <3>4, <3>5, Appended, Zenon
    <3>7. Acknowledged(c)' /\ Closed(d)'
      BY <1>10, <3>1, <3>4, <3>5 DEF BrowsersFor, SweepFails, Post
    <3>8. worker' = "done" /\ client' = client
      BY <1>10, <2>1, <3>1 DEF BrowsersFor, SweepFails, Post
    <3>9. client # "flags"
      BY <3>1
    <3>10. QED
      BY <3>6, <3>7, <3>8, <3>9
  <2>2. CASE ~SweepFails
    BY <1>10, <2>2 DEF BrowsersFor, SweepFails, Post
  <2>3. QED
    BY <2>1, <2>2
<1>11. CASE Sweep
  <2>1. CASE SweepFails
    <3>1. worker \in {"targets", "sweep"} /\ Async /\ Remote /\ rows = <<>> /\ rows' = rows
      BY <1>11, <2>1 DEF Sweep, SweepFails, Post
    <3>2. PICK err \in {1, MaxComment} : Post("error", BodyRunError(inv.sha, err))
      BY <2>1, <3>1 DEF SweepFails
    <3>3. BodyRunError(inv.sha, err) \in 0..MaxComment
      BY BodiesFit
    <3>4. PICK d : comments' = Append(comments, d) /\ d.kind = "error" /\ d.pr = Int32(inv.pr)
      BY <3>1, <3>2, <3>3, Posts
    <3>5. PICK c : comments = <<c>> /\ Acknowledged(c)
      BY <3>1
    <3>6. comments' = <<c, d>>
      BY <3>4, <3>5, Appended, Zenon
    <3>7. Acknowledged(c)' /\ Closed(d)'
      BY <1>11, <3>1, <3>4, <3>5 DEF Sweep, SweepFails, Post
    <3>8. worker' = "done" /\ client' = client
      BY <1>11, <2>1, <3>1 DEF Sweep, SweepFails, Post
    <3>9. client # "flags"
      BY <3>1
    <3>10. QED
      BY <3>6, <3>7, <3>8, <3>9
  <2>2. CASE ~SweepFails
    BY <1>11, <2>2 DEF Sweep, SweepFails, Post
  <2>3. QED
    BY <2>1, <2>2
<1>12. CASE Bundle
  BY <1>12 DEF Bundle
<1>13. CASE Upload
  BY <1>13 DEF Upload
<1>14. CASE BadSweepFlags
  BY <1>14 DEF BadSweepFlags, Exit
<1>15. CASE SweepStarts
  BY <1>15 DEF SweepStarts
<1>16. CASE LocalSweep
  BY <1>16 DEF LocalSweep
<1>17. CASE LocalBundle
  BY <1>17 DEF LocalBundle
<1>18. CASE LocalReport
  BY <1>18 DEF LocalReport, Exit
<1>19. CASE LocalFails
  BY <1>19 DEF LocalFails, Exit
<1>20. CASE PostResult
  <2>1. worker = "post" /\ Async /\ client # "flags" /\ rows # <<>> /\ rows' = rows
    BY <1>20 DEF PostResult
  <2>2. rows \in Seq(Results)
    BY <2>1, RowsFacts DEF RowsAreTheMatrix, SweepIsChosen
  <2>3. BodyResult(RenderMarkdown(rows), inv.sha, url) \in 0..MaxComment
    BY <2>2, BodiesFit, MarkdownFacts
  <2>4. Post("result", BodyResult(RenderMarkdown(rows), inv.sha, url))
    BY <1>20 DEF PostResult
  <2>5. PICK d : comments' = Append(comments, d) /\ d.kind = "result" /\ d.pr = Int32(inv.pr)
    BY <2>1, <2>3, <2>4, Posts
  <2>6. PICK c : comments = <<c>> /\ Acknowledged(c)
    BY <2>1
  <2>7. comments' = <<c, d>>
    BY <2>5, <2>6, Appended, Zenon
  <2>8. Acknowledged(c)' /\ Closed(d)'
    BY <1>20, <2>1, <2>5, <2>6 DEF PostResult
  <2>9. worker' = "done" /\ client' = client
    BY <1>20 DEF PostResult
  <2>10. QED
    BY <2>1, <2>7, <2>8, <2>9
<1>21. CASE ProcMoves
  BY <1>21 DEF ProcMoves, Exit, Waiting
<1>22. CASE UNCHANGED vars
  BY <1>22 DEF vars
<1>23. QED
  BY <1>1, <1>2, <1>3, <1>4, <1>5, <1>6, <1>7, <1>8, <1>9, <1>10, <1>11, <1>12, <1>13, <1>14,
    <1>15, <1>16, <1>17, <1>18, <1>19, <1>20, <1>21, <1>22 DEF Next, RequestStep

\* A submit whose sweep has ended has its acknowledgement and its closing comment, on
\* the pull request it named, whatever the length of the report or of the error: capTo
\* leaves room for its note, and everything else was taken off before.
THEOREM SubmitsAreAnswered == Spec => []SubmitIsAnswered
<1>1. Init => ThreadFollows
  BY DEF Init, ThreadFollows
<1>2. IInv /\ ThreadFollows /\ [Next]_vars => ThreadFollows'
  BY ThreadStep
<1>3. ASSUME IInv, ThreadFollows PROVE SubmitIsAnswered
  <2> SUFFICES ASSUME Room, worker = "done" PROVE SubmitIsAnswered
    BY DEF SubmitIsAnswered, Room
  <2>1. PICK c, d : comments = <<c, d>> /\ Acknowledged(c) /\ Closed(d)
    BY <1>3 DEF ThreadFollows
  <2>2. /\ Len(comments) = 2 /\ comments[1] = c /\ comments[2] = d
        /\ \A i \in DOMAIN comments : comments[i] = c \/ comments[i] = d
    BY <2>1
  <2>3. IsInt32Of(Int32(inv.pr), inv.pr)
    <3>1. inv.pr \in Int
      BY <1>3, InvocationsAssumption DEF IInv, Stages
    <3>2. QED
      BY <3>1, Int32Wraps
  <2>4. QED
    BY <2>1, <2>2, <2>3 DEF SubmitIsAnswered, Acknowledged, Closed
<1>4. QED
  BY <1>1, <1>2, <1>3, InvariantHolds, PTL DEF Spec

-----------------------------------------------------------------------------
(* What is swept is what was typed *)

\* All places of a sequence are the sequence.
LEMMA AllPlaces ==
  ASSUME NEW S, NEW seq \in Seq(S)
  PROVE  At(seq, DOMAIN seq) = seq
<1>1. PICK n \in Nat : n = Len(seq) /\ DOMAIN seq = 1..n
  BY LenProperties
<1>2. PICK I \in SUBSET DOMAIN seq : I = 1..n
  BY <1>1
<1>3. Cardinality(I) = n
  BY <1>2, FS_Interval
<1>4. /\ At(seq, I) \in Seq(S) /\ Len(At(seq, I)) = n
      /\ Ascending(I) \in [1..n -> I]
      /\ \A k \in 1..n : At(seq, I)[k] = seq[Ascending(I)[k]]
  BY ONLY seq \in Seq(S), I \in SUBSET DOMAIN seq, <1>3, AtFacts
<1>5. ASSUME NEW i \in 1..n PROVE Cardinality({j \in I : j < i}) = i - 1
  <2>1. {j \in I : j < i} = 1..(i - 1)
    BY <1>2
  <2>2. Cardinality(1..(i - 1)) = i - 1
    BY FS_Interval
  <2>3. QED
    BY <2>1, <2>2
<1>6. ASSUME NEW k \in 1..n PROVE Ascending(I)[k] = k
  <2>1. Ascending(I)[k] = CHOOSE i \in I : Cardinality({j \in I : j < i}) = k - 1
    BY <1>3 DEF Ascending
  <2>2. \E i \in I : Cardinality({j \in I : j < i}) = k - 1
    BY <1>2, <1>5
  <2>3. PICK a \in I : a = Ascending(I)[k] /\ Cardinality({j \in I : j < a}) = k - 1
    BY <2>1, <2>2
  <2>4. a \in 1..n /\ a - 1 = k - 1
    BY <1>2, <1>5, <2>3
  <2>5. a = k
    BY <2>4
  <2>6. QED
    BY <2>3, <2>5
<1>7. PICK left : left = At(seq, I)
  OBVIOUS
<1>8. left \in Seq(S) /\ Len(left) = Len(seq) /\ \A k \in 1..Len(left) : left[k] = seq[k]
  BY <1>1, <1>4, <1>6, <1>7
<1>9. left = seq
  BY <1>8, SeqEqual
<1>10. QED
  BY <1>1, <1>2, <1>7, <1>9, Zenon

\* Where the fields that are left stood in their list.
Places(tags, csv, place) ==
  /\ place \in [1..Len(tags) -> {k \in DOMAIN csv : csv[k] # Blank}]
  /\ \A i, j \in 1..Len(tags) : i < j => place[i] < place[j]
  /\ \A k \in DOMAIN csv : csv[k] # Blank => \E i \in 1..Len(tags) : place[i] = k

LEMMA TypedPlaces ==
  ASSUME NEW csv \in Seq(Field)
  PROVE  \E place : /\ Places(Typed(csv), csv, place)
                    /\ \A i \in 1..Len(Typed(csv)) : Typed(csv)[i] = csv[place[i]]
<1> DEFINE I == {i \in DOMAIN csv : csv[i] # Blank}
<1>1. I \in SUBSET DOMAIN csv /\ Typed(csv) = At(csv, I)
  BY DEF Typed
<1>2. \A i \in DOMAIN csv : csv[i] # Blank => i \in I
  OBVIOUS
<1>3. PICK P : P = I
  OBVIOUS
<1>4. P = {k \in DOMAIN csv : csv[k] # Blank}
  BY <1>3
<1> HIDE DEF I
<1>5. PICK n \in Nat : n = Cardinality(I)
  BY <1>1, AtFacts
<1>6. /\ Len(Typed(csv)) = n
      /\ Ascending(I) \in [1..n -> I]
      /\ \A k \in 1..n : Typed(csv)[k] = csv[Ascending(I)[k]]
      /\ \A i, j \in 1..n : i < j => Ascending(I)[i] < Ascending(I)[j]
      /\ \A i \in I : \E k \in 1..n : Ascending(I)[k] = i
  BY <1>1, <1>5, AtFacts
<1>7. PICK place : place = Ascending(I)
  OBVIOUS
<1>8. place \in [1..Len(Typed(csv)) -> {k \in DOMAIN csv : csv[k] # Blank}]
  BY <1>3, <1>4, <1>6, <1>7, Zenon
<1>9. Places(Typed(csv), csv, place)
  BY <1>2, <1>6, <1>7, <1>8 DEF Places
<1>10. QED
  BY <1>6, <1>7, <1>9

\* Different places stand for different versions.
LEMMA PlacesDiffer ==
  ASSUME NEW csv \in Seq(Field), NEW tags \in Seq(Field), NEW place, Places(tags, csv, place)
  PROVE  \A i, j \in 1..Len(tags) : place[i] = place[j] => i = j
<1>1. /\ place \in [1..Len(tags) -> {k \in DOMAIN csv : csv[k] # Blank}]
      /\ \A i, j \in 1..Len(tags) : i < j => place[i] < place[j]
  BY DEF Places
<1>2. \A i \in 1..Len(tags) : place[i] \in Nat
  <2>1. \A k \in DOMAIN csv : k \in Nat
    BY LenProperties
  <2>2. QED
    BY <1>1, <2>1
<1>3. QED
  BY <1>1, <1>2

\* The versions of a target are the fields of a list, without blanks and in their order,
\* and each stands for one of them only.
FromList(tags, csv, place) ==
  /\ Places(tags, csv, place)
  /\ \A i \in 1..Len(tags) : \A k \in DOMAIN csv :
       csv[k] # Blank => (StandsFor(tags[i], csv[k]) <=> k = place[i])

\* chrome-sweep's lists.
LEMMA FlagsFromList ==
  ASSUME ~Remote, NEW csv \in Seq(Field), ParseVersions(csv) # Bad
  PROVE  \E place : FromList(ParseVersions(csv), csv, place)
<1>1. PICK t \in Seq(Field) : t = Typed(csv)
  BY TypedFacts
<1>2. ParseVersions(csv) = t /\ IsInjective(t)
  BY <1>1, ParsedFacts
<1>3. PICK place : /\ Places(t, csv, place)
                   /\ \A i \in 1..Len(t) : t[i] = csv[place[i]]
  <2>1. PICK place : /\ Places(Typed(csv), csv, place)
                     /\ \A i \in 1..Len(Typed(csv)) : Typed(csv)[i] = csv[place[i]]
    BY TypedPlaces
  <2>2. QED
    BY <1>1, <2>1
<1>4. ASSUME NEW i \in 1..Len(t), NEW k \in DOMAIN csv, csv[k] # Blank
      PROVE  StandsFor(t[i], csv[k]) <=> k = place[i]
  <2>1. PICK j \in 1..Len(t) : place[j] = k
    BY <1>3, <1>4 DEF Places
  <2>2. t[j] = csv[k] /\ t[i] = csv[place[i]]
    BY <1>3, <2>1
  <2>3. t[i] = t[j] => i = j
    <3>1. i \in DOMAIN t /\ j \in DOMAIN t
      BY LenProperties
    <3>2. QED
      BY <1>2, <3>1 DEF IsInjective
  <2>4. StandsFor(t[i], csv[k]) <=> t[i] = csv[k]
    BY DEF StandsFor
  <2>5. t[i] = csv[k] => k = place[i]
    BY <2>1, <2>2, <2>3
  <2>6. k = place[i] => t[i] = csv[k]
    BY <2>2
  <2>7. QED
    BY <2>4, <2>5, <2>6
<1>5. FromList(t, csv, place)
  BY <1>3, <1>4 DEF FromList
<1>6. QED
  BY <1>2, <1>5

\* What was typed has nothing that is skipped.
LEMMA TypedAgain ==
  ASSUME NEW csv \in Seq(Field), \A i \in DOMAIN csv : csv[i] # Blank
  PROVE  Typed(csv) = csv
<1>1. {i \in DOMAIN csv : csv[i] # Blank} = DOMAIN csv
  OBVIOUS
<1>2. QED
  BY <1>1, AllPlaces, Zenon DEF Typed

\* The lists of gubalctl arrive in the order they were typed in, every number as an int32.
LEMMA ArrivesAsTyped ==
  ASSUME NEW csv \in Seq(Field), ParseMajors(csv) # Bad, ParseInts(ParseMajors(csv)) # Bad
  PROVE  /\ ParseInts(ParseMajors(csv)) \in Seq(Field)
         /\ IsInjective(ParseInts(ParseMajors(csv)))
         /\ Len(ParseInts(ParseMajors(csv))) = Len(Typed(csv))
         /\ \A i \in 1..Len(Typed(csv)) :
              ParseInts(ParseMajors(csv))[i] = Number(Int32(Typed(csv)[i].n))
<1>1. PICK t \in Seq(Field) : t = Typed(csv)
  BY TypedFacts
<1>2. PICK n \in Nat : n = Len(t) /\ DOMAIN t = 1..n
  BY LenProperties
<1>3. PICK vs \in Seq(Int) : vs = ParseMajors(csv)
  BY MajorsFacts
<1>4. vs = [i \in 1..n |-> Int32(t[i].n)]
  BY <1>1, <1>2, <1>3 DEF ParseMajors
<1>5. \A i \in 1..n : vs[i] \in Int
  <2>1. Len(vs) = n
    BY <1>4
  <2>2. QED
    BY <1>3, <2>1, ElementOfSeq
<1>6. PICK fields : fields = [i \in 1..n |-> Number(vs[i])]
  OBVIOUS
<1>7. /\ fields \in Seq(Field) /\ Len(fields) = n /\ DOMAIN fields = 1..n
      /\ \A i \in 1..n : fields[i] = Number(Int32(t[i].n)) /\ fields[i] # Blank
  <2>1. \A i \in 1..n : Number(vs[i]) \in Field /\ Number(vs[i]) # Blank
    BY <1>5 DEF Number, Field, Blank
  <2>2. fields \in [1..n -> Field]
    BY <1>6, <2>1
  <2>3. \A i \in 1..n : fields[i] = Number(Int32(t[i].n)) /\ fields[i] # Blank
    BY <1>4, <1>6, <2>1
  <2>4. QED
    BY <2>2, <2>3
<1>8. Typed(fields) = fields
  BY <1>7, TypedAgain
<1>9. ParseInts(vs) \in Seq(Field) /\ IsInjective(ParseInts(vs)) /\ ParseInts(vs) = fields
  <2>1. DOMAIN vs = 1..n
    BY <1>4
  <2>2. [i \in DOMAIN vs |-> Number(vs[i])] = fields
    BY <1>6, <2>1, Zenon
  <2>3. /\ ParseInts(vs) \in Seq(Field) /\ IsInjective(ParseInts(vs))
        /\ ParseInts(vs) = Typed([i \in DOMAIN vs |-> Number(vs[i])])
    BY <1>3, IntsFacts
  <2>4. QED
    BY <1>8, <2>2, <2>3, Zenon
<1>10. QED
  BY <1>1, <1>2, <1>3, <1>7, <1>9

LEMMA SentFromList ==
  ASSUME Remote, NEW csv \in Seq(Field),
         ParseMajors(csv) # Bad, ParseInts(ParseMajors(csv)) # Bad
  PROVE  \E place : FromList(ParseInts(ParseMajors(csv)), csv, place)
<1>1. PICK t \in Seq(Field) : t = Typed(csv)
  BY TypedFacts
<1>2. PICK tags \in Seq(Field) :
        /\ tags = ParseInts(ParseMajors(csv)) /\ IsInjective(tags) /\ Len(tags) = Len(t)
        /\ \A i \in 1..Len(t) : tags[i] = Number(Int32(t[i].n))
  BY <1>1, ArrivesAsTyped
<1>3. PICK place : /\ Places(t, csv, place)
                   /\ \A i \in 1..Len(t) : t[i] = csv[place[i]]
  <2>1. PICK place : /\ Places(Typed(csv), csv, place)
                     /\ \A i \in 1..Len(Typed(csv)) : Typed(csv)[i] = csv[place[i]]
    BY TypedPlaces
  <2>2. QED
    BY <1>1, <2>1
<1>4. Places(tags, csv, place)
  BY <1>2, <1>3 DEF Places
<1>5. ASSUME NEW k \in DOMAIN csv PROVE csv[k].n \in Int
  <2>1. csv[k] \in Field
    BY LenProperties, ElementOfSeq
  <2>2. QED
    BY <2>1 DEF Field
<1>6. ASSUME NEW i \in 1..Len(tags)
      PROVE  /\ place[i] \in DOMAIN csv /\ tags[i].kind = "number"
             /\ IsInt32Of(tags[i].n, csv[place[i]].n) /\ tags[i] = Number(tags[i].n)
  <2>1. place[i] \in DOMAIN csv
    BY <1>4 DEF Places
  <2>2. t[i] = csv[place[i]] /\ tags[i] = Number(Int32(t[i].n))
    BY <1>2, <1>3
  <2>3. PICK v \in Int : v = csv[place[i]].n
    BY <1>5, <2>1
  <2>4. tags[i] = [kind |-> "number", n |-> Int32(v)]
    BY <2>2, <2>3 DEF Number
  <2>5. tags[i].kind = "number" /\ tags[i].n = Int32(v)
    BY <2>4
  <2>6. IsInt32Of(tags[i].n, v)
    BY <2>5, Int32Wraps
  <2>7. tags[i] = Number(tags[i].n)
    BY <2>4, <2>5 DEF Number
  <2>8. QED
    BY <2>1, <2>3, <2>5, <2>6, <2>7
<1>7. ASSUME NEW i \in 1..Len(tags), NEW k \in DOMAIN csv, csv[k] # Blank
      PROVE  StandsFor(tags[i], csv[k]) <=> k = place[i]
  <2>1. StandsFor(tags[i], csv[k]) <=> IsInt32Of(tags[i].n, csv[k].n)
    BY <1>6 DEF StandsFor
  <2>2. k = place[i] => IsInt32Of(tags[i].n, csv[k].n)
    BY <1>6
  <2>3. ASSUME IsInt32Of(tags[i].n, csv[k].n) PROVE k = place[i]
    <3>1. PICK j \in 1..Len(tags) : place[j] = k
      BY <1>4, <1>7 DEF Places
    <3>2. IsInt32Of(tags[j].n, csv[k].n)
      BY <1>6, <3>1
    <3>3. tags[i].n = tags[j].n
      BY <1>5, <2>3, <3>2, Int32Wraps
    <3>4. tags[i] = tags[j]
      BY <1>6, <3>3
    <3>5. i = j
      <4>1. i \in DOMAIN tags /\ j \in DOMAIN tags
        BY LenProperties
      <4>2. QED
        BY <1>2, <3>4, <4>1 DEF IsInjective
    <3>6. QED
      BY <3>1, <3>5
  <2>4. QED
    BY <2>1, <2>2, <2>3
<1>8. FromList(tags, csv, place)
  BY <1>4, <1>7 DEF FromList
<1>9. QED
  BY <1>2, <1>8

\* The targets are the lists, Chrome's first, and a browser is left out only if its list
\* has no version.
AsTyped(ts) ==
  /\ \A t \in DOMAIN ts : \E place : FromList(ts[t].tags, Csv(ts[t].b.name), place)
  /\ \A t, u \in DOMAIN ts : ts[t].b = ChromeBrowser /\ ts[u].b = FirefoxBrowser => t < u
  /\ \A b \in {"chrome", "firefox"} : \A k \in DOMAIN Csv(b) :
       Csv(b)[k] # Blank => \E t \in DOMAIN ts : ts[t].b.name = b

\* chrome-sweep's targets.
LEMMA FlagsAsTyped ==
  ASSUME ~Remote, inv.chrome \in Seq(Field), inv.firefox \in Seq(Field),
         NEW ts, ts = BrowsersFromFlags(inv.chrome, inv.firefox), ts # Bad
  PROVE  AsTyped(ts)
<1> DEFINE c == ParseVersions(inv.chrome)
           f == ParseVersions(inv.firefox)
           all == Targets(c, f)
           I == {k \in DOMAIN all : all[k].tags # Bad}
<1>1. c \in Seq(Field) /\ f \in Seq(Field)
  BY ParsedFacts
<1>2. ts = At(all, I)
  BY DEF BrowsersFromFlags, Bad
<1>3. /\ c # Bad => \E place : FromList(c, inv.chrome, place)
      /\ f # Bad => \E place : FromList(f, inv.firefox, place)
  BY FlagsFromList
<1>4. /\ c = Bad => inv.chrome = <<Blank>>
      /\ f = Bad => inv.firefox = <<Blank>>
  BY DEF BrowsersFromFlags
<1>5. Csv("chrome") = inv.chrome /\ Csv("firefox") = inv.firefox
  BY DEF Csv
<1> HIDE DEF c, f
<1>6. /\ all \in Seq(Target) /\ Len(all) = 2
      /\ all[1] = [b |-> ChromeBrowser, tags |-> c]
      /\ all[2] = [b |-> FirefoxBrowser, tags |-> f]
  BY <1>1, BothTargets
<1> HIDE DEF all
<1>7. DOMAIN all = {1, 2}
  BY <1>6
<1>8. /\ I \in SUBSET DOMAIN all
      /\ \A k \in I : all[k].tags # Bad
      /\ \A k \in {1, 2} : all[k].tags # Bad => k \in I
  BY <1>7
<1> HIDE DEF I
<1>9. PICK n \in Nat : n = Cardinality(I)
  BY <1>6, <1>8, AtFacts
<1>10. /\ ts \in Seq(Target) /\ Len(ts) = n
       /\ Ascending(I) \in [1..n -> I]
       /\ \A k \in 1..n : ts[k] = all[Ascending(I)[k]]
       /\ \A i, j \in 1..n : i < j => Ascending(I)[i] < Ascending(I)[j]
       /\ \A i \in I : \E k \in 1..n : Ascending(I)[k] = i
  <2>1. all \in Seq(Target) /\ I \in SUBSET DOMAIN all
    BY <1>6, <1>8
  <2>2. QED
    BY ONLY <1>2, <1>9, <2>1, AtFacts
<1>11. DOMAIN ts = 1..n
  BY <1>10, LenProperties
<1>12. ASSUME NEW t \in 1..n
       PROVE  /\ \E place : FromList(ts[t].tags, Csv(ts[t].b.name), place)
              /\ ts[t].b = ChromeBrowser <=> Ascending(I)[t] = 1
              /\ ts[t].b = FirefoxBrowser <=> Ascending(I)[t] = 2
  <2>1. PICK k \in I : k = Ascending(I)[t] /\ ts[t] = all[k]
    BY <1>10
  <2>2. k \in {1, 2} /\ all[k].tags # Bad
    BY <1>7, <1>8
  <2>3. CASE k = 1
    <3>1. ts[t].b = ChromeBrowser /\ ts[t].tags = c
      BY <1>6, <2>1, <2>3
    <3>2. Csv(ts[t].b.name) = inv.chrome
      BY <1>5, <3>1, BrowsersDiffer
    <3>3. \E place : FromList(c, inv.chrome, place)
      BY <1>3, <1>6, <2>2, <2>3
    <3>4. QED
      BY <2>1, <2>3, <3>1, <3>2, <3>3, BrowsersDiffer
  <2>4. CASE k = 2
    <3>1. ts[t].b = FirefoxBrowser /\ ts[t].tags = f
      BY <1>6, <2>1, <2>4
    <3>2. Csv(ts[t].b.name) = inv.firefox
      BY <1>5, <3>1, BrowsersDiffer
    <3>3. \E place : FromList(f, inv.firefox, place)
      BY <1>3, <1>6, <2>2, <2>4
    <3>4. QED
      BY <2>1, <2>4, <3>1, <3>2, <3>3, BrowsersDiffer
  <2>5. QED
    BY <2>2, <2>3, <2>4
<1>13. ASSUME NEW t \in 1..n, NEW u \in 1..n, ts[t].b = ChromeBrowser, ts[u].b = FirefoxBrowser
       PROVE  t < u
  <2>1. Ascending(I)[t] = 1 /\ Ascending(I)[u] = 2
    BY <1>12, <1>13
  <2>2. ~(u < t) /\ u # t
    BY <1>10, <2>1
  <2>3. QED
    BY <2>2
<1>14. ASSUME NEW k \in DOMAIN inv.chrome, inv.chrome[k] # Blank
       PROVE  \E t \in 1..n : ts[t].b.name = "chrome"
  <2>1. c # Bad
    BY <1>4, <1>14
  <2>2. 1 \in I
    BY <1>6, <1>8, <2>1
  <2>3. PICK t \in 1..n : ts[t] = all[1]
    BY <1>10, <2>2
  <2>4. ts[t].b = ChromeBrowser
    BY <1>6, <2>3
  <2>5. QED
    BY <2>4, BrowsersDiffer
<1>15. ASSUME NEW k \in DOMAIN inv.firefox, inv.firefox[k] # Blank
       PROVE  \E t \in 1..n : ts[t].b.name = "firefox"
  <2>1. f # Bad
    BY <1>4, <1>15
  <2>2. 2 \in I
    BY <1>6, <1>8, <2>1
  <2>3. PICK t \in 1..n : ts[t] = all[2]
    BY <1>10, <2>2
  <2>4. ts[t].b = FirefoxBrowser
    BY <1>6, <2>3
  <2>5. QED
    BY <2>4, BrowsersDiffer
<1>16. QED
  BY <1>5, <1>11, <1>12, <1>13, <1>14, <1>15 DEF AsTyped

\* The targets of every sweep.
LEMMA ChosenAsTyped ==
  ASSUME inv \in Invocations, Chosen, Remote => SentRequest
  PROVE  AsTyped(targets)
<1>1. inv.chrome \in Seq(Field) /\ inv.firefox \in Seq(Field)
  BY InvocationsAssumption
<1>2. CASE Remote
  <2>1. PICK c : c = ParseInts(ParseMajors(inv.chrome))
    OBVIOUS
  <2>2. PICK f : f = ParseInts(ParseMajors(inv.firefox))
    OBVIOUS
  <2>3. c # Bad /\ f # Bad /\ targets = Targets(c, f)
    BY <1>2, <2>1, <2>2 DEF Chosen
  <2>4. ParseMajors(inv.chrome) # Bad /\ ParseMajors(inv.firefox) # Bad
    BY <1>2 DEF SentRequest
  <2>5. PICK inChrome : FromList(c, inv.chrome, inChrome)
    BY <1>1, <1>2, <2>1, <2>3, <2>4, SentFromList
  <2>6. PICK inFirefox : FromList(f, inv.firefox, inFirefox)
    BY <1>1, <1>2, <2>2, <2>3, <2>4, SentFromList
  <2>7. c \in Seq(Field) /\ f \in Seq(Field)
    BY <1>1, <2>1, <2>2, MajorsFacts, IntsFacts
  <2>8. /\ targets \in Seq(Target) /\ Len(targets) = 2
        /\ targets[1] = [b |-> ChromeBrowser, tags |-> c]
        /\ targets[2] = [b |-> FirefoxBrowser, tags |-> f]
    BY <2>3, <2>7, BothTargets
  <2>9. DOMAIN targets = {1, 2}
    BY <2>8
  <2>10. Csv("chrome") = inv.chrome /\ Csv("firefox") = inv.firefox
    BY DEF Csv
  <2>11. \A t \in DOMAIN targets : \E place :
           FromList(targets[t].tags, Csv(targets[t].b.name), place)
    <3>1. ASSUME NEW t \in {1, 2}
          PROVE  \E place : FromList(targets[t].tags, Csv(targets[t].b.name), place)
      <4>1. CASE t = 1
        <5>1. targets[t].tags = c /\ Csv(targets[t].b.name) = inv.chrome
          BY <2>8, <2>10, <4>1, BrowsersDiffer
        <5>2. QED
          BY <2>5, <5>1
      <4>2. CASE t = 2
        <5>1. targets[t].tags = f /\ Csv(targets[t].b.name) = inv.firefox
          BY <2>8, <2>10, <4>2, BrowsersDiffer
        <5>2. QED
          BY <2>6, <5>1
      <4>3. QED
        BY <4>1, <4>2
    <3>2. QED
      BY <2>9, <3>1
  <2>12. /\ \A t, u \in DOMAIN targets :
              targets[t].b = ChromeBrowser /\ targets[u].b = FirefoxBrowser => t < u
         /\ \A b \in {"chrome", "firefox"} : \E t \in DOMAIN targets : targets[t].b.name = b
    BY <2>8, <2>9, BrowsersDiffer
  <2>13. QED
    BY <2>11, <2>12 DEF AsTyped
<1>3. CASE ~Remote
  <2>1. targets = BrowsersFromFlags(inv.chrome, inv.firefox) /\ targets # Bad
    BY <1>3 DEF Chosen
  <2>2. QED
    BY <1>1, <1>3, <2>1, FlagsAsTyped
<1>4. QED
  BY <1>2, <1>3

\* A row tells its place in the matrix.
LEMMA RowTells ==
  ASSUME NEW key \in Keys, NEW o, NEW r, r = ResultOf(key, o)
  PROVE  key = <<r.policy, r.browser, r.tag>>
<1>1. PICK a, b, c : key = <<a, b, c>>
  BY DEF Keys
<1>2. r.policy = key[1] /\ r.browser = key[2] /\ r.tag = key[3]
  BY DEF ResultOf
<1>3. key[1] = a /\ key[2] = b /\ key[3] = c
  BY <1>1
<1>4. QED
  BY <1>1, <1>2, <1>3, Zenon

\* Where the versions of a target stood in their list.
PlaceOf(t) == CHOOSE place : FromList(targets[t].tags, Csv(targets[t].b.name), place)

\* A row of the matrix, and what it was asked for by.
Cell(p, t, i) == <<policies[p].name, targets[t].b.name, targets[t].tags[i]>>
Asked(w, p, t, i) ==
  /\ p \in DOMAIN policies /\ t \in DOMAIN targets /\ i \in DOMAIN targets[t].tags
  /\ w = <<policies[p], targets[t].b.name, PlaceOf(t)[i]>>

\* The choice of policies and targets, in one place.
Swept ==
  /\ inv \in Invocations /\ TargetsOk(targets) /\ PoliciesOk(policies, Yaml(inv.dir))
  /\ AsTyped(targets)

\* What is known of a target.
LEMMA TargetFacts ==
  ASSUME Swept, NEW t \in DOMAIN targets
  PROVE  /\ t \in Nat /\ targets[t].b \in Browsers
         /\ targets[t].b.name \in {"chrome", "firefox"}
         /\ targets[t].tags \in Seq(Field)
         /\ DOMAIN targets[t].tags = 1..Len(targets[t].tags)
         /\ FromList(targets[t].tags, Csv(targets[t].b.name), PlaceOf(t))
         /\ PlaceOf(t) \in [DOMAIN targets[t].tags -> Nat]
         /\ Csv(targets[t].b.name) \in Seq(Field)
<1>1. targets \in Seq(Target)
  BY DEF Swept, TargetsOk
<1>2. targets[t] \in Target /\ t \in Nat
  BY <1>1, LenProperties, ElementOfSeq
<1>3. targets[t].b \in Browsers /\ targets[t].tags \in Seq(Field)
  BY <1>2 DEF Target
<1>4. targets[t].b.name \in {"chrome", "firefox"}
  BY <1>3, BrowsersDiffer DEF Browsers
<1>5. FromList(targets[t].tags, Csv(targets[t].b.name), PlaceOf(t))
  <2>1. \E place : FromList(targets[t].tags, Csv(targets[t].b.name), place)
    BY DEF Swept, AsTyped
  <2>2. QED
    BY <2>1, Zenon DEF PlaceOf
<1>6. Csv(targets[t].b.name) \in Seq(Field)
  <2>1. inv.chrome \in Seq(Field) /\ inv.firefox \in Seq(Field)
    BY InvocationsAssumption DEF Swept
  <2>2. QED
    BY <2>1 DEF Csv
<1>7. DOMAIN targets[t].tags = 1..Len(targets[t].tags)
  BY <1>3, LenProperties
<1>8. PlaceOf(t) \in [DOMAIN targets[t].tags -> Nat]
  <2>1. PICK csv \in Seq(Field) : csv = Csv(targets[t].b.name)
    BY <1>6
  <2>2. PlaceOf(t) \in [1..Len(targets[t].tags) -> {k \in DOMAIN csv : csv[k] # Blank}]
    BY <1>5, <2>1 DEF FromList, Places
  <2>3. {k \in DOMAIN csv : csv[k] # Blank} \subseteq Nat
    BY LenProperties
  <2>4. QED
    BY <1>7, <2>2, <2>3
<1>9. QED
  BY <1>2, <1>3, <1>4, <1>5, <1>6, <1>7, <1>8

\* What is asked for is what is wanted.
LEMMA AskedIsWanted ==
  ASSUME Swept
  PROVE  /\ \A w, p, t, i : Asked(w, p, t, i) => w \in Wanted
         /\ \A w \in Wanted : \E p, t, i : Asked(w, p, t, i)
<1>1. \A p \in DOMAIN policies : policies[p] \in Yaml(inv.dir)
  <2>1. policies \in Seq(Yaml(inv.dir))
    BY DEF Swept, PoliciesOk
  <2>2. QED
    BY <2>1, LenProperties, ElementOfSeq
<1>2. \A b \in {"chrome", "firefox"} :
        DOMAIN Csv(b) \subseteq DOMAIN inv.chrome \cup DOMAIN inv.firefox
  BY DEF Csv
<1>3. ASSUME NEW w, NEW p, NEW t, NEW i, Asked(w, p, t, i) PROVE w \in Wanted
  <2>1. /\ p \in DOMAIN policies /\ t \in DOMAIN targets /\ i \in DOMAIN targets[t].tags
        /\ w = <<policies[p], targets[t].b.name, PlaceOf(t)[i]>>
    BY <1>3 DEF Asked
  <2>2. PICK b \in {"chrome", "firefox"} : b = targets[t].b.name
    BY <2>1, TargetFacts
  <2>3. PICK k : k = PlaceOf(t)[i]
    OBVIOUS
  <2>4. k \in DOMAIN Csv(b) /\ Csv(b)[k] # Blank
    <3>1. /\ FromList(targets[t].tags, Csv(b), PlaceOf(t))
          /\ i \in 1..Len(targets[t].tags)
      BY <2>1, <2>2, TargetFacts
    <3>2. PlaceOf(t) \in [1..Len(targets[t].tags) -> {z \in DOMAIN Csv(b) : Csv(b)[z] # Blank}]
      BY <3>1 DEF FromList, Places
    <3>3. QED
      BY <2>3, <3>1, <3>2
  <2>5. PICK e \in Yaml(inv.dir) : e = policies[p]
    BY <1>1, <2>1
  <2>6. w = <<e, b, k>>
    BY <2>1, <2>2, <2>3, <2>5, Zenon
  <2>7. /\ w \in Yaml(inv.dir) \X {"chrome", "firefox"}
                   \X (DOMAIN inv.chrome \cup DOMAIN inv.firefox)
        /\ w[2] = b /\ w[3] = k
    BY <1>2, <2>4, <2>6
  <2>8. w[3] \in DOMAIN Csv(w[2]) /\ Csv(w[2])[w[3]] # Blank
    BY <2>4, <2>7
  <2>9. QED
    BY <2>7, <2>8, Zenon DEF Wanted
<1>4. ASSUME NEW w \in Wanted PROVE \E p, t, i : Asked(w, p, t, i)
  <2>1. /\ w \in Yaml(inv.dir) \X {"chrome", "firefox"}
                   \X (DOMAIN inv.chrome \cup DOMAIN inv.firefox)
        /\ w[3] \in DOMAIN Csv(w[2]) /\ Csv(w[2])[w[3]] # Blank
    BY DEF Wanted
  <2>2. PICK e \in Yaml(inv.dir), b \in {"chrome", "firefox"},
             k \in DOMAIN inv.chrome \cup DOMAIN inv.firefox : w = <<e, b, k>>
    BY <2>1
  <2>3. w[2] = b /\ w[3] = k
    BY <2>2
  <2>4. k \in DOMAIN Csv(b) /\ Csv(b)[k] # Blank
    BY <2>1, <2>3, Zenon
  <2>5. PICK p \in DOMAIN policies : policies[p] = e
    BY DEF Swept, PoliciesOk
  <2>6. PICK t \in DOMAIN targets : targets[t].b.name = b
    BY <2>4 DEF Swept, AsTyped
  <2>7. FromList(targets[t].tags, Csv(b), PlaceOf(t))
    BY <2>6, TargetFacts
  <2>8. PICK i \in 1..Len(targets[t].tags) : PlaceOf(t)[i] = k
    BY <2>4, <2>7 DEF FromList, Places
  <2>9. i \in DOMAIN targets[t].tags
    BY <2>8, TargetFacts
  <2>10. w = <<policies[p], targets[t].b.name, PlaceOf(t)[i]>>
    BY <2>2, <2>5, <2>6, <2>8, Zenon
  <2>11. Asked(w, p, t, i)
    BY <2>5, <2>6, <2>9, <2>10, Zenon DEF Asked
  <2>12. QED
    BY <2>11
<1>5. QED
  BY <1>3, <1>4, Zenon

\* A row is the one of what was asked for, and of nothing else.
LEMMA RowOfAsked ==
  ASSUME Swept, NEW w, NEW p, NEW t, NEW i, Asked(w, p, t, i),
         NEW q \in DOMAIN policies, NEW u \in DOMAIN targets, NEW j \in DOMAIN targets[u].tags,
         NEW row, <<row.policy, row.browser, row.tag>> = Cell(q, u, j)
  PROVE  IsRowOf(row, w) <=> p = q /\ t = u /\ i = j
<1>1. /\ p \in DOMAIN policies /\ t \in DOMAIN targets /\ i \in DOMAIN targets[t].tags
      /\ w = <<policies[p], targets[t].b.name, PlaceOf(t)[i]>>
  BY DEF Asked
<1>2. PICK e, b, k : e = policies[p] /\ b = targets[t].b.name /\ k = PlaceOf(t)[i]
  OBVIOUS
<1>3. w = <<e, b, k>>
  BY <1>1, <1>2, Zenon
<1>4. w[1] = e /\ w[2] = b /\ w[3] = k
  BY <1>3
<1>5. row.policy = policies[q].name /\ row.browser = targets[u].b.name
      /\ row.tag = targets[u].tags[j]
  <2>1. <<row.policy, row.browser, row.tag>>
          = <<policies[q].name, targets[u].b.name, targets[u].tags[j]>>
    BY DEF Cell
  <2>2. QED
    BY ONLY <2>1, TripleEqual, Zenon
<1>6. IsRowOf(row, w) <=> /\ policies[q].name = policies[p].name
                          /\ targets[u].b.name = b
                          /\ StandsFor(targets[u].tags[j], Csv(b)[k])
  BY <1>2, <1>4, <1>5, Zenon DEF IsRowOf
<1>7. policies[q].name = policies[p].name <=> p = q
  BY <1>1 DEF Swept, PoliciesOk
<1>8. targets[u].b.name = b <=> t = u
  <2>1. targets[t].b \in Browsers /\ targets[u].b \in Browsers
    BY <1>1, TargetFacts
  <2>2. targets[u].b.name = targets[t].b.name => targets[u].b = targets[t].b
    BY <2>1, BrowsersDiffer DEF Browsers
  <2>3. targets[u].b = targets[t].b => u = t
    BY <1>1 DEF Swept, TargetsOk
  <2>4. QED
    BY <1>2, <2>2, <2>3
<1>9. ASSUME t = u PROVE StandsFor(targets[u].tags[j], Csv(b)[k]) <=> i = j
  <2>1. PICK tags \in Seq(Field) : tags = targets[t].tags
    BY <1>1, TargetFacts
  <2>2. PICK csv \in Seq(Field) : csv = Csv(b)
    BY <1>1, <1>2, TargetFacts
  <2>3. PICK place : place = PlaceOf(t)
    OBVIOUS
  <2>4. FromList(tags, csv, place) /\ i \in 1..Len(tags) /\ j \in 1..Len(tags)
    BY <1>1, <1>2, <1>9, <2>1, <2>2, <2>3, TargetFacts
  <2>5. k = place[i] /\ k \in DOMAIN csv /\ csv[k] # Blank
    BY <1>2, <2>3, <2>4 DEF FromList, Places
  <2>6. StandsFor(tags[j], csv[k]) <=> place[i] = place[j]
    BY <2>4, <2>5 DEF FromList
  <2>7. place[i] = place[j] <=> i = j
    BY <2>4, PlacesDiffer DEF FromList
  <2>8. QED
    BY <1>9, <2>1, <2>2, <2>6, <2>7
<1>10. QED
  BY <1>6, <1>7, <1>8, <1>9

\* First by policy, then by browser, then by place.
LEMMA AskedInOrder ==
  ASSUME Swept, NEW v, NEW p, NEW t, NEW i, Asked(v, p, t, i),
         NEW w, NEW q, NEW u, NEW j, Asked(w, q, u, j)
  PROVE  /\ p \in Nat /\ q \in Nat /\ t \in Nat /\ u \in Nat /\ i \in Nat /\ j \in Nat
         /\ Before(v, w) <=> p < q \/ (p = q /\ (t < u \/ (t = u /\ i < j)))
<1>1. /\ p \in DOMAIN policies /\ t \in DOMAIN targets /\ i \in DOMAIN targets[t].tags
      /\ q \in DOMAIN policies /\ u \in DOMAIN targets /\ j \in DOMAIN targets[u].tags
      /\ v = <<policies[p], targets[t].b.name, PlaceOf(t)[i]>>
      /\ w = <<policies[q], targets[u].b.name, PlaceOf(u)[j]>>
  BY DEF Asked
<1>2. PICK e, b, k : e = policies[p] /\ b = targets[t].b.name /\ k = PlaceOf(t)[i]
  OBVIOUS
<1>3. PICK f, c, l : f = policies[q] /\ c = targets[u].b.name /\ l = PlaceOf(u)[j]
  OBVIOUS
<1>4. v = <<e, b, k>> /\ w = <<f, c, l>>
  BY <1>1, <1>2, <1>3, Zenon
<1>5. v[1] = e /\ v[2] = b /\ v[3] = k /\ w[1] = f /\ w[2] = c /\ w[3] = l
  BY <1>4
<1>6. p \in Nat /\ q \in Nat
  <2>1. policies \in Seq(Yaml(inv.dir))
    BY DEF Swept, PoliciesOk
  <2>2. QED
    BY <1>1, <2>1, LenProperties
<1>7. t \in Nat /\ u \in Nat /\ i \in Nat /\ j \in Nat
  BY <1>1, TargetFacts
<1>8. (e.rank < f.rank <=> p < q) /\ (e = f <=> p = q)
  <2>1. e \in Yaml(inv.dir) /\ f \in Yaml(inv.dir)
    <3>1. policies \in Seq(Yaml(inv.dir))
      BY DEF Swept, PoliciesOk
    <3>2. QED
      BY <1>1, <1>2, <1>3, <3>1, LenProperties, ElementOfSeq
  <2>2. e.rank \in Int /\ f.rank \in Int
    BY <2>1 DEF Swept, PoliciesOk
  <2>3. (p < q => e.rank < f.rank) /\ (q < p => f.rank < e.rank)
    BY <1>1, <1>2, <1>3 DEF Swept, PoliciesOk
  <2>4. p = q => e = f
    BY <1>2, <1>3
  <2>5. e = f => e.rank = f.rank
    OBVIOUS
  <2>6. PICK x, y \in Int : x = e.rank /\ y = f.rank
    BY <2>2
  <2>7. (x < y <=> p < q) /\ (x = y <=> p = q)
    BY <1>6, <2>3, <2>4, <2>5, <2>6
  <2>8. QED
    BY <2>4, <2>5, <2>6, <2>7
<1>9. (b = "chrome" /\ c = "firefox") <=> t < u
  <2>1. /\ targets[t].b \in Browsers /\ targets[u].b \in Browsers
        /\ targets[t].b = targets[u].b => t = u
        /\ targets[t].b = ChromeBrowser /\ targets[u].b = FirefoxBrowser => t < u
        /\ targets[u].b = ChromeBrowser /\ targets[t].b = FirefoxBrowser => u < t
    BY <1>1, TargetFacts DEF Swept, TargetsOk, AsTyped
  <2>2. CASE targets[t].b = ChromeBrowser /\ targets[u].b = FirefoxBrowser
    BY <1>2, <1>3, <2>1, <2>2, BrowsersDiffer
  <2>3. CASE targets[u].b = ChromeBrowser /\ targets[t].b = FirefoxBrowser
    <3>1. b = "firefox" /\ u < t
      BY <1>2, <2>1, <2>3, BrowsersDiffer
    <3>2. QED
      BY <1>7, <3>1
  <2>4. CASE targets[t].b = targets[u].b
    <3>1. b = c /\ t = u
      BY <1>2, <1>3, <2>1, <2>4
    <3>2. QED
      BY <1>7, <3>1
  <2>5. QED
    BY <2>1, <2>2, <2>3, <2>4 DEF Browsers
<1>10. b = c <=> t = u
  <2>1. targets[t].b \in Browsers /\ targets[u].b \in Browsers
    BY <1>1, TargetFacts
  <2>2. b = c => targets[t].b = targets[u].b
    BY <1>2, <1>3, <2>1, BrowsersDiffer DEF Browsers
  <2>3. targets[t].b = targets[u].b => t = u
    BY <1>1 DEF Swept, TargetsOk
  <2>4. QED
    BY <1>2, <1>3, <2>2, <2>3
<1>11. ASSUME t = u PROVE k < l <=> i < j
  <2>1. PICK place : place = PlaceOf(t)
    OBVIOUS
  <2>2. place[i] \in Nat /\ place[j] \in Nat
    BY <1>1, <1>11, <2>1, TargetFacts
  <2>3. (i < j => place[i] < place[j]) /\ (j < i => place[j] < place[i])
    <3>1. FromList(targets[t].tags, Csv(b), place)
      BY <1>1, <1>2, <2>1, TargetFacts
    <3>2. i \in 1..Len(targets[t].tags) /\ j \in 1..Len(targets[t].tags)
      BY <1>1, <1>11, TargetFacts
    <3>3. QED
      BY <3>1, <3>2 DEF FromList, Places
  <2>4. i = j => place[i] = place[j]
    OBVIOUS
  <2>5. k = place[i] /\ l = place[j]
    BY <1>2, <1>3, <1>11, <2>1
  <2>6. PICK x, y \in Nat : x = place[i] /\ y = place[j]
    BY <2>2
  <2>7. x < y <=> i < j
    BY <1>7, <2>3, <2>4, <2>6
  <2>8. QED
    BY <2>5, <2>6, <2>7
<1>12. Before(v, w) <=> \/ e.rank < f.rank
                        \/ e = f /\ b = "chrome" /\ c = "firefox"
                        \/ e = f /\ b = c /\ k < l
  BY <1>5, Zenon DEF Before
<1>13. QED
  BY <1>6, <1>7, <1>8, <1>9, <1>10, <1>11, <1>12

\* What is swept is what was typed, nothing left out, added or done twice, and in that
\* order. Every row stands for one place of a list and every place that is not blank has
\* its row; policies were sorted and lists read from their start, and neither the way
\* over an RPC nor the joining of rows changes what comes before what.
THEOREM SweepsWhatWasTyped == Spec => []SweptAsTyped
<1>1. ASSUME IInv, rows # <<>>
      PROVE  /\ \A i \in DOMAIN rows : \E w \in Wanted : IsRowOf(rows[i], w)
             /\ \A w \in Wanted : \E i \in DOMAIN rows : IsRowOf(rows[i], w)
             /\ \A i, j \in DOMAIN rows : \A v, w \in Wanted :
                  IsRowOf(rows[i], v) /\ IsRowOf(rows[j], w) => (i < j <=> Before(v, w))
  <2>1. /\ inv \in Invocations /\ Chosen /\ SweptRows(rows, MatrixOf(policies, targets))
        /\ Remote => SentRequest
    BY <1>1 DEF IInv, SweepIsChosen, RowsAreTheMatrix, Stages, RequestIsSent
  <2>2. Swept
    BY <2>1, ChosenFacts, ChosenAsTyped DEF Swept
  <2>3. PICK m : m = MatrixOf(policies, targets)
    OBVIOUS
  <2>4. IsMatrix(m, policies, targets)
    BY <2>2, <2>3, MatrixFacts DEF Swept
  <2>5. /\ m \in Seq(Keys)
        /\ \A x, y \in DOMAIN m : m[x] = m[y] => x = y
        /\ \A p \in DOMAIN policies : \A t \in DOMAIN targets : \A i \in DOMAIN targets[t].tags :
             \E x \in DOMAIN m : m[x] = Cell(p, t, i)
        /\ \A x \in DOMAIN m : \E p \in DOMAIN policies : \E t \in DOMAIN targets :
             \E i \in DOMAIN targets[t].tags : m[x] = Cell(p, t, i)
    BY <2>4 DEF IsMatrix, Cell
  <2>6. DOMAIN rows = DOMAIN m /\ \A x \in DOMAIN m : x \in Nat
    BY <2>1, <2>3, <2>5, RowsFacts, LenProperties
  <2>7. ASSUME NEW x \in DOMAIN m PROVE m[x] = <<rows[x].policy, rows[x].browser, rows[x].tag>>
    <3>1. PICK o \in Outcome : rows[x] = ResultOf(m[x], o)
      BY <2>1, <2>3 DEF SweptRows
    <3>2. m[x] \in Keys
      BY <2>5, LenProperties, ElementOfSeq
    <3>3. QED
      BY <3>1, <3>2, RowTells
  <2>8. ASSUME NEW x \in DOMAIN m, NEW w, NEW p, NEW t, NEW i, Asked(w, p, t, i)
        PROVE  IsRowOf(rows[x], w) <=> m[x] = Cell(p, t, i)
    <3>1. PICK q \in DOMAIN policies : \E u \in DOMAIN targets :
            \E j \in DOMAIN targets[u].tags : m[x] = Cell(q, u, j)
      BY <2>5
    <3>2. PICK u \in DOMAIN targets : \E j \in DOMAIN targets[u].tags : m[x] = Cell(q, u, j)
      BY <3>1
    <3>3. PICK j \in DOMAIN targets[u].tags : m[x] = Cell(q, u, j)
      BY <3>2
    <3>4. PICK row : row = rows[x]
      OBVIOUS
    <3>5. <<row.policy, row.browser, row.tag>> = Cell(q, u, j)
      BY <2>7, <3>3, <3>4, Zenon
    <3>6. IsRowOf(row, w) <=> p = q /\ t = u /\ i = j
      BY <2>2, <2>8, <3>5, RowOfAsked
    <3>7. p = q /\ t = u /\ i = j => m[x] = Cell(p, t, i)
      BY <3>3
    <3>8. ASSUME m[x] = Cell(p, t, i) PROVE p = q /\ t = u /\ i = j
      <4>1. p \in DOMAIN policies /\ t \in DOMAIN targets /\ i \in DOMAIN targets[t].tags
        BY <2>8 DEF Asked
      <4>2. PICK v : v = <<policies[q], targets[u].b.name, PlaceOf(u)[j]>>
        OBVIOUS
      <4>3. Asked(v, q, u, j)
        BY <4>2 DEF Asked
      <4>4. IsRowOf(row, v)
        BY <2>2, <3>5, <4>3, RowOfAsked
      <4>5. <<row.policy, row.browser, row.tag>> = Cell(p, t, i)
        BY <3>3, <3>5, <3>8, Zenon
      <4>6. q = p /\ u = t /\ j = i
        BY <2>2, <4>1, <4>3, <4>4, <4>5, RowOfAsked
      <4>7. QED
        BY <4>6
    <3>9. QED
      BY <3>4, <3>6, <3>7, <3>8
  <2>9. ASSUME NEW x \in DOMAIN m PROVE \E w \in Wanted : IsRowOf(rows[x], w)
    <3>1. PICK q \in DOMAIN policies : \E u \in DOMAIN targets :
            \E j \in DOMAIN targets[u].tags : m[x] = Cell(q, u, j)
      BY <2>5
    <3>2. PICK u \in DOMAIN targets : \E j \in DOMAIN targets[u].tags : m[x] = Cell(q, u, j)
      BY <3>1
    <3>3. PICK j \in DOMAIN targets[u].tags : m[x] = Cell(q, u, j)
      BY <3>2
    <3>4. PICK w : w = <<policies[q], targets[u].b.name, PlaceOf(u)[j]>>
      OBVIOUS
    <3>5. Asked(w, q, u, j)
      BY <3>4 DEF Asked
    <3>6. QED
      BY <2>2, <2>8, <3>3, <3>5, AskedIsWanted
  <2>10. ASSUME NEW w \in Wanted PROVE \E x \in DOMAIN m : IsRowOf(rows[x], w)
    <3>1. PICK p, t, i : Asked(w, p, t, i)
      BY <2>2, AskedIsWanted
    <3>2. p \in DOMAIN policies /\ t \in DOMAIN targets /\ i \in DOMAIN targets[t].tags
      BY <3>1 DEF Asked
    <3>3. PICK x \in DOMAIN m : m[x] = Cell(p, t, i)
      BY <2>5, <3>2
    <3>4. QED
      BY <2>8, <3>1, <3>3
  <2>11. ASSUME NEW x \in DOMAIN m, NEW y \in DOMAIN m, NEW v \in Wanted, NEW w \in Wanted,
                IsRowOf(rows[x], v), IsRowOf(rows[y], w)
         PROVE  x < y <=> Before(v, w)
    <3>1. PICK p, t, i : Asked(v, p, t, i)
      BY <2>2, AskedIsWanted
    <3>2. PICK q, u, j : Asked(w, q, u, j)
      BY <2>2, AskedIsWanted
    <3>3. m[x] = Cell(p, t, i) /\ m[y] = Cell(q, u, j)
      BY <2>8, <2>11, <3>1, <3>2
    <3>4. /\ p \in DOMAIN policies /\ t \in DOMAIN targets /\ i \in DOMAIN targets[t].tags
          /\ q \in DOMAIN policies /\ u \in DOMAIN targets /\ j \in DOMAIN targets[u].tags
      BY <3>1, <3>2 DEF Asked
    <3>5. /\ p \in Nat /\ q \in Nat /\ t \in Nat /\ u \in Nat /\ i \in Nat /\ j \in Nat
          /\ Before(v, w) <=> p < q \/ (p = q /\ (t < u \/ (t = u /\ i < j)))
      BY <2>2, <3>1, <3>2, AskedInOrder
    <3>6. /\ p < q \/ (p = q /\ (t < u \/ (t = u /\ i < j))) => x < y
          /\ q < p \/ (q = p /\ (u < t \/ (u = t /\ j < i))) => y < x
      <4>1. MatrixInOrder(m, policies, targets)
        BY <2>4 DEF IsMatrix
      <4>2. /\ m[x] = <<policies[p].name, targets[t].b.name, targets[t].tags[i]>>
            /\ m[y] = <<policies[q].name, targets[u].b.name, targets[u].tags[j]>>
        BY <3>3 DEF Cell
      <4>3. p < q \/ (p = q /\ (t < u \/ (t = u /\ i < j))) => x < y
        BY ONLY <3>4, <4>1, <4>2, x \in DOMAIN m, y \in DOMAIN m DEF MatrixInOrder
      <4>4. q < p \/ (q = p /\ (u < t \/ (u = t /\ j < i))) => y < x
        BY ONLY <3>4, <4>1, <4>2, x \in DOMAIN m, y \in DOMAIN m DEF MatrixInOrder
      <4>5. QED
        BY <4>3, <4>4
    <3>7. p = q /\ t = u /\ i = j => x = y
      BY <2>5, <3>3
    <3>8. x \in Nat /\ y \in Nat
      BY <2>6
    <3>9. QED
      BY ONLY <3>5, <3>6, <3>7, <3>8
  <2>12. QED
    BY <2>6, <2>9, <2>10, <2>11, Zenon
<1>2. IInv => SweptAsTyped
  BY <1>1 DEF SweptAsTyped
<1>3. QED
  BY <1>2, InvariantHolds, PTL

-----------------------------------------------------------------------------
(* The bundle *)

\* What a row adds to a bundle: its frame, if there is one, and its logs.
FrameEntry(r, picture) == [name |-> BundleFramePath(r), data |-> picture]
LogEntry(r, k) == [name |-> BundleLogPath(r, r.logs[k]), data |-> Append(Key(r), r.logs[k])]
EntriesOf(r, picture) ==
  (IF r.frame = NoFrame THEN <<>> ELSE <<FrameEntry(r, picture)>>)
    \o [k \in DOMAIN r.logs |-> LogEntry(r, k)]

\* They are filed under the row, each under a name of its own.
Filed(entries, r, picture) ==
  /\ \E T : entries \in Seq(T)
  /\ \A j \in 1..Len(entries) :
       /\ entries[j].name.policy = r.policy
       /\ entries[j].name.leaf[1] = r.browser /\ entries[j].name.leaf[2] = r.tag
  /\ \A i, j \in 1..Len(entries) : entries[i].name = entries[j].name => i = j
  /\ r.frame # NoFrame => \E j \in 1..Len(entries) : entries[j] = FrameEntry(r, picture)
  /\ \A k \in DOMAIN r.logs : \E j \in 1..Len(entries) : entries[j] = LogEntry(r, k)

\* Logs are told apart by their containers.
LEMMA EntriesFiled ==
  ASSUME NEW key \in Keys, NEW o, NEW r, r = ResultOf(key, o), NEW picture,
         NEW entries, entries = EntriesOf(r, picture)
  PROVE  Filed(entries, r, picture)
<1>1. PICK b \in {"chrome", "firefox"} : r.logs = Containers(b) \/ r.logs = <<>>
  <2>1. key[2] \in {"chrome", "firefox"}
    BY DEF Keys
  <2>2. QED
    BY <2>1 DEF ResultOf
<1>2. PICK l \in Nat : /\ l = Len(r.logs) /\ DOMAIN r.logs = 1..l
                       /\ \A i, j \in 1..l : r.logs[i] = r.logs[j] => i = j
  <2>1. CASE r.logs = Containers(b)
    <3>1. Len(r.logs) = 3 /\ DOMAIN r.logs = 1..3
      BY <2>1 DEF Containers
    <3>2. \A i, j \in 1..3 : r.logs[i] = r.logs[j] => i = j
      <4>1. r.logs[1] = b /\ r.logs[2] = "chrome-bully" /\ r.logs[3] = "smoke"
        BY <2>1 DEF Containers
      <4>2. \A i \in 1..3 : i = 1 \/ i = 2 \/ i = 3
        OBVIOUS
      <4>3. QED
        BY <4>1, <4>2
    <3>3. QED
      BY <3>1, <3>2
  <2>2. CASE r.logs = <<>>
    <3>1. Len(r.logs) = 0 /\ DOMAIN r.logs = 1..0
      BY <2>2
    <3>2. QED
      BY <3>1
  <2>3. QED
    BY <1>1, <2>1, <2>2
<1>3. PICK fe : fe = FrameEntry(r, picture)
  OBVIOUS
<1>4. PICK le : le = [k \in 1..l |-> LogEntry(r, k)]
  OBVIOUS
<1>5. PICK T : T = {fe} \cup {LogEntry(r, k) : k \in 1..l}
  OBVIOUS
<1>6. le \in Seq(T) /\ Len(le) = l /\ \A k \in 1..l : le[k] = LogEntry(r, k)
  <2>1. \A k \in 1..l : le[k] \in T
    BY <1>4, <1>5
  <2>2. le = [k \in 1..l |-> le[k]]
    BY <1>4
  <2>3. le \in Seq(T) /\ Len(le) = l
    BY ONLY l \in Nat, <2>1, <2>2
  <2>4. QED
    BY <1>4, <2>3
<1>7. PICK a \in Seq(T) : /\ a = (IF r.frame = NoFrame THEN <<>> ELSE <<fe>>)
                          /\ r.frame = NoFrame => Len(a) = 0
                          /\ r.frame # NoFrame => Len(a) = 1 /\ a[1] = fe
  <2>1. fe \in T
    BY <1>5
  <2>2. CASE r.frame = NoFrame
    <3>1. <<>> \in Seq(T) /\ Len(<<>>) = 0
      OBVIOUS
    <3>2. QED
      BY <2>2, <3>1, Zenon
  <2>3. CASE r.frame # NoFrame
    <3>1. <<fe>> \in Seq(T) /\ Len(<<fe>>) = 1 /\ <<fe>>[1] = fe
      BY <2>1
    <3>2. QED
      BY <2>3, <3>1, Zenon
  <2>4. QED
    BY <2>2, <2>3
<1>8. PICK p \in Nat : /\ p = Len(a) /\ p <= 1 /\ \A j \in 1..p : a[j] = fe
                       /\ r.frame # NoFrame => p = 1
  BY <1>7
<1>9. entries = a \o le
  <2>1. le = [k \in DOMAIN r.logs |-> LogEntry(r, k)]
    BY <1>2, <1>4, Zenon
  <2>2. QED
    BY <1>3, <1>7, <2>1, Zenon DEF EntriesOf
<1>10. PICK e \in Seq(T) : /\ e = entries /\ Len(e) = p + l
                           /\ \A j \in 1..(p + l) : e[j] = IF j <= p THEN a[j] ELSE le[j - p]
  <2>1. PICK e : e = a \o le
    OBVIOUS
  <2>2. e \in Seq(T) /\ Len(e) = p + l
    BY <1>6, <1>8, <2>1, ConcatProperties
  <2>3. \A j \in 1..(p + l) : e[j] = IF j <= p THEN a[j] ELSE le[j - p]
    BY <1>6, <1>8, <2>1, ConcatProperties
  <2>4. QED
    BY <1>9, <2>1, <2>2, <2>3, Zenon
<1>11. \A j \in 1..(p + l) : e[j] = fe \/ \E k \in 1..l : e[j] = LogEntry(r, k)
  <2> SUFFICES ASSUME NEW j \in 1..(p + l)
               PROVE  e[j] = fe \/ \E k \in 1..l : e[j] = LogEntry(r, k)
    OBVIOUS
  <2>1. CASE j <= p
    BY <1>8, <1>10, <2>1
  <2>2. CASE j > p
    <3>1. j - p \in 1..l
      BY <2>2
    <3>2. QED
      BY <1>6, <1>10, <2>2, <3>1
  <2>3. QED
    BY <2>1, <2>2
<1>12. /\ fe.name.policy = r.policy
       /\ fe.name.leaf[1] = r.browser /\ fe.name.leaf[2] = r.tag
       /\ \A k \in 1..l : /\ LogEntry(r, k).name.policy = r.policy
                          /\ LogEntry(r, k).name.leaf[1] = r.browser
                          /\ LogEntry(r, k).name.leaf[2] = r.tag
  BY <1>3 DEF FrameEntry, LogEntry, BundleFramePath, BundleLogPath
<1>13. \A k \in 1..l : fe.name # LogEntry(r, k).name
  <2>1. fe.name.dir = "frames" /\ \A k \in 1..l : LogEntry(r, k).name.dir = "logs"
    BY <1>3 DEF FrameEntry, LogEntry, BundleFramePath, BundleLogPath
  <2>2. QED
    BY <2>1
<1>14. ASSUME NEW i \in 1..l, NEW k \in 1..l, LogEntry(r, i).name = LogEntry(r, k).name
       PROVE  i = k
  <2>1. /\ LogEntry(r, i).name.leaf = <<r.browser, r.tag, r.logs[i]>>
        /\ LogEntry(r, k).name.leaf = <<r.browser, r.tag, r.logs[k]>>
    BY DEF LogEntry, BundleLogPath
  <2>2. <<r.browser, r.tag, r.logs[i]>> = <<r.browser, r.tag, r.logs[k]>>
    BY <1>14, <2>1, Zenon
  <2>3. r.logs[i] = r.logs[k]
    BY ONLY <2>2, TripleEqual, Zenon
  <2>4. QED
    BY <1>2, <2>3
<1>15. ASSUME NEW i \in 1..(p + l), NEW j \in 1..(p + l), e[i].name = e[j].name
       PROVE  i = j
  <2>1. CASE i <= p /\ j <= p
    BY <1>8, <2>1
  <2>2. CASE i <= p /\ j > p
    <3>1. e[i] = fe /\ j - p \in 1..l
      BY <1>8, <1>10, <2>2
    <3>2. e[j] = LogEntry(r, j - p)
      BY <1>6, <1>10, <2>2, <3>1
    <3>3. QED
      BY <1>13, <1>15, <3>1, <3>2
  <2>3. CASE i > p /\ j <= p
    <3>1. e[j] = fe /\ i - p \in 1..l
      BY <1>8, <1>10, <2>3
    <3>2. e[i] = LogEntry(r, i - p)
      BY <1>6, <1>10, <2>3, <3>1
    <3>3. QED
      BY <1>13, <1>15, <3>1, <3>2
  <2>4. CASE i > p /\ j > p
    <3>1. i - p \in 1..l /\ j - p \in 1..l
      BY <2>4
    <3>2. e[i] = LogEntry(r, i - p) /\ e[j] = LogEntry(r, j - p)
      BY <1>6, <1>10, <2>4, <3>1
    <3>3. i - p = j - p
      BY <1>14, <1>15, <3>1, <3>2
    <3>4. QED
      BY <3>3
  <2>5. QED
    BY <2>1, <2>2, <2>3, <2>4
<1>16. r.frame # NoFrame => \E j \in 1..(p + l) : e[j] = FrameEntry(r, picture)
  <2> SUFFICES ASSUME r.frame # NoFrame PROVE \E j \in 1..(p + l) : e[j] = fe
    BY <1>3
  <2>1. p = 1 /\ 1 \in 1..(p + l)
    BY <1>8
  <2>2. e[1] = fe
    BY <1>8, <1>10, <2>1
  <2>3. QED
    BY <2>1, <2>2
<1>17. ASSUME NEW k \in 1..l PROVE \E j \in 1..(p + l) : e[j] = LogEntry(r, k)
  <2>1. p + k \in 1..(p + l) /\ ~(p + k <= p) /\ (p + k) - p = k
    OBVIOUS
  <2>2. e[p + k] = LogEntry(r, k)
    BY <1>6, <1>10, <2>1
  <2>3. QED
    BY <2>1, <2>2
<1>18. \A j \in 1..(p + l) :
         /\ e[j].name.policy = r.policy
         /\ e[j].name.leaf[1] = r.browser /\ e[j].name.leaf[2] = r.tag
  BY <1>11, <1>12
<1>19. /\ Len(e) = p + l /\ \E U : e \in Seq(U)
  BY <1>10
<1>20. Filed(e, r, picture)
  BY <1>2, <1>15, <1>16, <1>17, <1>18, <1>19, Zenon DEF Filed
<1>21. QED
  BY <1>10, <1>20

\* A local name tells whose frame it is.
LEMMA FrameNames ==
  ASSUME NEW p \in Seq(STRING), NEW b, NEW t, NEW q \in Seq(STRING), NEW c, NEW u,
         LocalFrameName(p, b, t) = LocalFrameName(q, c, u)
  PROVE  p = q /\ b = c /\ t = u
<1>1. PICK S : STRING \subseteq S /\ b \in S /\ t \in S /\ c \in S /\ u \in S
  <2>1. /\ STRING \subseteq STRING \cup {b, t, c, u} /\ b \in STRING \cup {b, t, c, u}
        /\ t \in STRING \cup {b, t, c, u} /\ c \in STRING \cup {b, t, c, u}
        /\ u \in STRING \cup {b, t, c, u}
    OBVIOUS
  <2>2. QED
    BY <2>1
<1>2. p \in Seq(S) /\ q \in Seq(S)
  BY <1>1, SeqMonotonic
<1>3. PICK v \in Seq(S) : v = <<b, t>> /\ Len(v) = 2 /\ v[1] = b /\ v[2] = t
  <2>1. <<b, t>> \in Seq(S) /\ Len(<<b, t>>) = 2 /\ <<b, t>>[1] = b /\ <<b, t>>[2] = t
    BY <1>1
  <2>2. QED
    BY <2>1, Zenon
<1>4. PICK w \in Seq(S) : w = <<c, u>> /\ Len(w) = 2 /\ w[1] = c /\ w[2] = u
  <2>1. <<c, u>> \in Seq(S) /\ Len(<<c, u>>) = 2 /\ <<c, u>>[1] = c /\ <<c, u>>[2] = u
    BY <1>1
  <2>2. QED
    BY <2>1, Zenon
<1>5. PICK x : x = p \o v
  OBVIOUS
<1>6. x = q \o w
  BY <1>3, <1>4, <1>5, Zenon DEF LocalFrameName
<1>7. PICK n \in Nat : n = Len(p) /\ DOMAIN p = 1..n
  BY LenProperties
<1>8. PICK k \in Nat : k = Len(q) /\ DOMAIN q = 1..k
  BY LenProperties
<1>9. Len(x) = n + 2 /\ \A i \in 1..(n + 2) : x[i] = IF i <= n THEN p[i] ELSE v[i - n]
  BY <1>2, <1>3, <1>5, <1>7, ConcatProperties
<1>10. Len(x) = k + 2 /\ \A i \in 1..(k + 2) : x[i] = IF i <= k THEN q[i] ELSE w[i - k]
  BY <1>2, <1>4, <1>6, <1>8, ConcatProperties
<1>11. n = k
  BY <1>9, <1>10
<1>12. \A i \in 1..n : p[i] = q[i]
  BY <1>9, <1>10, <1>11
<1>13. p = q
  BY <1>7, <1>8, <1>11, <1>12, SeqEqual
<1>14. v[1] = w[1] /\ v[2] = w[2]
  <2>1. n + 1 \in 1..(n + 2) /\ ~(n + 1 <= n) /\ (n + 1) - n = 1
    OBVIOUS
  <2>2. n + 2 \in 1..(n + 2) /\ ~(n + 2 <= n) /\ (n + 2) - n = 2
    OBVIOUS
  <2>3. x[n + 1] = v[1] /\ x[n + 2] = v[2]
    BY <1>9, <2>1, <2>2
  <2>4. x[n + 1] = w[1] /\ x[n + 2] = w[2]
    BY <1>10, <1>11, <2>1, <2>2
  <2>5. QED
    BY <2>3, <2>4
<1>15. QED
  BY <1>3, <1>4, <1>13, <1>14

\* The pictures that were copied: the frame of a row is that of its very policy and
\* version.
LEMMA OwnPicture ==
  ASSUME NEW m \in Seq(Keys), NEW rs, SweptRows(rs, m), NEW i \in DOMAIN m,
         rs[i].frame # NoFrame
  PROVE  Pictures(rs)[rs[i].frame] = Key(rs[i])
<1>1. PICK n \in Nat : n = Len(m) /\ DOMAIN m = 1..n
  BY LenProperties
<1>2. DOMAIN rs = 1..n
  BY <1>1 DEF SweptRows
<1>3. ASSUME NEW x \in 1..n
      PROVE  /\ rs[x].policy \in Seq(STRING)
             /\ rs[x].frame # NoFrame =>
                  rs[x].frame = LocalFrameName(rs[x].policy, rs[x].browser, rs[x].tag)
  <2>1. PICK o \in Outcome : rs[x] = ResultOf(m[x], o)
    BY <1>1 DEF SweptRows
  <2>2. m[x] \in Keys
    BY <1>1, ElementOfSeq
  <2>3. m[x][1] \in Seq(STRING)
    BY <2>2 DEF Keys
  <2>4. QED
    BY <2>1, <2>3 DEF ResultOf
<1> DEFINE name == rs[i].frame
           Same == {x \in DOMAIN rs : rs[x].frame = name}
<1>4. i \in 1..n /\ i \in Same
  BY <1>1, <1>2
<1>5. Same \in SUBSET (0..n) /\ Same # {}
  BY <1>2, <1>4
<1>6. Max(Same) \in Same
  <2> HIDE DEF Same
  <2>1. QED
    BY <1>5, MaxFacts
<1>7. PICK x \in 1..n : x = Max(Same) /\ rs[x].frame = name
  BY <1>2, <1>6
<1>8. Pictures(rs)[name] = Key(rs[x])
  <2>1. name \in {rs[y].frame : y \in DOMAIN rs} \ {NoFrame}
    BY <1>2, <1>4
  <2>2. Pictures(rs)[name] = Key(rs[Max({y \in DOMAIN rs : rs[y].frame = name})])
    BY <2>1 DEF Pictures
  <2>3. QED
    BY <1>7, <2>2, Zenon
<1>9. /\ LocalFrameName(rs[x].policy, rs[x].browser, rs[x].tag)
           = LocalFrameName(rs[i].policy, rs[i].browser, rs[i].tag)
      /\ rs[x].policy \in Seq(STRING) /\ rs[i].policy \in Seq(STRING)
  BY <1>3, <1>4, <1>7
<1>10. rs[x].policy = rs[i].policy /\ rs[x].browser = rs[i].browser /\ rs[x].tag = rs[i].tag
  BY <1>9, FrameNames
<1>11. Key(rs[x]) = Key(rs[i])
  BY <1>10 DEF Key
<1>12. QED
  BY <1>8, <1>11

\* A bundle of a sweep's rows is whole.
LEMMA WholeBundle ==
  ASSUME IInv, rows # <<>>
  PROVE  Whole(WriteBundle(rows, frames))
<1>1. /\ inv \in Invocations /\ Chosen /\ SweptRows(rows, MatrixOf(policies, targets))
      /\ frames = Pictures(rows)
  BY DEF IInv, SweepIsChosen, RowsAreTheMatrix, Stages
<1>2. PICK m : m = MatrixOf(policies, targets)
  OBVIOUS
<1>3. IsMatrix(m, policies, targets)
  BY <1>1, <1>2, ChosenFacts, MatrixFacts
<1>4. m \in Seq(Keys) /\ \A x, y \in DOMAIN m : m[x] = m[y] => x = y
  BY <1>3 DEF IsMatrix
<1>5. PICK n \in Nat : n = Len(m) /\ DOMAIN m = 1..n
  BY <1>4, LenProperties
<1>6. DOMAIN rows = 1..n
  BY <1>1, <1>2, <1>5 DEF SweptRows
<1>7. PICK ss : ss = [i \in 1..n |-> EntriesOf(rows[i], frames[rows[i].frame])]
  OBVIOUS
<1>8. ASSUME NEW i \in 1..n
      PROVE  /\ m[i] = <<rows[i].policy, rows[i].browser, rows[i].tag>>
             /\ Filed(ss[i], rows[i], frames[rows[i].frame])
  <2>1. PICK o \in Outcome : rows[i] = ResultOf(m[i], o)
    BY <1>1, <1>2, <1>5 DEF SweptRows
  <2>2. m[i] \in Keys
    BY <1>4, <1>5, ElementOfSeq
  <2>3. m[i] = <<rows[i].policy, rows[i].browser, rows[i].tag>>
    BY <2>1, <2>2, RowTells
  <2>4. PICK e : e = EntriesOf(rows[i], frames[rows[i].frame])
    OBVIOUS
  <2>5. Filed(e, rows[i], frames[rows[i].frame])
    BY <2>1, <2>2, <2>4, EntriesFiled
  <2>6. ss[i] = e
    BY <1>7, <2>4, Zenon
  <2>7. QED
    BY <2>3, <2>5, <2>6
<1>9. PICK S : S = UNION {{ss[i][j] : j \in 1..Len(ss[i])} : i \in 1..n}
  OBVIOUS
<1>10. ss \in Seq(Seq(S)) /\ n = Len(ss)
  <2>1. ASSUME NEW i \in 1..n PROVE ss[i] \in Seq(S)
    <3>1. PICK T : ss[i] \in Seq(T)
      BY <1>8 DEF Filed
    <3>2. PICK e \in Seq(T) : e = ss[i]
      BY <3>1
    <3>3. PICK l \in Nat : l = Len(e) /\ DOMAIN e = 1..l
      BY LenProperties
    <3>4. \A j \in 1..l : e[j] \in S
      BY <1>9, <3>2, <3>3
    <3>5. e = [j \in 1..l |-> e[j]]
      BY <3>3
    <3>6. e \in Seq(S)
      BY ONLY l \in Nat, <3>4, <3>5
    <3>7. QED
      BY <3>2, <3>6
  <2>2. ss = [i \in 1..n |-> ss[i]]
    BY <1>7, Zenon
  <2>3. QED
    BY ONLY n \in Nat, <2>1, <2>2
<1>11. PICK z : z = FlattenSeq(ss)
  OBVIOUS
<1>12. /\ z \in Seq(S)
       /\ \E end : JoinedAt(ss, n, z, end)
       /\ \A k \in 1..n : \A j \in 1..Len(ss[k]) : \E x \in 1..Len(z) : z[x] = ss[k][j]
  <2>1. IsJoined(z, S, ss, n)
    BY <1>10, <1>11, JoinedElements
  <2>2. QED
    BY <2>1 DEF IsJoined
<1>13. DOMAIN z = 1..Len(z) /\ Len(z) \in Nat
  BY <1>12, LenProperties
<1>14. PICK end : JoinedAt(ss, n, z, end)
  BY <1>12
<1>15. ASSUME NEW x \in 1..Len(z), NEW y \in 1..Len(z), z[x].name = z[y].name PROVE x = y
  <2>1. PICK k \in 1..n : \E i \in 1..Len(ss[k]) : x = end[k - 1] + i
    BY <1>14 DEF JoinedAt
  <2>2. PICK i \in 1..Len(ss[k]) : x = end[k - 1] + i
    BY <2>1
  <2>3. PICK l \in 1..n : \E j \in 1..Len(ss[l]) : y = end[l - 1] + j
    BY <1>14 DEF JoinedAt
  <2>4. PICK j \in 1..Len(ss[l]) : y = end[l - 1] + j
    BY <2>3
  <2>5. z[x] = ss[k][i] /\ z[y] = ss[l][j]
    BY <1>14, <2>2, <2>4 DEF JoinedAt
  <2>6. /\ ss[k][i].name.policy = rows[k].policy
        /\ ss[k][i].name.leaf[1] = rows[k].browser /\ ss[k][i].name.leaf[2] = rows[k].tag
    BY <1>8 DEF Filed
  <2>7. /\ ss[l][j].name.policy = rows[l].policy
        /\ ss[l][j].name.leaf[1] = rows[l].browser /\ ss[l][j].name.leaf[2] = rows[l].tag
    BY <1>8 DEF Filed
  <2>8. ss[k][i].name = ss[l][j].name
    BY <1>15, <2>5, Zenon
  <2>9. /\ rows[k].policy = rows[l].policy /\ rows[k].browser = rows[l].browser
        /\ rows[k].tag = rows[l].tag
    BY <2>6, <2>7, <2>8, Zenon
  <2>10. m[k] = m[l]
    BY <1>8, <2>9, Zenon
  <2>11. k = l
    BY <1>4, <1>5, <2>10
  <2>12. i = j
    <3>1. \A a, b \in 1..Len(ss[k]) : ss[k][a].name = ss[k][b].name => a = b
      BY <1>8 DEF Filed
    <3>2. i \in 1..Len(ss[k]) /\ j \in 1..Len(ss[k]) /\ ss[k][i].name = ss[k][j].name
      BY <2>8, <2>11
    <3>3. QED
      BY <3>1, <3>2
  <2>13. QED
    BY <2>2, <2>4, <2>11, <2>12, Zenon
<1>16. IsInjective(Column(z, "name"))
  <2>1. PICK col : col = Column(z, "name")
    OBVIOUS
  <2>2. DOMAIN col = 1..Len(z) /\ \A x \in 1..Len(z) : col[x] = z[x].name
    BY <1>13, <2>1 DEF Column
  <2>3. IsInjective(col)
    BY <1>15, <2>2 DEF IsInjective
  <2>4. QED
    BY <2>1, <2>3
<1>17. ASSUME NEW i \in 1..n, rows[i].frame # NoFrame
       PROVE  Contains(z, [name |-> BundleFramePath(rows[i]), data |-> Key(rows[i])])
  <2>1. frames[rows[i].frame] = Key(rows[i])
    BY <1>1, <1>2, <1>4, <1>5, <1>17, OwnPicture
  <2>2. PICK j \in 1..Len(ss[i]) : ss[i][j] = FrameEntry(rows[i], frames[rows[i].frame])
    BY <1>8, <1>17 DEF Filed
  <2>3. PICK x \in 1..Len(z) : z[x] = ss[i][j]
    BY <1>12
  <2>4. z[x] = [name |-> BundleFramePath(rows[i]), data |-> Key(rows[i])]
    BY <2>1, <2>2, <2>3, Zenon DEF FrameEntry
  <2>5. QED
    BY <2>4, Zenon DEF Contains
<1>18. ASSUME NEW i \in 1..n, NEW k \in DOMAIN rows[i].logs
       PROVE  Contains(z, [name |-> BundleLogPath(rows[i], rows[i].logs[k]),
                           data |-> Append(Key(rows[i]), rows[i].logs[k])])
  <2>1. PICK j \in 1..Len(ss[i]) : ss[i][j] = LogEntry(rows[i], k)
    BY <1>8 DEF Filed
  <2>2. PICK x \in 1..Len(z) : z[x] = ss[i][j]
    BY <1>12
  <2>3. z[x] = [name |-> BundleLogPath(rows[i], rows[i].logs[k]),
                data |-> Append(Key(rows[i]), rows[i].logs[k])]
    BY <2>1, <2>2, Zenon DEF LogEntry
  <2>4. QED
    BY <2>3, Zenon DEF Contains
<1>19. z = WriteBundle(rows, frames)
  <2>1. ss = [i \in DOMAIN rows |->
               (IF rows[i].frame = NoFrame THEN <<>>
                ELSE <<[name |-> BundleFramePath(rows[i]), data |-> frames[rows[i].frame]]>>)
               \o [k \in DOMAIN rows[i].logs |->
                    [name |-> BundleLogPath(rows[i], rows[i].logs[k]),
                     data |-> Append(Key(rows[i]), rows[i].logs[k])]]]
    BY <1>6, <1>7, Zenon DEF EntriesOf, FrameEntry, LogEntry
  <2>2. QED
    BY <1>11, <2>1, Zenon DEF WriteBundle
<1>20. Whole(z)
  BY <1>6, <1>16, <1>17, <1>18, Zenon DEF Whole
<1>21. QED
  BY <1>19, <1>20, Zenon

\* A comment that is posted links to what is there.
LEMMA PostLinks ==
  ASSUME Linked, NEW kind, NEW size, Post(kind, size), url' = url, bucket' = bucket
  PROVE  Linked'
<1>1. PICK c : comments' = comments \/ (comments' = Append(comments, c) /\ c.link = url')
  BY DEF Post
<1>2. PICK S : comments \in Seq(S)
  BY DEF Linked
<1>3. CASE comments' = comments
  BY <1>3 DEF Linked
<1>4. CASE comments' = Append(comments, c) /\ c.link = url'
  <2>1. PICK T : T = S \cup {c}
    OBVIOUS
  <2>2. PICK cs \in Seq(T) : cs = comments
    BY <1>2, <2>1, SeqMonotonic
  <2>3. PICK n \in Nat : n = Len(cs) /\ DOMAIN cs = 1..n
    BY LenProperties
  <2>4. PICK ds : ds = Append(cs, c)
    OBVIOUS
  <2>5. /\ ds \in Seq(T) /\ Len(ds) = n + 1
        /\ \A i \in 1..n : ds[i] = cs[i]
        /\ ds[n + 1] = c
    BY <2>1, <2>3, <2>4, AppendProperties
  <2>6. DOMAIN ds = 1..(n + 1)
    BY <2>5, LenProperties
  <2>7. \A i \in DOMAIN ds : ds[i].link => bucket # {}
    <3> SUFFICES ASSUME NEW i \in 1..(n + 1), ds[i].link PROVE bucket # {}
      BY <2>6
    <3>1. CASE i \in 1..n
      <4>1. comments[i].link /\ i \in DOMAIN comments
        BY <2>2, <2>3, <2>5, <3>1
      <4>2. QED
        BY <4>1 DEF Linked
    <3>2. CASE i = n + 1
      BY <1>4, <2>5, <3>2 DEF Linked
    <3>3. QED
      BY <3>1, <3>2
  <2>8. comments' = ds
    BY <1>4, <2>2, <2>4, Zenon
  <2>9. QED
    BY <2>5, <2>7, <2>8 DEF Linked
<1>5. QED
  BY <1>1, <1>3, <1>4

\* A step that leaves the comments, the link and the bucket alone keeps Linked.
LEMMA LinksStay ==
  ASSUME Linked, comments' = comments, url' = url, bucket' = bucket
  PROVE  Linked'
BY DEF Linked

\* A link is to a bundle in the bucket, before a step and after it.
LEMMA LinkedStep ==
  ASSUME Linked, [Next]_vars
  PROVE  Linked'
<1> USE DEF procVars, toolVars, sweepVars, resultVars
<1>1. CASE BadCommandLine
  BY <1>1, LinksStay DEF BadCommandLine, Exit
<1>2. CASE Send
  BY <1>2, LinksStay DEF Send
<1>3. CASE CallFails
  BY <1>3, LinksStay DEF CallFails, Exit, Waiting
<1>4. CASE Accepted
  BY <1>4, LinksStay DEF Accepted, Exit, Waiting
<1>5. CASE Answered
  BY <1>5, LinksStay DEF Answered, Exit, Waiting
<1>6. CASE Refused
  BY <1>6, LinksStay DEF Refused, Exit, Arrives, Waiting
<1>7. CASE Busy
  <2>1. url' = url /\ bucket' = bucket
    BY <1>7 DEF Busy, Exit, Arrives, Waiting, resultVars
  <2>2. comments' = comments \/ \E kind, size : Post(kind, size)
    BY <1>7 DEF Busy, Exit, Arrives, Waiting, resultVars
  <2>3. QED
    BY <2>1, <2>2, PostLinks, LinksStay
<1>8. CASE Admitted
  BY <1>8, LinksStay DEF Admitted, Arrives, Waiting
<1>9. CASE PostAck
  <2>1. url' = url /\ bucket' = bucket
    BY <1>9 DEF PostAck, resultVars
  <2>2. comments' = comments \/ \E kind, size : Post(kind, size)
    BY <1>9 DEF PostAck, resultVars
  <2>3. QED
    BY <2>1, <2>2, PostLinks, LinksStay
<1>10. CASE BrowsersFor
  <2>1. url' = url /\ bucket' = bucket
    BY <1>10 DEF BrowsersFor, SweepFails, resultVars
  <2>2. comments' = comments \/ \E kind, size : Post(kind, size)
    BY <1>10 DEF BrowsersFor, SweepFails, resultVars
  <2>3. QED
    BY <2>1, <2>2, PostLinks, LinksStay
<1>11. CASE Sweep
  <2>1. url' = url /\ bucket' = bucket
    BY <1>11 DEF Sweep, SweepFails, resultVars
  <2>2. comments' = comments \/ \E kind, size : Post(kind, size)
    BY <1>11 DEF Sweep, SweepFails, resultVars
  <2>3. QED
    BY <2>1, <2>2, PostLinks, LinksStay
<1>12. CASE Bundle
  BY <1>12, LinksStay DEF Bundle
<1>13. CASE Upload
  <2>1. comments' = comments
    BY <1>13 DEF Upload
  <2>2. CASE bucket' = {zip}
    BY <2>1, <2>2 DEF Linked
  <2>3. CASE bucket' = bucket /\ url' = url
    BY <2>1, <2>3, LinksStay
  <2>4. QED
    BY <1>13, <2>2, <2>3 DEF Upload
<1>14. CASE BadSweepFlags
  BY <1>14, LinksStay DEF BadSweepFlags, Exit
<1>15. CASE SweepStarts
  BY <1>15, LinksStay DEF SweepStarts
<1>16. CASE LocalSweep
  BY <1>16, LinksStay DEF LocalSweep
<1>17. CASE LocalBundle
  BY <1>17, LinksStay DEF LocalBundle
<1>18. CASE LocalReport
  BY <1>18, LinksStay DEF LocalReport, Exit
<1>19. CASE LocalFails
  BY <1>19, LinksStay DEF LocalFails, Exit
<1>20. CASE PostResult
  <2>1. url' = url /\ bucket' = bucket
    BY <1>20 DEF PostResult, resultVars
  <2>2. comments' = comments \/ \E kind, size : Post(kind, size)
    BY <1>20 DEF PostResult, resultVars
  <2>3. QED
    BY <2>1, <2>2, PostLinks, LinksStay
<1>21. CASE ProcMoves
  BY <1>21, LinksStay DEF ProcMoves, Exit, Waiting
<1>22. CASE UNCHANGED vars
  BY <1>22, LinksStay DEF vars
<1>23. QED
  BY <1>1, <1>2, <1>3, <1>4, <1>5, <1>6, <1>7, <1>8, <1>9, <1>10, <1>11, <1>12, <1>13, <1>14,
    <1>15, <1>16, <1>17, <1>18, <1>19, <1>20, <1>21, <1>22 DEF Next, RequestStep

\* The bundle is made of the rows and frames of the sweep, and they stay.
LEMMA BundleStep ==
  ASSUME IInv, Linked, BundleFollows, [Next]_vars
  PROVE  BundleFollows'
<1> USE DEF IInv, Stages, Async, Remote, BundleFollows, procVars, toolVars, sweepVars,
      resultVars
<1>1. CASE BadCommandLine
  BY <1>1 DEF BadCommandLine, Exit
<1>2. CASE Send
  BY <1>2 DEF Send
<1>3. CASE CallFails
  BY <1>3 DEF CallFails, Exit, Waiting
<1>4. CASE Accepted
  BY <1>4 DEF Accepted, Exit, Waiting
<1>5. CASE Answered
  BY <1>5 DEF Answered, Exit, Waiting
<1>6. CASE Refused
  BY <1>6 DEF Refused, Exit, Arrives, Waiting
<1>7. CASE Busy
  BY <1>7 DEF Busy, Exit, Arrives, Waiting, Post
<1>8. CASE Admitted
  BY <1>8 DEF Admitted, Arrives, Waiting
<1>9. CASE PostAck
  BY <1>9 DEF PostAck, Post
<1>10. CASE BrowsersFor
  BY <1>10 DEF BrowsersFor, SweepFails, Post
<1>11. CASE Sweep
  BY <1>11 DEF Sweep, SweepFails, Post
<1>12. CASE Bundle
  BY <1>12 DEF Bundle
<1>13. CASE Upload
  BY <1>13 DEF Upload
<1>14. CASE BadSweepFlags
  BY <1>14 DEF BadSweepFlags, Exit
<1>15. CASE SweepStarts
  BY <1>15 DEF SweepStarts
<1>16. CASE LocalSweep
  BY <1>16 DEF LocalSweep
<1>17. CASE LocalBundle
  BY <1>17 DEF LocalBundle
<1>18. CASE LocalReport
  BY <1>18 DEF LocalReport, Exit
<1>19. CASE LocalFails
  BY <1>19 DEF LocalFails, Exit
<1>20. CASE PostResult
  BY <1>20 DEF PostResult, Post
<1>21. CASE ProcMoves
  BY <1>21 DEF ProcMoves, Exit, Waiting
<1>22. CASE UNCHANGED vars
  BY <1>22 DEF vars
<1>23. QED
  BY <1>1, <1>2, <1>3, <1>4, <1>5, <1>6, <1>7, <1>8, <1>9, <1>10, <1>11, <1>12, <1>13, <1>14,
    <1>15, <1>16, <1>17, <1>18, <1>19, <1>20, <1>21, <1>22 DEF Next, RequestStep

\* A bundle that a comment links, that lies in the bucket, or that is in -out after exit
\* code 0, has each frame and log that the report names, under names that do not meet.
THEOREM BundleIsWhole == Spec => []BundleHoldsWhatIsShown
<1>1. Init => Linked /\ BundleFollows
  <2> SUFFICES ASSUME Init PROVE Linked /\ BundleFollows
    OBVIOUS
  <2>1. comments = <<>> /\ comments \in Seq({}) /\ ~url /\ bucket = {}
    BY DEF Init
  <2>2. worker = "idle" /\ client = "flags"
    BY DEF Init
  <2>3. QED
    BY <2>1, <2>2 DEF Linked, BundleFollows
<1>2. IInv /\ Linked /\ BundleFollows /\ [Next]_vars => Linked' /\ BundleFollows'
  BY LinkedStep, BundleStep
<1>3. ASSUME IInv, Linked, BundleFollows PROVE BundleHoldsWhatIsShown
  <2>1. ASSUME rows # <<>> PROVE Whole(WriteBundle(rows, frames))
    BY <1>3, <2>1, WholeBundle
  <2>2. \A z \in bucket : Whole(z)
    BY <1>3, <2>1 DEF BundleFollows
  <2>3. client = "exited" /\ exit = 0 /\ ~Remote => Whole(zip)
    BY <1>3, <2>1 DEF BundleFollows, IInv, GoodExit, Async
  <2>4. QED
    BY <1>3, <2>2, <2>3 DEF BundleHoldsWhatIsShown, Linked
<1>4. QED
  BY <1>1, <1>2, <1>3, InvariantHolds, PTL DEF Spec

-----------------------------------------------------------------------------
(* Types *)

\* The comments have a size that GitHub takes.
ShortComments ==
  /\ \E S : comments \in Seq(S)
  /\ \A i \in DOMAIN comments : comments[i].size <= MaxComment

\* Whatever has to be posted has a size, whether or not there is room for it.
LEMMA BodiesAreSized ==
  ASSUME inv \in Invocations
  PROVE  /\ BodyAck(inv.sha) \in Int /\ HeadSize \in Int
         /\ \A err \in {1, MaxComment} : BodyRunError(inv.sha, err) \in Int
         /\ \A report \in Seq(Nat) : BodyResult(report, inv.sha, url) \in Int
<1>1. PICK h, l, s, max \in Nat :
        h = HeadSize /\ l = LinkSize /\ s = inv.sha /\ max = MaxComment
  BY RequestAssumption, InvocationsAssumption
<1>2. BodyAck(inv.sha) \in Int /\ HeadSize \in Int
  BY <1>1 DEF BodyAck
<1>3. ASSUME NEW err \in {1, MaxComment} PROVE BodyRunError(inv.sha, err) \in Int
  <2>1. PICK e \in Nat : e = h + s + err
    BY <1>1
  <2>2. [i \in 1..e |-> 1] \in Seq(Nat)
    OBVIOUS
  <2>3. BodyRunError(inv.sha, err) = CapTo([i \in 1..e |-> 1], MaxComment)
    BY <1>1, <2>1, Zenon DEF BodyRunError
  <2>4. MaxComment \in Int
    BY <1>1
  <2>5. CapTo([i \in 1..e |-> 1], MaxComment) \in Nat
    BY <2>2, <2>4, CapFacts
  <2>6. QED
    BY <2>3, <2>5
<1>4. ASSUME NEW report \in Seq(Nat) PROVE BodyResult(report, inv.sha, url) \in Int
  <2>1. PICK tail \in Nat : tail = IF url THEN LinkSize ELSE 0
    BY <1>1
  <2>2. PICK room \in Int : room = max - (h + s) - tail
    OBVIOUS
  <2>3. PICK c \in Nat : c = CapTo(report, room)
    BY CapFacts
  <2>4. BodyResult(report, inv.sha, url) = h + s + CapTo(report, max - (h + s) - tail) + tail
    BY <1>1, <2>1, Zenon DEF BodyResult
  <2>5. BodyResult(report, inv.sha, url) = h + s + c + tail
    BY <2>2, <2>3, <2>4, Zenon
  <2>6. QED
    BY <2>5
<1>5. QED
  BY <1>2, <1>3, <1>4

\* A comment that is posted is short enough.
LEMMA PostIsShort ==
  ASSUME ShortComments, NEW kind, NEW size \in Int, Post(kind, size)
  PROVE  ShortComments'
<1>1. CASE size > MaxComment
  <2>1. comments' = comments
    BY <1>1 DEF Post
  <2>2. QED
    BY <2>1 DEF ShortComments
<1>2. CASE ~(size > MaxComment)
  <2>1. PICK c : comments' = Append(comments, c) /\ c.size = size
    BY <1>2 DEF Post
  <2>2. PICK S : comments \in Seq(S)
    BY DEF ShortComments
  <2>3. PICK T : T = S \cup {c}
    OBVIOUS
  <2>4. PICK cs \in Seq(T) : cs = comments
    BY <2>2, <2>3, SeqMonotonic
  <2>5. PICK n \in Nat : n = Len(cs) /\ DOMAIN cs = 1..n
    BY LenProperties
  <2>6. PICK ds : ds = Append(cs, c)
    OBVIOUS
  <2>7. /\ ds \in Seq(T) /\ Len(ds) = n + 1
        /\ \A i \in 1..n : ds[i] = cs[i]
        /\ ds[n + 1] = c
    BY <2>3, <2>5, <2>6, AppendProperties
  <2>8. DOMAIN ds = 1..(n + 1)
    BY <2>7, LenProperties
  <2>9. size <= MaxComment
    BY <1>2, RequestAssumption
  <2>10. \A i \in DOMAIN ds : ds[i].size <= MaxComment
    <3> SUFFICES ASSUME NEW i \in 1..(n + 1) PROVE ds[i].size <= MaxComment
      BY <2>8
    <3>1. CASE i \in 1..n
      <4>1. ds[i] = comments[i] /\ i \in DOMAIN comments
        BY <2>4, <2>5, <2>7, <3>1
      <4>2. QED
        BY <4>1 DEF ShortComments
    <3>2. CASE i = n + 1
      BY <2>1, <2>7, <2>9, <3>2
    <3>3. QED
      BY <3>1, <3>2
  <2>11. comments' = ds
    BY <2>1, <2>4, <2>6, Zenon
  <2>12. QED
    BY <2>7, <2>10, <2>11 DEF ShortComments
<1>3. QED
  BY <1>1, <1>2

\* Comments that stay are as short as before.
LEMMA ShortStay ==
  ASSUME ShortComments, comments' = comments
  PROVE  ShortComments'
BY DEF ShortComments

\* No step leaves a comment on the pull request that is too long for it.
LEMMA ShortStep ==
  ASSUME IInv, ShortComments, [Next]_vars
  PROVE  ShortComments'
<1>0. inv \in Invocations
  BY DEF IInv, Stages
<1> USE <1>0 DEF procVars, toolVars, sweepVars, resultVars
<1>1. CASE BadCommandLine
  BY <1>1, ShortStay DEF BadCommandLine, Exit
<1>2. CASE Send
  BY <1>2, ShortStay DEF Send
<1>3. CASE CallFails
  BY <1>3, ShortStay DEF CallFails, Exit, Waiting
<1>4. CASE Accepted
  BY <1>4, ShortStay DEF Accepted, Exit, Waiting
<1>5. CASE Answered
  BY <1>5, ShortStay DEF Answered, Exit, Waiting
<1>6. CASE Refused
  BY <1>6, ShortStay DEF Refused, Exit, Arrives, Waiting
<1>7. CASE Busy
  <2>1. comments' = comments \/ Post("busy", HeadSize)
    BY <1>7 DEF Busy
  <2>2. QED
    BY <2>1, BodiesAreSized, PostIsShort, ShortStay
<1>8. CASE Admitted
  BY <1>8, ShortStay DEF Admitted, Arrives, Waiting
<1>9. CASE PostAck
  <2>1. Post("ack", BodyAck(inv.sha))
    BY <1>9 DEF PostAck
  <2>2. QED
    BY <2>1, BodiesAreSized, PostIsShort
<1>10. CASE BrowsersFor
  <2>1. CASE SweepFails
    <3>1. comments' = comments \/ \E err \in {1, MaxComment} :
                                     Post("error", BodyRunError(inv.sha, err))
      BY <2>1 DEF SweepFails
    <3>2. QED
      BY <3>1, BodiesAreSized, PostIsShort, ShortStay
  <2>2. CASE ~SweepFails
    BY <1>10, <2>2, ShortStay DEF BrowsersFor, resultVars
  <2>3. QED
    BY <2>1, <2>2
<1>11. CASE Sweep
  <2>1. CASE SweepFails
    <3>1. comments' = comments \/ \E err \in {1, MaxComment} :
                                     Post("error", BodyRunError(inv.sha, err))
      BY <2>1 DEF SweepFails
    <3>2. QED
      BY <3>1, BodiesAreSized, PostIsShort, ShortStay
  <2>2. CASE ~SweepFails
    BY <1>11, <2>2, ShortStay DEF Sweep, resultVars
  <2>3. QED
    BY <2>1, <2>2
<1>12. CASE Bundle
  BY <1>12, ShortStay DEF Bundle
<1>13. CASE Upload
  BY <1>13, ShortStay DEF Upload
<1>14. CASE BadSweepFlags
  BY <1>14, ShortStay DEF BadSweepFlags, Exit
<1>15. CASE SweepStarts
  BY <1>15, ShortStay DEF SweepStarts
<1>16. CASE LocalSweep
  BY <1>16, ShortStay DEF LocalSweep
<1>17. CASE LocalBundle
  BY <1>17, ShortStay DEF LocalBundle
<1>18. CASE LocalReport
  BY <1>18, ShortStay DEF LocalReport, Exit
<1>19. CASE LocalFails
  BY <1>19, ShortStay DEF LocalFails, Exit
<1>20. CASE PostResult
  <2>1. Post("result", BodyResult(RenderMarkdown(rows), inv.sha, url)) /\ rows # <<>>
    BY <1>20 DEF PostResult, IInv, Stages
  <2>2. rows \in Seq(Results)
    BY <2>1, RowsFacts DEF IInv, Stages, RowsAreTheMatrix, SweepIsChosen
  <2>3. QED
    BY <2>1, <2>2, BodiesAreSized, MarkdownFacts, PostIsShort
<1>21. CASE ProcMoves
  BY <1>21, ShortStay DEF ProcMoves, Exit, Waiting
<1>22. CASE UNCHANGED vars
  BY <1>22, ShortStay DEF vars
<1>23. QED
  BY <1>1, <1>2, <1>3, <1>4, <1>5, <1>6, <1>7, <1>8, <1>9, <1>10, <1>11, <1>12, <1>13, <1>14,
    <1>15, <1>16, <1>17, <1>18, <1>19, <1>20, <1>21, <1>22 DEF Next, RequestStep

\* What may be in -out, and what a link is.
FilesAndLink == url \in BOOLEAN /\ out \subseteq {"report.zip", "report.md"}

\* Only two files are ever written, and a link is there or not.
LEMMA FilesAndLinkStep ==
  ASSUME FilesAndLink, [Next]_vars
  PROVE  FilesAndLink'
<1> USE DEF procVars, toolVars, sweepVars, resultVars, FilesAndLink
<1>1. CASE BadCommandLine
  BY <1>1 DEF BadCommandLine, Exit
<1>2. CASE Send
  BY <1>2 DEF Send
<1>3. CASE CallFails
  BY <1>3 DEF CallFails, Exit, Waiting
<1>4. CASE Accepted
  BY <1>4 DEF Accepted, Exit, Waiting
<1>5. CASE Answered
  BY <1>5 DEF Answered, Exit, Waiting
<1>6. CASE Refused
  BY <1>6 DEF Refused, Exit, Arrives, Waiting
<1>7. CASE Busy
  BY <1>7 DEF Busy, Exit, Arrives, Waiting, Post
<1>8. CASE Admitted
  BY <1>8 DEF Admitted, Arrives, Waiting
<1>9. CASE PostAck
  BY <1>9 DEF PostAck, Post
<1>10. CASE BrowsersFor
  BY <1>10 DEF BrowsersFor, SweepFails, Post
<1>11. CASE Sweep
  BY <1>11 DEF Sweep, SweepFails, Post
<1>12. CASE Bundle
  BY <1>12 DEF Bundle
<1>13. CASE Upload
  BY <1>13 DEF Upload
<1>14. CASE BadSweepFlags
  BY <1>14 DEF BadSweepFlags, Exit
<1>15. CASE SweepStarts
  BY <1>15 DEF SweepStarts
<1>16. CASE LocalSweep
  BY <1>16 DEF LocalSweep
<1>17. CASE LocalBundle
  BY <1>17 DEF LocalBundle
<1>18. CASE LocalReport
  BY <1>18 DEF LocalReport, Exit
<1>19. CASE LocalFails
  BY <1>19 DEF LocalFails, Exit
<1>20. CASE PostResult
  BY <1>20 DEF PostResult, Post
<1>21. CASE ProcMoves
  BY <1>21 DEF ProcMoves, Exit, Waiting
<1>22. CASE UNCHANGED vars
  BY <1>22 DEF vars
<1>23. QED
  BY <1>1, <1>2, <1>3, <1>4, <1>5, <1>6, <1>7, <1>8, <1>9, <1>10, <1>11, <1>12, <1>13, <1>14,
    <1>15, <1>16, <1>17, <1>18, <1>19, <1>20, <1>21, <1>22 DEF Next, RequestStep

\* The process keeps its types whatever fails.
LEMMA ProcStep ==
  ASSUME ProcTypeOK, [Next]_vars
  PROVE  ProcTypeOK'
<1>1. [ProcNext]_procVars
  BY DEF Next, RequestStep, Send, CallFails, Accepted, Answered, Refused, Busy, Admitted,
    PostAck, BrowsersFor, Sweep, Bundle, Upload, BadSweepFlags, SweepStarts, LocalSweep,
    LocalBundle, LocalReport, LocalFails, PostResult, ProcMoves, BadCommandLine, vars,
    procVars
<1>2. MaxBreaks \in Nat
  BY RequestAssumption
<1> USE DEF ProcTypeOK, Listener, Breaks, Ends
<1>3. CASE StartProcess
  BY <1>3 DEF StartProcess
<1>4. CASE SetupFails
  BY <1>2, <1>4 DEF SetupFails
<1>5. CASE SetupDone
  BY <1>5 DEF SetupDone
<1>6. CASE Listens
  BY <1>6 DEF Listens
<1>7. CASE ListenerFails
  BY <1>2, <1>7 DEF ListenerFails
<1>8. CASE WaitReturns
  BY <1>8 DEF WaitReturns
<1>9. CASE HealthcheckFails
  BY <1>9 DEF HealthcheckFails
<1>10. CASE Replaced
  BY <1>2, <1>10 DEF Replaced
<1>11. CASE UNCHANGED procVars
  BY <1>11 DEF procVars
<1>12. QED
  BY <1>1, <1>3, <1>4, <1>5, <1>6, <1>7, <1>8, <1>9, <1>10, <1>11 DEF ProcNext, ProcProgress

\* Type correctness of a call, of the process that serves it and of what comes of it:
\* rows have a status of the report, every browser that is swept has versions, and no
\* comment is longer than GitHub takes.
THEOREM TypeCorrect == Spec => []TypeOK
<1>1. Init => ProcTypeOK /\ ShortComments /\ FilesAndLink
  <2> SUFFICES ASSUME Init PROVE ProcTypeOK /\ ShortComments /\ FilesAndLink
    OBVIOUS
  <2>1. comments = <<>> /\ comments \in Seq({}) /\ url = FALSE /\ out = {}
    BY DEF Init
  <2>2. ProcTypeOK
    BY RequestAssumption DEF Init, ProcInit, ProcTypeOK, Listener
  <2>3. ShortComments
    BY <2>1 DEF ShortComments
  <2>4. FilesAndLink
    BY <2>1, Zenon DEF FilesAndLink
  <2>5. QED
    BY <2>2, <2>3, <2>4
<1>2. IInv /\ ProcTypeOK /\ ShortComments /\ FilesAndLink /\ [Next]_vars
        => ProcTypeOK' /\ ShortComments' /\ FilesAndLink'
  BY ProcStep, ShortStep, FilesAndLinkStep
<1>3. ASSUME IInv, ProcTypeOK, ShortComments, FilesAndLink PROVE TypeOK
  <2>1. \A i \in DOMAIN rows : rows[i].status \in Statuses
    <3> SUFFICES ASSUME NEW i \in DOMAIN rows PROVE rows[i].status \in Statuses
      OBVIOUS
    <3>1. rows # <<>>
      OBVIOUS
    <3>2. inv \in Invocations /\ Chosen /\ SweptRows(rows, MatrixOf(policies, targets))
      BY <1>3, <3>1 DEF IInv, Stages, SweepIsChosen, RowsAreTheMatrix
    <3>3. DOMAIN rows = DOMAIN MatrixOf(policies, targets)
      BY <3>2, RowsFacts
    <3>4. PICK o \in Outcome : rows[i] = ResultOf(MatrixOf(policies, targets)[i], o)
      BY <3>2, <3>3 DEF SweptRows
    <3>5. o.status \in Statuses
      BY DEF Outcome, PlainPass, Statuses
    <3>6. rows[i].status = o.status
      BY <3>4 DEF ResultOf
    <3>7. QED
      BY <3>5, <3>6
  <2>2. \A t \in DOMAIN targets : targets[t].tags # Bad
    <3> SUFFICES ASSUME NEW t \in DOMAIN targets PROVE targets[t].tags # Bad
      OBVIOUS
    <3>1. targets # <<>>
      OBVIOUS
    <3>2. QED
      BY <1>3, <3>1, ChosenFacts DEF IInv, Stages, SweepIsChosen, TargetsOk
  <2>3. Cardinality(reply) <= 1
    <3>1. CASE reply = {}
      BY <3>1, FS_EmptySet
    <3>2. CASE reply # {}
      <4>1. PICK a : reply = {a}
        BY <1>3, <3>2 DEF IInv, ReplyIsOfRows
      <4>2. QED
        BY <4>1, FS_Singleton
    <3>3. QED
      BY <3>1, <3>2
  <2>4. QED
    BY <1>3, <2>1, <2>2, <2>3 DEF TypeOK, IInv, Stages, ShortComments, FilesAndLink
<1>4. QED
  BY <1>1, <1>2, <1>3, InvariantHolds, PTL DEF Spec

=============================================================================
