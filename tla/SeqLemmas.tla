------------------------------ MODULE SeqLemmas ------------------------------
(***************************************************************************)
(* What the proofs need of numbers and sequences: induction over the       *)
(* natural numbers, as the least member of a set, since a rule that takes  *)
(* a predicate cannot be instantiated; what Filter keeps of a sequence,    *)
(* from the recursion that defines it; the elements of a tail, of an       *)
(* appended element and of a concatenation, which are the queues' steps;   *)
(* and numbers that go in order through a pipeline of queues.              *)
(***************************************************************************)
EXTENDS SeqFilter, Integers, SequenceTheorems, WellFoundedInduction, TLAPS

-----------------------------------------------------------------------------
(* Induction *)

\* A set of natural numbers that is not empty has a least member.
LEMMA LeastMember ==
    ASSUME NEW T \in SUBSET Nat, T # {}
    PROVE  \E n \in T : \A m \in T : n <= m
<1>1. PICK n \in T : \A m \in T : ~ (<<m, n>> \in OpToRel(<, Nat))
  BY NatLessThanWellFounded, WFMin
<1>2. \A m \in T : ~(m < n)
  BY <1>1 DEF OpToRel
<1> QED
  BY <1>2

\* A set with 0, and with the successor of each of its numbers, has them all.
LEMMA InductiveSet ==
    ASSUME NEW T, 0 \in T, \A n \in Nat : n \in T => n + 1 \in T
    PROVE  \A n \in Nat : n \in T
<1> SUFFICES ASSUME Nat \ T # {} PROVE FALSE
  OBVIOUS
<1>1. PICK n \in Nat \ T : \A m \in Nat \ T : n <= m
  BY LeastMember
<1>2. n # 0 /\ n - 1 \in Nat
  BY <1>1
<1>3. n - 1 \in T
  BY <1>1, <1>2
<1> QED
  BY <1>1, <1>2, <1>3

-----------------------------------------------------------------------------
(* Filter *)

\* What Filter does with element i, after k did the elements before it.
Sift(k, i, s, S) ==
    IF i = 0 THEN <<>> ELSE IF s[i] \in S THEN Append(k[i - 1], s[i]) ELSE k[i - 1]

\* The function k does so up to element n.
Sifts(k, n, s, S) == \A i \in 0 .. n : k[i] = Sift(k, i, s, S)

\* Two such functions agree.
LEMMA SiftsUnique ==
    ASSUME NEW s, NEW S, NEW n \in Nat, NEW k, NEW l, Sifts(k, n, s, S), Sifts(l, n, s, S)
    PROVE  \A i \in 0 .. n : k[i] = l[i]
<1> DEFINE T == {i \in Nat : i <= n => k[i] = l[i]}
<1>1. 0 \in T
  BY DEF Sifts, Sift
<1>2. ASSUME NEW i \in Nat, i \in T PROVE i + 1 \in T
  <2>1. (i + 1) - 1 = i /\ i + 1 # 0
    OBVIOUS
  <2> QED
    BY <1>2, <2>1 DEF Sifts, Sift
<1> HIDE DEF T
<1>3. \A i \in Nat : i \in T
  BY <1>1, <1>2, InductiveSet
<1> QED
  BY <1>3 DEF T

\* There is one for every n.
LEMMA SiftsExists ==
    ASSUME NEW s, NEW S
    PROVE  \A n \in Nat : \E k : Sifts(k, n, s, S)
<1> DEFINE T == {n \in Nat : \E k : Sifts(k, n, s, S)}
<1>1. 0 \in T
  <2>1. Sifts([i \in {0} |-> <<>>], 0, s, S)
    BY DEF Sifts, Sift
  <2> QED
    BY <2>1
<1>2. ASSUME NEW n \in Nat, n \in T PROVE n + 1 \in T
  <2>1. PICK k : Sifts(k, n, s, S)
    BY <1>2
  <2> DEFINE l == [i \in 0 .. n + 1 |-> IF i <= n THEN k[i] ELSE Sift(k, n + 1, s, S)]
  <2>2. ASSUME NEW i \in 0 .. n + 1 PROVE l[i] = Sift(l, i, s, S)
    <3>1. CASE i = 0
      BY <2>1, <3>1 DEF Sifts, Sift
    <3>2. CASE i \in 1 .. n
      BY <2>1, <3>2 DEF Sifts, Sift
    <3>3. CASE i = n + 1
      BY <3>3 DEF Sift
    <3> QED
      BY <3>1, <3>2, <3>3
  <2>3. Sifts(l, n + 1, s, S)
    BY <2>2 DEF Sifts
  <2> QED
    BY <2>3
<1> HIDE DEF T
<1>3. \A n \in Nat : n \in T
  BY <1>1, <1>2, InductiveSet
<1> QED
  BY <1>3 DEF T

\* Filter is the last value of such a function.
LEMMA FilterSifts ==
    ASSUME NEW s, NEW S, Len(s) \in Nat
    PROVE  \E k : Sifts(k, Len(s), s, S) /\ Filter(s, S) = k[Len(s)]
<1> DEFINE best(n) == CHOOSE k : Sifts(k, n, s, S)
           g == [n \in Nat |-> best(n)[n]]
<1>1. ASSUME NEW n \in Nat PROVE Sifts(best(n), n, s, S)
  BY SiftsExists
<1>2. ASSUME NEW n \in Nat, NEW m \in 0 .. n PROVE best(n)[m] = g[m]
  <2>1. Sifts(best(n), m, s, S)
    BY <1>1 DEF Sifts
  <2>2. Sifts(best(m), m, s, S) /\ m \in 0 .. m
    BY <1>1
  <2> HIDE DEF best
  <2>3. best(n)[m] = best(m)[m]
    BY <2>1, <2>2, SiftsUnique
  <2> QED
    BY <2>3
<1>3. ASSUME NEW n \in Nat PROVE g[n] = Sift(g, n, s, S)
  <2>1. g[n] = Sift(best(n), n, s, S)
    BY <1>1 DEF Sifts
  <2>2. n # 0 => best(n)[n - 1] = g[n - 1]
    <3>1. n # 0 => n - 1 \in 0 .. n
      OBVIOUS
    <3> HIDE DEF best, g
    <3> QED
      BY <1>2, <3>1
  <2> HIDE DEF best, g
  <2> QED
    BY <2>1, <2>2 DEF Sift
<1> HIDE DEF g
<1>4. \E k : k = [i \in Nat |-> IF i = 0 THEN <<>>
                                ELSE IF s[i] \in S THEN Append(k[i - 1], s[i]) ELSE k[i - 1]]
  <2>1. g = [i \in Nat |-> IF i = 0 THEN <<>>
                                ELSE IF s[i] \in S THEN Append(g[i - 1], s[i]) ELSE g[i - 1]]
    <3>1. g = [n \in Nat |-> g[n]]
      BY DEF g
    <3>2. \A n \in Nat : g[n] = IF n = 0 THEN <<>>
                                ELSE IF s[n] \in S THEN Append(g[n - 1], s[n]) ELSE g[n - 1]
      BY <1>3 DEF Sift
    <3> QED
      BY <3>1, <3>2, Zenon
  <2> QED
    BY <2>1
<1> DEFINE h == CHOOSE k : k = [i \in Nat |-> IF i = 0 THEN <<>>
                                ELSE IF s[i] \in S THEN Append(k[i - 1], s[i]) ELSE k[i - 1]]
<1>5. h = [i \in Nat |-> IF i = 0 THEN <<>>
                                ELSE IF s[i] \in S THEN Append(h[i - 1], s[i]) ELSE h[i - 1]]
  BY <1>4, Zenon
<1>6. Filter(s, S) = h[Len(s)]
  BY DEF Filter
<1> HIDE DEF h
<1>7. Sifts(h, Len(s), s, S)
  <2>1. ASSUME NEW i \in Nat PROVE h[i] = Sift(h, i, s, S)
    BY <1>5, Zenon DEF Sift
  <2> QED
    BY <2>1 DEF Sifts
<1> QED
  BY <1>6, <1>7

\* The elements of a sequence with one more at the end.
LEMMA AppendFacts ==
    ASSUME NEW T, NEW s \in Seq(T), NEW x \in T
    PROVE  /\ Append(s, x) \in Seq(T)
           /\ Range(Append(s, x)) = Range(s) \cup {x}
           /\ IsInjective(s) /\ x \notin Range(s) => IsInjective(Append(s, x))
<1>1. /\ Append(s, x) \in Seq(T) /\ Len(s) \in Nat /\ DOMAIN s = 1 .. Len(s)
      /\ DOMAIN Append(s, x) = 1 .. Len(s) + 1
      /\ \A i \in 1 .. Len(s) : Append(s, x)[i] = s[i]
      /\ Append(s, x)[Len(s) + 1] = x
  OBVIOUS
<1>2. 1 .. Len(s) + 1 = (1 .. Len(s)) \cup {Len(s) + 1}
  BY <1>1
<1>3. Range(Append(s, x)) = Range(s) \cup {x}
  <2> DEFINE a == Append(s, x)
             n == Len(s) + 1
             D == 1 .. Len(s)
  <2>1. DOMAIN a = D \cup {n} /\ DOMAIN s = D /\ a[n] = x /\ \A i \in D : a[i] = s[i]
    BY <1>1, <1>2
  <2> HIDE DEF a, n, D
  <2>2. Range(a) = Range(s) \cup {x}
    BY <2>1 DEF Range
  <2> QED
    BY <2>2 DEF a
<1>4. ASSUME IsInjective(s), x \notin Range(s),
             NEW i \in 1 .. Len(s) + 1, NEW j \in 1 .. Len(s) + 1, Append(s, x)[i] = Append(s, x)[j]
      PROVE  i = j
  <2>1. \A k \in 1 .. Len(s) : s[k] # x
    BY <1>1, <1>4 DEF Range
  <2> QED
    BY <1>1, <1>4, <2>1 DEF IsInjective
<1> QED
  BY <1>1, <1>3, <1>4 DEF IsInjective

\* Filter leaves the elements that are in the set, none twice.
LEMMA FilterFacts ==
    ASSUME NEW T, NEW s \in Seq(T), NEW S
    PROVE  /\ Filter(s, S) \in Seq(T)
           /\ Range(Filter(s, S)) = Range(s) \cap S
           /\ IsInjective(s) => IsInjective(Filter(s, S))
<1>0. Len(s) \in Nat /\ DOMAIN s = 1 .. Len(s) /\ \A i \in 1 .. Len(s) : s[i] \in T
  OBVIOUS
<1>1. PICK k : Sifts(k, Len(s), s, S) /\ Filter(s, S) = k[Len(s)]
  BY <1>0, FilterSifts
<1> DEFINE Upto(n) == {s[i] : i \in 1 .. n}
           Right(n) == /\ k[n] \in Seq(T)
                       /\ Range(k[n]) = Upto(n) \cap S
                       /\ IsInjective(s) => IsInjective(k[n])
           N == {n \in Nat : n <= Len(s) => Right(n)}
<1>2. 0 \in N
  <2>1. k[0] = <<>>
    BY <1>0, <1>1 DEF Sifts, Sift
  <2>2. <<>> \in Seq(T) /\ Range(<<>>) = {} /\ IsInjective(<<>>)
    BY DEF Range, IsInjective
  <2>3. Upto(0) = {}
    OBVIOUS
  <2> QED
    BY <2>1, <2>2, <2>3
<1>3. ASSUME NEW n \in Nat, n \in N PROVE n + 1 \in N
  <2> SUFFICES ASSUME n + 1 <= Len(s) PROVE Right(n + 1)
    OBVIOUS
  <2>1. Right(n) /\ n + 1 \in 1 .. Len(s) /\ s[n + 1] \in T
    BY <1>0, <1>3
  <2>2. k[n + 1] = IF s[n + 1] \in S THEN Append(k[n], s[n + 1]) ELSE k[n]
    <3>1. k[n + 1] = Sift(k, n + 1, s, S) /\ (n + 1) - 1 = n /\ n + 1 # 0
      BY <1>1, <2>1 DEF Sifts
    <3> QED
      BY <3>1 DEF Sift
  <2>3. Upto(n + 1) = Upto(n) \cup {s[n + 1]}
    <3>1. 1 .. n + 1 = (1 .. n) \cup {n + 1}
      OBVIOUS
    <3> QED
      BY <3>1
  <2>4. IsInjective(s) => s[n + 1] \notin Upto(n)
    BY <1>0, <2>1 DEF IsInjective
  <2> HIDE DEF Upto
  <2>5. CASE s[n + 1] \in S
    <3>1. /\ Append(k[n], s[n + 1]) \in Seq(T)
          /\ Range(Append(k[n], s[n + 1])) = Range(k[n]) \cup {s[n + 1]}
          /\ IsInjective(k[n]) /\ s[n + 1] \notin Range(k[n]) => IsInjective(Append(k[n], s[n + 1]))
      BY <2>1, AppendFacts
    <3> QED
      BY <2>1, <2>2, <2>3, <2>4, <2>5, <3>1
  <2>6. CASE s[n + 1] \notin S
    BY <2>1, <2>2, <2>3, <2>6
  <2> QED
    BY <2>5, <2>6
<1> HIDE DEF N
<1>4. \A n \in Nat : n \in N
  BY <1>2, <1>3, InductiveSet
<1>5. Right(Len(s))
  BY <1>0, <1>4 DEF N
<1>6. Upto(Len(s)) = Range(s)
  BY <1>0 DEF Range
<1> QED
  BY <1>1, <1>5, <1>6

-----------------------------------------------------------------------------
(* What is in a sequence *)

\* A sequence without its first element.
LEMMA TailFacts ==
    ASSUME NEW T, NEW s \in Seq(T), s # <<>>
    PROVE  /\ Head(s) \in T /\ Tail(s) \in Seq(T)
           /\ Range(s) = {Head(s)} \cup Range(Tail(s))
           /\ IsInjective(s) => IsInjective(Tail(s)) /\ Head(s) \notin Range(Tail(s))
<1>1. /\ Head(s) \in T /\ Tail(s) \in Seq(T)
      /\ Len(s) \in Nat /\ Len(s) > 0 /\ DOMAIN s = 1 .. Len(s)
      /\ DOMAIN Tail(s) = 1 .. Len(s) - 1 /\ Head(s) = s[1]
      /\ \A i \in 1 .. Len(s) - 1 : Tail(s)[i] = s[i + 1] /\ i + 1 \in 1 .. Len(s)
  OBVIOUS
<1>2. \A i \in 1 .. Len(s) : i = 1 \/ (i - 1 \in 1 .. Len(s) - 1 /\ (i - 1) + 1 = i)
  BY <1>1
<1>3. \A i \in 1 .. Len(s) : i = 1 \/ (i - 1 \in DOMAIN Tail(s) /\ Tail(s)[i - 1] = s[i])
  BY <1>1, <1>2
<1>4. Range(s) = {Head(s)} \cup Range(Tail(s))
  <2>1. \A i \in DOMAIN s : s[i] = Head(s) \/ s[i] \in Range(Tail(s))
    BY <1>1, <1>3 DEF Range
  <2>2. Head(s) \in Range(s) /\ \A i \in DOMAIN Tail(s) : Tail(s)[i] \in Range(s)
    BY <1>1 DEF Range
  <2>3. Range(Tail(s)) \subseteq Range(s)
    BY <2>2 DEF Range
  <2>4. Range(s) \subseteq {Head(s)} \cup Range(Tail(s))
    BY <2>1 DEF Range
  <2> QED
    BY <2>2, <2>3, <2>4
<1>5. ASSUME IsInjective(s) PROVE IsInjective(Tail(s)) /\ Head(s) \notin Range(Tail(s))
  BY <1>1, <1>5 DEF IsInjective, Range
<1> QED
  BY <1>1, <1>4, <1>5

\* Two sequences with no element in common, put together.
LEMMA ConcatFacts ==
    ASSUME NEW T, NEW s \in Seq(T), NEW t \in Seq(T)
    PROVE  /\ s \o t \in Seq(T)
           /\ Range(s \o t) = Range(s) \cup Range(t)
           /\ IsInjective(s) /\ IsInjective(t) /\ Range(s) \cap Range(t) = {}
                => IsInjective(s \o t)
<1>1. /\ s \o t \in Seq(T) /\ Len(s \o t) = Len(s) + Len(t)
      /\ \A i \in 1 .. Len(s) + Len(t) :
            (s \o t)[i] = IF i <= Len(s) THEN s[i] ELSE t[i - Len(s)]
  BY ConcatProperties, Zenon
<1>2. /\ Len(s) \in Nat /\ Len(t) \in Nat /\ DOMAIN s = 1 .. Len(s) /\ DOMAIN t = 1 .. Len(t)
      /\ DOMAIN (s \o t) = 1 .. Len(s) + Len(t)
  BY <1>1
<1>3. ASSUME IsInjective(s), IsInjective(t), Range(s) \cap Range(t) = {},
             NEW i \in 1 .. Len(s) + Len(t), NEW j \in 1 .. Len(s) + Len(t),
             (s \o t)[i] = (s \o t)[j]
      PROVE  i = j
  <2>1. \A k \in 1 .. Len(s), l \in 1 .. Len(t) : s[k] # t[l]
    BY <1>2, <1>3 DEF Range
  <2>2. \A k \in 1 .. Len(s) + Len(t) : k <= Len(s) \/ k - Len(s) \in 1 .. Len(t)
    BY <1>2
  <2>3. CASE i <= Len(s) /\ j <= Len(s)
    BY <1>1, <1>2, <1>3, <2>3 DEF IsInjective
  <2>4. CASE i > Len(s) /\ j > Len(s)
    <3>1. i - Len(s) \in 1 .. Len(t) /\ j - Len(s) \in 1 .. Len(t)
      BY <1>2, <2>2, <2>4
    <3>2. t[i - Len(s)] = t[j - Len(s)]
      BY <1>1, <1>2, <1>3, <2>4
    <3>3. i - Len(s) = j - Len(s)
      BY <1>2, <1>3, <3>1, <3>2 DEF IsInjective
    <3> QED
      BY <1>2, <3>3
  <2>5. CASE i <= Len(s) /\ j > Len(s)
    BY <1>1, <1>2, <1>3, <2>1, <2>2, <2>5
  <2>6. CASE i > Len(s) /\ j <= Len(s)
    BY <1>1, <1>2, <1>3, <2>1, <2>2, <2>6
  <2> QED
    BY <1>2, <2>3, <2>4, <2>5, <2>6
<1> QED
  BY <1>1, <1>2, <1>3, RangeConcatenation DEF IsInjective

\* A sequence taken apart after k elements.
LEMMA SplitFacts ==
    ASSUME NEW T, NEW s \in Seq(T), NEW k \in 0 .. Len(s)
    PROVE  LET a == SubSeq(s, 1, k)
               b == SubSeq(s, k + 1, Len(s))
           IN  /\ a \in Seq(T) /\ b \in Seq(T)
               /\ Range(s) = Range(a) \cup Range(b)
               /\ IsInjective(s) => /\ IsInjective(a) /\ IsInjective(b)
                                    /\ Range(a) \cap Range(b) = {}
<1> DEFINE a == SubSeq(s, 1, k)
           b == SubSeq(s, k + 1, Len(s))
           n == Len(s)
<1>0. n \in Nat /\ DOMAIN s = 1 .. n /\ \A i \in 1 .. n : s[i] \in T
  OBVIOUS
<1>1. a \in Seq(T) /\ Len(a) = k /\ \A i \in 1 .. k : a[i] = s[i]
  OBVIOUS
<1>2. b \in Seq(T) /\ Len(b) = n - k /\ \A i \in 1 .. n - k : b[i] = s[k + i]
  <2>1. \A i \in k + 1 .. n : s[i] \in T
    BY <1>0
  <2>2. /\ b \in Seq(T) /\ Len(b) = IF k + 1 <= n THEN n - (k + 1) + 1 ELSE 0
        /\ \A i \in 1 .. n - (k + 1) + 1 : b[i] = s[(k + 1) + i - 1]
    BY <1>0, <2>1, SubSeqProperties
  <2>3. n - (k + 1) + 1 = n - k /\ \A i \in 1 .. n - k : (k + 1) + i - 1 = k + i
    BY <1>0
  <2> HIDE DEF b, n
  <2> QED
    BY <1>0, <2>2, <2>3
<1> HIDE DEF a, b, n
<1>3. /\ DOMAIN a = 1 .. k /\ DOMAIN b = 1 .. n - k /\ k \in 0 .. n
      /\ \A i \in 1 .. n : i <= k \/ (i - k \in 1 .. n - k /\ k + (i - k) = i)
  BY <1>0, <1>1, <1>2 DEF n
<1>4. \A i \in 1 .. n : (i \in 1 .. k /\ a[i] = s[i]) \/ (i - k \in 1 .. n - k /\ b[i - k] = s[i])
  BY <1>0, <1>1, <1>2, <1>3
<1>5. /\ \A i \in 1 .. k : i \in 1 .. n /\ a[i] = s[i]
      /\ \A i \in 1 .. n - k : k + i \in 1 .. n /\ b[i] = s[k + i]
  BY <1>0, <1>1, <1>2, <1>3
<1>6. Range(s) = Range(a) \cup Range(b)
  BY <1>0, <1>3, <1>4, <1>5 DEF Range
<1>7. ASSUME IsInjective(s) PROVE IsInjective(a) /\ IsInjective(b) /\ Range(a) \cap Range(b) = {}
  <2>1. IsInjective(a)
    BY <1>0, <1>3, <1>5, <1>7 DEF IsInjective
  <2>2. IsInjective(b)
    <3>1. ASSUME NEW i \in 1 .. n - k, NEW j \in 1 .. n - k, b[i] = b[j] PROVE i = j
      <4>1. k + i = k + j
        BY <1>0, <1>5, <1>7, <3>1 DEF IsInjective
      <4> QED
        BY <1>3, <4>1
    <3> QED
      BY <1>3, <3>1 DEF IsInjective
  <2>3. ASSUME NEW i \in 1 .. k, NEW j \in 1 .. n - k, a[i] = b[j] PROVE FALSE
    <3>1. i \in 1 .. n /\ k + j \in 1 .. n /\ s[i] = s[k + j]
      BY <1>5, <2>3
    <3>2. i = k + j
      BY <1>0, <1>7, <3>1 DEF IsInjective
    <3> QED
      BY <1>3, <3>2
  <2> QED
    BY <1>3, <2>1, <2>2, <2>3 DEF Range
<1> QED
  BY <1>1, <1>2, <1>6, <1>7 DEF a, b, n

-----------------------------------------------------------------------------
(* Two queues as one *)

\* The first element of the first is taken.
LEMMA TailConcat ==
    ASSUME NEW T, NEW s \in Seq(T), NEW t \in Seq(T), s # <<>>
    PROVE  s \o t # <<>> /\ Head(s \o t) = Head(s) /\ Tail(s \o t) = Tail(s) \o t
<1>1. /\ s \o t \in Seq(T) /\ Len(s \o t) = Len(s) + Len(t)
      /\ \A i \in 1 .. Len(s) + Len(t) :
            (s \o t)[i] = IF i <= Len(s) THEN s[i] ELSE t[i - Len(s)]
  BY ConcatProperties, Zenon
<1>2. /\ Len(s) \in Nat /\ Len(s) > 0 /\ Len(t) \in Nat
      /\ Tail(s) \in Seq(T) /\ Len(Tail(s)) = Len(s) - 1
      /\ \A i \in 1 .. Len(s) - 1 : Tail(s)[i] = s[i + 1]
  OBVIOUS
<1>3. /\ Tail(s) \o t \in Seq(T) /\ Len(Tail(s) \o t) = Len(Tail(s)) + Len(t)
      /\ \A i \in 1 .. Len(Tail(s)) + Len(t) :
            (Tail(s) \o t)[i] = IF i <= Len(Tail(s)) THEN Tail(s)[i] ELSE t[i - Len(Tail(s))]
  BY <1>2, ConcatProperties, Zenon
<1>4. s \o t # <<>> /\ Head(s \o t) = (s \o t)[1] /\ Head(s) = s[1] /\ (s \o t)[1] = s[1]
  <2>1. s \o t # <<>>
    BY <1>1, <1>2
  <2>2. (s \o t)[1] = s[1]
    BY <1>1, <1>2
  <2> QED
    BY <1>1, <2>1, <2>2
<1>5. /\ Tail(s \o t) \in Seq(T) /\ Len(Tail(s \o t)) = Len(s) + Len(t) - 1
      /\ \A i \in 1 .. Len(s) + Len(t) - 1 : Tail(s \o t)[i] = (s \o t)[i + 1]
  BY <1>1, <1>4, HeadTailProperties
<1>6. ASSUME NEW i \in 1 .. Len(s) + Len(t) - 1
      PROVE  Tail(s \o t)[i] = (Tail(s) \o t)[i]
  <2>1. Tail(s \o t)[i] = IF i + 1 <= Len(s) THEN s[i + 1] ELSE t[i + 1 - Len(s)]
    BY <1>1, <1>2, <1>5
  <2>2. (Tail(s) \o t)[i] = IF i <= Len(s) - 1 THEN Tail(s)[i] ELSE t[i - (Len(s) - 1)]
    BY <1>2, <1>3
  <2>3. i - (Len(s) - 1) = i + 1 - Len(s)
    BY <1>2
  <2> QED
    BY <1>2, <2>1, <2>2, <2>3
<1>7. Tail(s \o t) = Tail(s) \o t
  <2>1. Len(Tail(s \o t)) = Len(Tail(s) \o t)
    BY <1>2, <1>3, <1>5
  <2> QED
    BY <1>3, <1>5, <1>6, <2>1, SeqEqual
<1> QED
  BY <1>4, <1>7

\* An element is put at the end of the second.
LEMMA AppendConcat ==
    ASSUME NEW T, NEW s \in Seq(T), NEW t \in Seq(T), NEW x \in T
    PROVE  s \o Append(t, x) = Append(s \o t, x)
<1>1. s \o t \in Seq(T) /\ <<x>> \in Seq(T)
  BY ConcatProperties
<1>2. Append(t, x) = t \o <<x>> /\ Append(s \o t, x) = (s \o t) \o <<x>>
  BY <1>1, AppendIsConcat
<1>3. (s \o t) \o <<x>> = s \o (t \o <<x>>)
  BY <1>1, ConcatAssociative
<1> QED
  BY <1>2, <1>3

-----------------------------------------------------------------------------
(* Messages of a queue *)

\* The first message and the others are messages of the sequence.
LEMMA RangeHead ==
    ASSUME NEW T, NEW q \in Seq(T), q # <<>>
    PROVE  Head(q) \in T /\ Head(q) \in Range(q) /\ Tail(q) \in Seq(T) /\ Range(Tail(q)) \subseteq Range(q)
BY TailFacts

\* Those before a cut are too.
LEMMA RangePrefix ==
    ASSUME NEW T, NEW q \in Seq(T), NEW k \in 0 .. Len(q)
    PROVE  Range(SubSeq(q, 1, k)) \subseteq Range(q)
BY SplitFacts

\* A message at the end of a sequence, whatever it is.
LEMMA RangeAppend ==
    ASSUME NEW T, NEW q \in Seq(T), NEW x
    PROVE  Range(Append(q, x)) = Range(q) \cup {x}
<1>1. q \in Seq(T \cup {x}) /\ x \in T \cup {x}
  OBVIOUS
<1> QED
  BY <1>1, AppendFacts

\* The last message of a sequence.
LEMMA LastIn ==
    ASSUME NEW T, NEW M \in Seq(T), NEW D, NEW x, Append(M, x) \in Seq(D)
    PROVE  x \in D
<1>1. PICK N : N = Append(M, x)
  OBVIOUS
<1>2. N \in Seq(D) /\ Range(N) = Range(M) \cup {x}
  BY <1>1, RangeAppend
<1>3. Range(N) \subseteq D
  BY <1>2 DEF Range
<1> QED
  BY <1>2, <1>3

\* AppendConcat for all sequences of a set.
LEMMA AppendAll ==
    ASSUME NEW T
    PROVE  \A a, b \in Seq(T), x \in T : a \o Append(b, x) = Append(a \o b, x)
BY AppendConcat

-----------------------------------------------------------------------------
(* The order of messages *)

\* No two messages of a sequence are in an order of R.
Ordered(M, R) == \A i, j \in DOMAIN M : i < j => <<M[i], M[j]>> \notin R

\* It stays so when the first is taken, which none of the others precedes,
LEMMA OrderedTail ==
    ASSUME NEW T, NEW M \in Seq(T), M # <<>>, NEW R, Ordered(M, R)
    PROVE  Ordered(Tail(M), R) /\ \A b \in Range(Tail(M)) : <<Head(M), b>> \notin R
<1>1. Tail(M) \in Seq(T) /\ Len(Tail(M)) = Len(M) - 1 /\ Len(M) \in Nat
      /\ \A i \in 1 .. Len(M) - 1 : Tail(M)[i] = M[i + 1]
  OBVIOUS
<1>2. DOMAIN M = 1 .. Len(M) /\ DOMAIN Tail(M) = 1 .. Len(M) - 1
  BY <1>1
<1>3. ASSUME NEW i \in DOMAIN Tail(M), NEW j \in DOMAIN Tail(M), i < j
      PROVE  <<Tail(M)[i], Tail(M)[j]>> \notin R
  <2>1. i + 1 \in DOMAIN M /\ j + 1 \in DOMAIN M /\ i + 1 < j + 1
    BY <1>1, <1>2, <1>3
  <2>2. Tail(M)[i] = M[i + 1] /\ Tail(M)[j] = M[j + 1]
    BY <1>1, <1>2
  <2> QED
    BY <2>1, <2>2 DEF Ordered
<1>4. ASSUME NEW b \in Range(Tail(M))
      PROVE  <<Head(M), b>> \notin R
  <2>1. PICK j \in DOMAIN Tail(M) : b = Tail(M)[j]
    BY DEF Range
  <2>2. 1 \in DOMAIN M /\ j + 1 \in DOMAIN M /\ 1 < j + 1
    BY <1>1, <1>2
  <2>3. Head(M) = M[1] /\ b = M[j + 1]
    BY <1>1, <1>2, <2>1
  <2> QED
    BY <2>2, <2>3 DEF Ordered
<1> QED
  BY <1>3, <1>4 DEF Ordered

\* when the sequence is cut off,
LEMMA OrderedPrefix ==
    ASSUME NEW T, NEW M \in Seq(T), NEW k \in 0 .. Len(M), NEW R, Ordered(M, R)
    PROVE  Ordered(SubSeq(M, 1, k), R)
<1>1. DOMAIN SubSeq(M, 1, k) = 1 .. k /\ DOMAIN M = 1 .. Len(M) /\ Len(M) \in Nat
      /\ \A i \in 1 .. k : SubSeq(M, 1, k)[i] = M[i]
  OBVIOUS
<1>2. 1 .. k \subseteq DOMAIN M
  BY <1>1
<1> QED
  BY <1>1, <1>2 DEF Ordered

\* when another is put at the end that may follow them,
LEMMA OrderedAppend ==
    ASSUME NEW T, NEW M \in Seq(T), NEW x, NEW R, Ordered(M, R),
           \A a \in Range(M) : <<a, x>> \notin R
    PROVE  Ordered(Append(M, x), R)
<1>1. DOMAIN Append(M, x) = 1 .. Len(M) + 1 /\ DOMAIN M = 1 .. Len(M) /\ Len(M) \in Nat
      /\ (\A i \in 1 .. Len(M) : Append(M, x)[i] = M[i]) /\ Append(M, x)[Len(M) + 1] = x
  OBVIOUS
<1>2. ASSUME NEW i \in DOMAIN Append(M, x), NEW j \in DOMAIN Append(M, x), i < j
      PROVE  <<Append(M, x)[i], Append(M, x)[j]>> \notin R
  <2>1. i \in DOMAIN M /\ Append(M, x)[i] = M[i]
    BY <1>1, <1>2
  <2>2. CASE j = Len(M) + 1
    <3>1. M[i] \in Range(M) /\ Append(M, x)[j] = x
      BY <1>1, <2>1, <2>2 DEF Range
    <3> QED
      BY <2>1, <3>1
  <2>3. CASE j # Len(M) + 1
    <3>1. j \in DOMAIN M /\ Append(M, x)[j] = M[j]
      BY <1>1, <2>3
    <3> QED
      BY <1>2, <2>1, <3>1 DEF Ordered
  <2> QED
    BY <2>2, <2>3
<1> QED
  BY <1>2 DEF Ordered

\* and when others are put there that R is not about.
LEMMA OrderedConcat ==
    ASSUME NEW T, NEW M \in Seq(T), NEW t \in Seq(T), NEW R, Ordered(M, R),
           \A a \in Range(t) : \A b : <<b, a>> \notin R
    PROVE  Ordered(M \o t, R)
<1>1. DOMAIN (M \o t) = 1 .. Len(M) + Len(t) /\ DOMAIN M = 1 .. Len(M) /\ DOMAIN t = 1 .. Len(t)
      /\ Len(M) \in Nat /\ Len(t) \in Nat
      /\ (\A i \in 1 .. Len(M) : (M \o t)[i] = M[i])
      /\ \A i \in 1 .. Len(M) + Len(t) : i > Len(M) => (M \o t)[i] = t[i - Len(M)]
  OBVIOUS
<1>2. ASSUME NEW i \in DOMAIN (M \o t), NEW j \in DOMAIN (M \o t), i < j
      PROVE  <<(M \o t)[i], (M \o t)[j]>> \notin R
  <2>1. CASE j > Len(M)
    <3>1. j - Len(M) \in DOMAIN t /\ (M \o t)[j] = t[j - Len(M)]
      BY <1>1, <2>1
    <3>2. (M \o t)[j] \in Range(t)
      BY <3>1 DEF Range
    <3> QED
      BY <3>2
  <2>2. CASE ~(j > Len(M))
    <3>1. j \in DOMAIN M /\ (M \o t)[j] = M[j]
      BY <1>1, <2>2
    <3>2. i \in DOMAIN M /\ (M \o t)[i] = M[i]
      BY <1>1, <1>2, <2>2
    <3> QED
      BY <1>2, <3>1, <3>2 DEF Ordered
  <2> QED
    BY <2>1, <2>2
<1> QED
  BY <1>2 DEF Ordered

\* The empty sequence is in any order.
LEMMA EmptyOrdered == Range(<<>>) = {} /\ \A R : Ordered(<<>>, R)
BY DEF Range, Ordered

-----------------------------------------------------------------------------
(* Labelled messages that go through several queues *)

\* The numbers of the messages of M that are in A, and which comes before which.
Before(M, A, a, b) ==
    \E i, j \in DOMAIN M : i < j /\ M[i] \in A /\ M[j] \in A /\ M[i].n = a /\ M[j].n = b
Stage(M, A) ==
    [n |-> {a \in Nat : \E i \in DOMAIN M : M[i] \in A /\ M[i].n = a},
     q |-> {p \in Nat \X Nat : Before(M, A, p[1], p[2])}]
Labelled(A) == \A x \in A : x.n \in Nat

\* What can happen to a stage: nothing or a loss, a loss at its end, its first
\* number c leaves, and c enters it.
Keeps(x, y) == y.n = x.n /\ y.q \subseteq x.q
Less(x, y) == y.n \subseteq x.n /\ y.q \subseteq x.q
Cuts(x, y) == Less(x, y) /\ \A a \in y.n, b \in x.n \ y.n : <<a, b>> \in x.q
Gives(x, y, c) == x.n = y.n \cup {c} /\ y.q \subseteq x.q /\ \A b \in y.n : <<c, b>> \in x.q
Gains(x, y, c) ==
    /\ y.n = x.n \cup {c}
    /\ \A a, b : <<a, b>> \in y.q => a \in x.n /\ ((b \in x.n /\ <<a, b>> \in x.q) \/ b = c)

\* What is in a stage.
LEMMA StageIs ==
    ASSUME NEW M, NEW A, Labelled(A)
    PROVE  /\ \A a : a \in Stage(M, A).n <=> \E i \in DOMAIN M : M[i] \in A /\ M[i].n = a
           /\ \A a, b : <<a, b>> \in Stage(M, A).q <=> Before(M, A, a, b)
           /\ \A p \in Stage(M, A).q : \E a, b : p = <<a, b>>
<1>1. \A a : a \in Stage(M, A).n <=> \E i \in DOMAIN M : M[i] \in A /\ M[i].n = a
  BY DEF Stage, Labelled
<1>2. Stage(M, A).q = {p \in Nat \X Nat : Before(M, A, p[1], p[2])}
  BY DEF Stage
<1>3. ASSUME NEW a, NEW b PROVE <<a, b>> \in Stage(M, A).q <=> Before(M, A, a, b)
  <2>1. Before(M, A, a, b) => a \in Nat /\ b \in Nat
    BY DEF Before, Labelled
  <2> QED
    BY <1>2, <2>1
<1>4. \A p \in Stage(M, A).q : \E a, b : p = <<a, b>>
  BY <1>2
<1> QED
  BY <1>1, <1>3, <1>4

\* No more numbers and no more pairs.
LEMMA FewerIs ==
    ASSUME NEW M, NEW N, NEW A, Labelled(A),
           \A a, b : Before(N, A, a, b) => Before(M, A, a, b)
    PROVE  Stage(N, A).q \subseteq Stage(M, A).q
BY StageIs

\* The first message is taken.
LEMMA StageTail ==
    ASSUME NEW T, NEW M \in Seq(T), M # <<>>, NEW A, Labelled(A)
    PROVE  /\ Head(M) \in A => Gives(Stage(M, A), Stage(Tail(M), A), Head(M).n)
           /\ Head(M) \notin A => Keeps(Stage(M, A), Stage(Tail(M), A))
<1>1. PICK N, h : N = Tail(M) /\ h = Head(M)
  OBVIOUS
<1>2. /\ DOMAIN M = 1 .. Len(M) /\ DOMAIN N = 1 .. Len(M) - 1 /\ Len(M) \in Nat /\ Len(M) # 0
      /\ h = M[1] /\ \A i \in DOMAIN N : N[i] = M[i + 1]
  BY <1>1
<1>3. /\ 1 \in DOMAIN M /\ \A i \in DOMAIN N : i + 1 \in DOMAIN M /\ i \in Nat /\ 1 < i + 1
      /\ \A i, j \in DOMAIN N : i < j => i + 1 < j + 1
      /\ \A i \in DOMAIN M : i = 1 \/ i - 1 \in DOMAIN N
  BY <1>2
<1>4. \A a, b : Before(N, A, a, b) => Before(M, A, a, b)
  BY <1>2, <1>3 DEF Before
<1>5. Stage(N, A).q \subseteq Stage(M, A).q
  BY <1>4, FewerIs
<1>6. \A a : (\E i \in DOMAIN M : M[i] \in A /\ M[i].n = a)
                <=> (h \in A /\ h.n = a) \/ \E i \in DOMAIN N : N[i] \in A /\ N[i].n = a
  <2>1. \A i \in DOMAIN M : i = 1 \/ (i - 1 \in DOMAIN N /\ N[i - 1] = M[i])
    <3>1. \A i \in DOMAIN M : (i - 1) + 1 = i
      BY <1>2
    <3> QED
      BY <1>2, <1>3, <3>1
  <2>2. \A i \in DOMAIN N : i + 1 \in DOMAIN M /\ M[i + 1] = N[i]
    BY <1>2, <1>3
  <2> QED
    BY <1>2, <1>3, <2>1, <2>2
<1>7. \A a : a \in Stage(M, A).n <=> (h \in A /\ h.n = a) \/ a \in Stage(N, A).n
  BY <1>6, StageIs
<1>8. ASSUME h \in A, NEW b \in Stage(N, A).n PROVE <<h.n, b>> \in Stage(M, A).q
  <2>1. PICK i \in DOMAIN N : N[i] \in A /\ N[i].n = b
    BY StageIs
  <2>2. Before(M, A, h.n, b)
    BY <1>2, <1>3, <1>8, <2>1 DEF Before
  <2> QED
    BY <2>2, StageIs
<1>9. h \in A => Gives(Stage(M, A), Stage(N, A), h.n)
  BY <1>5, <1>7, <1>8 DEF Gives
<1>10. h \notin A => Keeps(Stage(M, A), Stage(N, A))
  BY <1>5, <1>7 DEF Keeps
<1> QED
  BY <1>1, <1>9, <1>10

\* A message comes to the end.
LEMMA StageAppend ==
    ASSUME NEW T, NEW M \in Seq(T), NEW x, NEW A, Labelled(A)
    PROVE  /\ x \in A => Gains(Stage(M, A), Stage(Append(M, x), A), x.n)
           /\ x \notin A => Keeps(Stage(M, A), Stage(Append(M, x), A))
<1>1. PICK N, k : N = Append(M, x) /\ k = Len(M) + 1
  OBVIOUS
<1>2. /\ DOMAIN M = 1 .. Len(M) /\ DOMAIN N = 1 .. k /\ Len(M) \in Nat /\ k \in Nat
      /\ N[k] = x /\ \A i \in DOMAIN M : N[i] = M[i]
  BY <1>1
<1>3. /\ k \in DOMAIN N /\ \A i \in DOMAIN N : i \in DOMAIN M \/ i = k
      /\ \A i \in DOMAIN M : i \in DOMAIN N /\ ~(k < i)
      /\ ~(k < k)
  BY <1>1, <1>2
<1>4. \A a : (\E i \in DOMAIN N : N[i] \in A /\ N[i].n = a)
                <=> (x \in A /\ x.n = a) \/ \E i \in DOMAIN M : M[i] \in A /\ M[i].n = a
  BY <1>2, <1>3
<1>5. \A a : a \in Stage(N, A).n <=> (x \in A /\ x.n = a) \/ a \in Stage(M, A).n
  BY <1>4, StageIs
<1>6. ASSUME NEW a, NEW b, Before(N, A, a, b)
      PROVE  /\ a \in Stage(M, A).n
             /\ (b \in Stage(M, A).n /\ Before(M, A, a, b)) \/ (x \in A /\ b = x.n)
  <2>1. PICK i \in DOMAIN N, j \in DOMAIN N :
            i < j /\ N[i] \in A /\ N[j] \in A /\ N[i].n = a /\ N[j].n = b
    BY <1>6 DEF Before
  <2>2. i \in DOMAIN M /\ M[i] \in A /\ M[i].n = a
    BY <1>2, <1>3, <2>1
  <2>3. CASE j = k
    BY <1>2, <2>1, <2>2, <2>3, StageIs
  <2>4. CASE j \in DOMAIN M
    <3>1. M[j] \in A /\ M[j].n = b
      BY <1>2, <2>1, <2>4
    <3>2. Before(M, A, a, b)
      BY <2>1, <2>2, <2>4, <3>1 DEF Before
    <3> QED
      BY <2>2, <2>4, <3>1, <3>2, StageIs
  <2> QED
    BY <1>3, <2>3, <2>4
<1>7. x \in A => Gains(Stage(M, A), Stage(N, A), x.n)
  BY <1>5, <1>6, StageIs DEF Gains
<1>8. x \notin A => Keeps(Stage(M, A), Stage(N, A))
  BY <1>5, <1>6, FewerIs DEF Keeps
<1> QED
  BY <1>1, <1>7, <1>8

\* The end is cut off.
LEMMA StagePrefix ==
    ASSUME NEW T, NEW M \in Seq(T), NEW k \in 0 .. Len(M), NEW A, Labelled(A)
    PROVE  Cuts(Stage(M, A), Stage(SubSeq(M, 1, k), A))
<1>1. PICK N : N = SubSeq(M, 1, k)
  OBVIOUS
<1>2. /\ DOMAIN M = 1 .. Len(M) /\ DOMAIN N = 1 .. k /\ Len(M) \in Nat /\ k \in Nat
      /\ \A i \in DOMAIN N : N[i] = M[i] /\ i \in DOMAIN M
  BY <1>1
<1>3. \A a, b : Before(N, A, a, b) => Before(M, A, a, b)
  BY <1>2 DEF Before
<1>4. Stage(N, A).q \subseteq Stage(M, A).q
  BY <1>3, FewerIs
<1>5. Stage(N, A).n \subseteq Stage(M, A).n
  BY <1>2, StageIs
<1>6. ASSUME NEW a \in Stage(N, A).n, NEW b \in Stage(M, A).n \ Stage(N, A).n
      PROVE  <<a, b>> \in Stage(M, A).q
  <2>1. PICK i \in DOMAIN N : N[i] \in A /\ N[i].n = a
    BY StageIs
  <2>2. PICK j \in DOMAIN M : M[j] \in A /\ M[j].n = b
    BY StageIs
  <2>3. j \notin DOMAIN N
    BY <1>2, <1>6, <2>2, StageIs
  <2>4. i < j
    BY <1>2, <2>3
  <2>5. Before(M, A, a, b)
    BY <1>2, <2>1, <2>2, <2>4 DEF Before
  <2> QED
    BY <2>5, StageIs
<1> QED
  BY <1>1, <1>4, <1>5, <1>6 DEF Cuts, Less

\* Others come to the end.
LEMMA StageConcat ==
    ASSUME NEW T, NEW M \in Seq(T), NEW t \in Seq(T), NEW A, Labelled(A),
           \A i \in DOMAIN t : t[i] \notin A
    PROVE  Keeps(Stage(M, A), Stage(M \o t, A))
<1>1. PICK N : N = M \o t
  OBVIOUS
<1>2. /\ DOMAIN M = 1 .. Len(M) /\ DOMAIN t = 1 .. Len(t) /\ Len(M) \in Nat /\ Len(t) \in Nat
      /\ DOMAIN N = 1 .. Len(M) + Len(t)
      /\ \A i \in DOMAIN N : N[i] = IF i <= Len(M) THEN M[i] ELSE t[i - Len(M)]
  BY <1>1
<1>3. /\ \A i \in DOMAIN M : i \in DOMAIN N /\ N[i] = M[i]
      /\ \A i \in DOMAIN N : i \in DOMAIN M \/ (i - Len(M) \in DOMAIN t /\ N[i] = t[i - Len(M)])
  BY <1>2
<1>4. \A i \in DOMAIN N : N[i] \in A => i \in DOMAIN M
  BY <1>3
<1>5. \A a, b : Before(N, A, a, b) => Before(M, A, a, b)
  BY <1>3, <1>4 DEF Before
<1>6. Stage(N, A).n = Stage(M, A).n
  <2>1. \A a : a \in Stage(N, A).n <=> a \in Stage(M, A).n
    BY <1>3, <1>4, StageIs
  <2> QED
    BY <2>1 DEF Stage
<1> QED
  BY <1>1, <1>5, <1>6, FewerIs DEF Keeps

\* All are lost.
LEMMA StageEmpty ==
    ASSUME NEW x, NEW A, Labelled(A)
    PROVE  Stage(<<>>, A).n = {} /\ Stage(<<>>, A).q = {}
<1>1. DOMAIN <<>> = {}
  OBVIOUS
<1> QED
  BY <1>1 DEF Stage, Before

\* The first is taken and another comes to the end.
LEMMA StageMoves ==
    ASSUME NEW x, NEW y, NEW z, NEW c
    PROVE  /\ Keeps(x, y) /\ Keeps(y, z) => Keeps(x, z)
           /\ Gives(x, y, c) /\ Keeps(y, z) => Gives(x, z, c)
           /\ Keeps(x, y) /\ Gains(y, z, c) => Gains(x, z, c)
           /\ Keeps(x, y) => Cuts(x, y)
           /\ Cuts(x, y) => Less(x, y)
           /\ Gives(x, y, c) => Less(x, y)
<1>1. Keeps(x, y) /\ Keeps(y, z) => Keeps(x, z)
  BY DEF Keeps
<1>2. Gives(x, y, c) /\ Keeps(y, z) => Gives(x, z, c)
  BY DEF Gives, Keeps
<1>3. Keeps(x, y) /\ Gains(y, z, c) => Gains(x, z, c)
  BY DEF Gains, Keeps
<1> QED
  BY <1>1, <1>2, <1>3 DEF Keeps, Cuts, Less, Gives

-----------------------------------------------------------------------------
(* A pipeline of five stages *)

\* The last stage is entered, the first is not left.
Places == 1 .. 5
Within(X, k) == UNION {X[i].n : i \in 1 .. k}
Ahead(X, a, b) ==
    \/ \E k \in Places : a \in X[k].n /\ b \in X[k].n /\ <<a, b>> \in X[k].q
    \/ \E k, l \in Places : k < l /\ a \in X[k].n /\ b \in X[l].n

\* Its steps.
Shrinks(X, Y) == \A k \in Places : Less(X[k], Y[k])
Advances(X, Y, k, c) ==
    /\ k \in 2 .. 5 /\ Gives(X[k], Y[k], c) /\ Gains(X[k - 1], Y[k - 1], c)
    /\ \A j \in Places : j # k /\ j # k - 1 => Keeps(X[j], Y[j])
Enters(X, Y, c) == Gains(X[5], Y[5], c) /\ \A j \in 1 .. 4 : Keeps(X[j], Y[j])

\* Numbers n with the same s[n] are in order, except for s[n] in gone.
InOrder(X, s, gone) ==
    \A a, b : Ahead(X, a, b) /\ s[a] = s[b] /\ s[a] \notin gone => a < b

\* Numbers of which one is ahead of the other are in the pipeline.
LEMMA AheadIn ==
    ASSUME NEW X, NEW a, NEW b, Ahead(X, a, b)
    PROVE  a \in Within(X, 5) /\ b \in Within(X, 5)
BY DEF Ahead, Within, Places

\* Nothing is ahead of what it was not.
LEMMA AheadShrinks ==
    ASSUME NEW X, NEW Y, Shrinks(X, Y), NEW a, NEW b, Ahead(Y, a, b)
    PROVE  Ahead(X, a, b)
<1>1. \A k \in Places : Y[k].n \subseteq X[k].n /\ Y[k].q \subseteq X[k].q
  BY DEF Shrinks, Less
<1> QED
  BY <1>1 DEF Ahead

\* And when a number advances: it passes none.
LEMMA AheadAdvances ==
    ASSUME NEW X, NEW Y, NEW k, NEW c, Advances(X, Y, k, c), NEW a, NEW b, Ahead(Y, a, b)
    PROVE  Ahead(X, a, b)
<1>1. PICK l : l = k - 1
  OBVIOUS
<1>2. k \in Places /\ l \in Places /\ l < k /\ \A j \in Places : (l < j /\ j # k => k < j) /\ (j < k /\ j # l => j < l)
  BY <1>1 DEF Advances, Places
<1>3. /\ X[k].n = Y[k].n \cup {c} /\ Y[k].q \subseteq X[k].q /\ \A y \in Y[k].n : <<c, y>> \in X[k].q
      /\ Y[l].n = X[l].n \cup {c}
      /\ \A x, y : <<x, y>> \in Y[l].q =>
            x \in X[l].n /\ ((y \in X[l].n /\ <<x, y>> \in X[l].q) \/ y = c)
  BY <1>1 DEF Advances, Gives, Gains
<1>4. \A j \in Places : j # k /\ j # l => Y[j].n = X[j].n /\ Y[j].q \subseteq X[j].q
  BY <1>1 DEF Advances, Keeps
<1>5. \A j \in Places : \A x \in Y[j].n : x \in X[j].n \/ (j = l /\ x = c)
  BY <1>3, <1>4
<1>6. ASSUME NEW j \in Places, a \in Y[j].n, b \in Y[j].n, <<a, b>> \in Y[j].q
      PROVE  Ahead(X, a, b)
  <2>1. CASE j # l
    <3>1. a \in X[j].n /\ b \in X[j].n /\ <<a, b>> \in X[j].q
      BY <1>3, <1>4, <1>5, <1>6, <2>1
    <3> QED
      BY <3>1 DEF Ahead
  <2>2. CASE j = l /\ <<a, b>> \in X[l].q /\ a \in X[l].n /\ b \in X[l].n
    BY <1>2, <2>2 DEF Ahead
  <2>3. CASE j = l /\ a \in X[l].n /\ b = c
    <3>1. c \in X[k].n
      BY <1>3
    <3> QED
      BY <1>2, <2>3, <3>1 DEF Ahead
  <2> QED
    BY <1>3, <1>5, <1>6, <2>1, <2>2, <2>3
<1>7. ASSUME NEW i \in Places, NEW j \in Places, i < j, a \in Y[i].n, b \in Y[j].n
      PROVE  Ahead(X, a, b)
  <2>1. CASE a \in X[i].n /\ b \in X[j].n
    BY <1>7, <2>1 DEF Ahead
  <2>2. CASE i = l /\ a = c
    <3>1. CASE j = k
      <4>1. <<a, b>> \in X[k].q /\ a \in X[k].n /\ b \in X[k].n
        BY <1>3, <1>7, <2>2, <3>1
      <4> QED
        BY <1>2, <4>1 DEF Ahead
    <3>2. CASE j # k
      <4>1. k < j
        BY <1>2, <1>7, <2>2, <3>2
      <4>2. j # l
        BY <1>7, <2>2 DEF Places
      <4>3. a \in X[k].n /\ b \in X[j].n
        BY <1>3, <1>5, <1>7, <2>2, <4>2
      <4> QED
        BY <1>2, <4>1, <4>3 DEF Ahead
    <3> QED
      BY <3>1, <3>2
  <2>3. CASE a \in X[i].n /\ j = l /\ b = c
    <3>1. i < k /\ b \in X[k].n
      BY <1>2, <1>3, <1>7, <2>3 DEF Places
    <3> QED
      BY <1>2, <2>3, <3>1 DEF Ahead
  <2> QED
    BY <1>5, <1>7, <2>1, <2>2, <2>3
<1> QED
  BY <1>6, <1>7 DEF Ahead

\* A number that enters is behind all others.
LEMMA AheadEnters ==
    ASSUME NEW X, NEW Y, NEW c, Enters(X, Y, c), NEW a, NEW b, Ahead(Y, a, b)
    PROVE  Ahead(X, a, b) \/ (a \in Within(X, 5) /\ b = c)
<1>1. /\ Y[5].n = X[5].n \cup {c}
      /\ \A x, y : <<x, y>> \in Y[5].q =>
            x \in X[5].n /\ ((y \in X[5].n /\ <<x, y>> \in X[5].q) \/ y = c)
  BY DEF Enters, Gains
<1>2. \A j \in Places : j # 5 => Y[j].n = X[j].n /\ Y[j].q \subseteq X[j].q
  BY DEF Enters, Keeps, Places
<1>3. 5 \in Places /\ \A j \in Places : ~(5 < j)
  BY DEF Places
<1>4. \A j \in Places : X[j].n \subseteq Within(X, 5)
  BY DEF Places, Within
<1>5. ASSUME NEW j \in Places, a \in Y[j].n, b \in Y[j].n, <<a, b>> \in Y[j].q
      PROVE  Ahead(X, a, b) \/ (a \in Within(X, 5) /\ b = c)
  <2>1. CASE j # 5
    <3>1. a \in X[j].n /\ b \in X[j].n /\ <<a, b>> \in X[j].q
      BY <1>2, <1>5, <2>1
    <3> QED
      BY <3>1 DEF Ahead
  <2>2. CASE j = 5
    BY <1>1, <1>3, <1>4, <1>5, <2>2 DEF Ahead
  <2> QED
    BY <2>1, <2>2
<1>6. ASSUME NEW i \in Places, NEW j \in Places, i < j, a \in Y[i].n, b \in Y[j].n
      PROVE  Ahead(X, a, b) \/ (a \in Within(X, 5) /\ b = c)
  <2>1. a \in X[i].n
    BY <1>2, <1>3, <1>6
  <2>2. b \in X[j].n \/ b = c
    BY <1>1, <1>2, <1>6
  <2>3. CASE b \in X[j].n
    BY <1>6, <2>1, <2>3 DEF Ahead
  <2> QED
    BY <1>4, <2>1, <2>2, <2>3
<1> QED
  BY <1>5, <1>6 DEF Ahead

\* The order stays.
LEMMA OrderKept ==
    ASSUME NEW X, NEW Y, NEW s, NEW gone, NEW ended, InOrder(X, s, gone), gone \subseteq ended,
           Shrinks(X, Y) \/ \E k, c : Advances(X, Y, k, c)
    PROVE  InOrder(Y, s, ended)
<1>1. \A a, b : Ahead(Y, a, b) => Ahead(X, a, b)
  BY AheadShrinks, AheadAdvances
<1> QED
  BY <1>1 DEF InOrder

\* A number comes in that is greater than those it is compared with.
LEMMA OrderEnters ==
    ASSUME NEW X, NEW Y, NEW c, NEW s, NEW t, NEW gone, NEW ended, InOrder(X, s, gone),
           gone \subseteq ended, Enters(X, Y, c), Within(X, 5) \subseteq DOMAIN s,
           \A a \in DOMAIN s : t[a] = s[a],
           \A a \in Within(X, 5) : t[a] = t[c] /\ t[a] \notin ended => a < c
    PROVE  InOrder(Y, t, ended)
<1>1. ASSUME NEW a, NEW b, Ahead(Y, a, b), t[a] = t[b], t[a] \notin ended
      PROVE  a < b
  <2>1. CASE Ahead(X, a, b)
    <3>1. a \in DOMAIN s /\ b \in DOMAIN s
      BY <2>1, AheadIn
    <3> QED
      BY <1>1, <2>1, <3>1 DEF InOrder
  <2>2. CASE a \in Within(X, 5) /\ b = c
    BY <1>1, <2>2
  <2> QED
    BY <1>1, <2>1, <2>2, AheadEnters
<1> QED
  BY <1>1 DEF InOrder

\* H[k] are the s[n] for which nothing is lost up to stage k.  Then where one
\* number has come, those less than it with the same s[n] are there or further
\* on, and all of them are somewhere.
Complete(X, H, s, gone) ==
    \A k \in Places : \A a, n \in DOMAIN s :
        /\ k = 5 \/ a \in X[k].n
        /\ n <= a /\ s[n] = s[a] /\ s[a] \notin gone /\ s[a] \in H[k]
        => n \in Within(X, k)

\* H becomes J, which is less, and the less the later the stage.
Narrows(H, J, gone) ==
    /\ \A k \in Places : J[k] \ gone \subseteq H[k]
    /\ \A i, k \in Places : i <= k => J[k] \subseteq J[i]

\* What may be lost.
Loses(X, Y, J, s, gone) ==
    /\ Shrinks(X, Y)
    /\ \A k \in Places : \A c \in X[k].n \ Y[k].n :
            s[c] \in gone \/ s[c] \notin J[k] \/ (k = 4 /\ J[5] = {} /\ Cuts(X[4], Y[4]))

\* The numbers of a stage are within.
LEMMA WithinIs == ASSUME NEW X, NEW k \in Places PROVE
    /\ \A n : n \in Within(X, k) <=> \E i \in Places : i <= k /\ n \in X[i].n
    /\ \A i \in Places : i <= k => i \in 1 .. k
BY DEF Within, Places

\* It stays so when numbers are lost,
LEMMA CompleteLoses ==
    ASSUME NEW X, NEW Y, NEW H, NEW J, NEW s, NEW gone, NEW ended, gone \subseteq ended,
           DOMAIN s \subseteq Nat, Complete(X, H, s, gone), InOrder(X, s, gone),
           Narrows(H, J, ended), Loses(X, Y, J, s, ended)
    PROVE  Complete(Y, J, s, ended)
<1>1. ASSUME NEW k \in Places, NEW a \in DOMAIN s, NEW n \in DOMAIN s, k = 5 \/ a \in Y[k].n,
             n <= a, s[n] = s[a], s[a] \notin ended, s[a] \in J[k]
      PROVE  n \in Within(Y, k)
  <2>1. s[a] \notin gone /\ s[a] \in H[k]
    BY <1>1 DEF Narrows
  <2>2. k = 5 \/ a \in X[k].n
    BY <1>1 DEF Loses, Shrinks, Less
  <2>3. n \in Within(X, k)
    BY <1>1, <2>1, <2>2 DEF Complete
  <2>4. PICK i \in Places : i <= k /\ n \in X[i].n
    BY <2>3, WithinIs
  <2>5. ASSUME n \notin Y[i].n PROVE FALSE
    <3>1. s[n] \in J[i]
      BY <1>1, <2>4 DEF Narrows
    <3>2. i = 4 /\ J[5] = {} /\ Cuts(X[4], Y[4])
      BY <1>1, <2>4, <2>5, <3>1 DEF Loses
    <3>3. k = 4
      <4>1. k # 5
        BY <1>1, <3>2
      <4> QED
        BY <2>4, <3>2, <4>1 DEF Places
    <3>4. <<a, n>> \in X[4].q /\ a \in X[4].n /\ n \in X[4].n
      BY <1>1, <2>2, <2>4, <2>5, <3>2, <3>3 DEF Cuts
    <3>5. Ahead(X, a, n)
      BY <3>4 DEF Ahead, Places
    <3>6. a < n
      BY <1>1, <2>1, <3>5 DEF InOrder
    <3> QED
      BY <1>1, <3>6
  <2> QED
    BY <2>4, <2>5, WithinIs
<1> QED
  BY <1>1 DEF Complete

\* when one advances,
LEMMA CompleteAdvances ==
    ASSUME NEW X, NEW Y, NEW H, NEW J, NEW s, NEW gone, NEW ended, gone \subseteq ended,
           DOMAIN s \subseteq Nat, Complete(X, H, s, gone), InOrder(X, s, gone),
           Narrows(H, J, ended), NEW k, NEW c, Advances(X, Y, k, c),
           s[c] \notin ended /\ s[c] \in J[k - 1] => s[c] \in H[k]
    PROVE  Complete(Y, J, s, ended)
<1>1. PICK l : l = k - 1
  OBVIOUS
<1>2. k \in Places /\ l \in Places /\ l < k /\ l <= k /\ k <= k /\ k # l /\ l <= l
      /\ \A j \in Places : j <= k => j = k \/ j <= l
  BY <1>1 DEF Advances, Places
<1>3. /\ X[k].n = Y[k].n \cup {c} /\ \A y \in Y[k].n : <<c, y>> \in X[k].q
      /\ Y[l].n = X[l].n \cup {c}
  BY <1>1 DEF Advances, Gives, Gains
<1>4. \A j \in Places : j # k /\ j # l => Y[j].n = X[j].n
  BY <1>1 DEF Advances, Keeps
<1>5. \A j \in Places : \A x \in X[j].n : x \in Y[j].n \/ (j = k /\ x = c)
  BY <1>3, <1>4
<1>6. ASSUME NEW j \in Places, NEW n \in Within(X, j) PROVE n \in Within(Y, j)
  <2>1. PICK i \in Places : i <= j /\ n \in X[i].n
    BY WithinIs
  <2>2. CASE n \in Y[i].n
    BY <2>1, <2>2, WithinIs
  <2>3. CASE i = k /\ n = c
    <3>1. l <= j /\ n \in Y[l].n
      BY <1>2, <1>3, <2>1, <2>3 DEF Places
    <3> QED
      BY <1>2, <3>1, WithinIs
  <2> QED
    BY <1>5, <2>1, <2>2, <2>3
<1>7. ASSUME NEW j \in Places, NEW a \in DOMAIN s, NEW n \in DOMAIN s, j = 5 \/ a \in Y[j].n,
             n <= a, s[n] = s[a], s[a] \notin ended, s[a] \in J[j]
      PROVE  n \in Within(Y, j)
  <2>1. s[a] \notin gone /\ s[a] \in H[j]
    BY <1>7 DEF Narrows
  <2>2. CASE j = 5 \/ a \in X[j].n
    <3>1. n \in Within(X, j)
      BY <1>7, <2>1, <2>2 DEF Complete
    <3> QED
      BY <1>6, <3>1
  <2>3. CASE j = l /\ a = c
    <3>1. s[a] \in H[k] /\ a \in X[k].n
      BY <1>1, <1>3, <1>7, <2>3
    <3>2. n \in Within(X, k)
      BY <1>2, <1>7, <2>1, <3>1 DEF Complete
    <3>3. PICK i \in Places : i <= k /\ n \in X[i].n
      BY <1>2, <3>2, WithinIs
    <3>4. CASE i = k /\ n # c
      <4>1. <<c, n>> \in X[k].q /\ c \in X[k].n /\ n \in X[k].n
        BY <1>3, <3>3, <3>4
      <4>2. Ahead(X, c, n)
        BY <1>2, <4>1 DEF Ahead
      <4>3. c < n
        BY <1>7, <2>1, <2>3, <4>2 DEF InOrder
      <4> QED
        BY <1>7, <2>3, <4>3
    <3>5. CASE n = c
      BY <1>2, <1>3, <2>3, <3>5, WithinIs
    <3>6. CASE i # k
      <4>1. i <= l
        BY <1>2, <3>3, <3>6
      <4>2. n \in Within(X, l)
        BY <1>2, <3>3, <4>1, WithinIs
      <4> QED
        BY <1>2, <1>6, <2>3, <4>2
    <3> QED
      BY <3>4, <3>5, <3>6
  <2> QED
    BY <1>3, <1>4, <1>7, <2>2, <2>3
<1> QED
  BY <1>7 DEF Complete

\* and when one enters that is the greatest so far.
LEMMA CompleteEnters ==
    ASSUME NEW X, NEW Y, NEW H, NEW J, NEW s, NEW t, NEW gone, NEW ended, gone \subseteq ended,
           DOMAIN s \subseteq Nat, Complete(X, H, s, gone), Narrows(H, J, ended),
           NEW c \in Nat, Enters(X, Y, c), Within(X, 5) \subseteq DOMAIN s,
           DOMAIN t = DOMAIN s \cup {c}, \A n \in DOMAIN s : n < c /\ t[n] = s[n]
    PROVE  Complete(Y, J, t, ended)
<1>1. /\ Y[5].n = X[5].n \cup {c} /\ \A j \in Places : j # 5 => Y[j].n = X[j].n
  BY DEF Enters, Gains, Keeps, Places
<1>2. \A j \in Places : X[j].n \subseteq Y[j].n /\ X[j].n \subseteq DOMAIN s /\ j <= 5
  BY <1>1, WithinIs DEF Places
<1>3. 5 \in Places
  BY DEF Places
<1>4. ASSUME NEW j \in Places, NEW n \in Within(X, j) PROVE n \in Within(Y, j)
  BY <1>2, WithinIs
<1>5. ASSUME NEW j \in Places, NEW a \in DOMAIN t, NEW n \in DOMAIN t, j = 5 \/ a \in Y[j].n,
             n <= a, t[n] = t[a], t[a] \notin ended, t[a] \in J[j]
      PROVE  n \in Within(Y, j)
  <2>1. CASE n = c /\ j = 5
    BY <1>1, <1>3, <2>1, WithinIs DEF Places
  <2>2. CASE n \in DOMAIN s /\ j = 5
    <3>1. s[n] \notin gone /\ s[n] \in H[5]
      BY <1>3, <1>5, <2>2 DEF Narrows
    <3>2. n \in Within(X, 5)
      <4>1. n <= n
        BY <2>2
      <4> QED
        BY <1>3, <2>2, <3>1, <4>1 DEF Complete
    <3> QED
      BY <1>4, <2>2, <3>2
  <2>3. CASE j # 5
    <3>1. a \in X[j].n /\ a \in DOMAIN s
      BY <1>1, <1>2, <1>5, <2>3
    <3>2. n \in DOMAIN s
      <4>1. a < c /\ a \in Nat /\ n <= a
        BY <1>5, <3>1
      <4>2. n # c
        BY <4>1
      <4> QED
        BY <4>2
    <3>3. s[n] = s[a] /\ s[a] \notin gone /\ s[a] \in H[j]
      BY <1>5, <3>1, <3>2 DEF Narrows
    <3>4. n \in Within(X, j)
      BY <1>5, <3>1, <3>2, <3>3 DEF Complete
    <3> QED
      BY <1>4, <3>4
  <2> QED
    BY <2>1, <2>2, <2>3
<1> QED
  BY <1>5 DEF Complete

-----------------------------------------------------------------------------
(* The steps of a pipeline *)

\* Calls that are taken are numbers, not messages.
Order(tk) ==
    [n |-> Range(tk),
     q |-> {p \in Nat \X Nat : \E i, j \in DOMAIN tk : i < j /\ p = <<tk[i], tk[j]>>}]

\* The next number enters the last stage.
LEMMA OrderGains ==
    ASSUME NEW tk \in Seq(Nat), NEW c \in Nat
    PROVE  Gains(Order(tk), Order(Append(tk, c)), c)
<1>1. PICK v, k : v = Append(tk, c) /\ k = Len(tk) + 1
  OBVIOUS
<1>2. /\ DOMAIN tk = 1 .. Len(tk) /\ DOMAIN v = 1 .. k /\ Len(tk) \in Nat /\ k \in Nat
      /\ v[k] = c /\ \A i \in DOMAIN tk : v[i] = tk[i] /\ tk[i] \in Nat
  BY <1>1
<1>3. /\ \A i \in DOMAIN v : i \in DOMAIN tk \/ i = k
      /\ \A i \in DOMAIN tk : ~(k < i)
      /\ ~(k < k)
  BY <1>1, <1>2
<1>4. Range(v) = Range(tk) \cup {c}
  BY <1>1, RangeAppend
<1>5. ASSUME NEW a, NEW b, <<a, b>> \in Order(v).q
      PROVE  a \in Range(tk) /\ ((b \in Range(tk) /\ <<a, b>> \in Order(tk).q) \/ b = c)
  <2>1. PICK i \in DOMAIN v, j \in DOMAIN v : i < j /\ a = v[i] /\ b = v[j]
    BY <1>5 DEF Order
  <2>2. i \in DOMAIN tk /\ a = tk[i] /\ a \in Range(tk) /\ a \in Nat
    BY <1>2, <1>3, <2>1 DEF Range
  <2>3. CASE j = k
    BY <1>2, <2>1, <2>2, <2>3
  <2>4. CASE j \in DOMAIN tk
    <3>1. b = tk[j] /\ b \in Range(tk) /\ b \in Nat
      BY <1>2, <2>1, <2>4 DEF Range
    <3> QED
      BY <2>1, <2>2, <2>4, <3>1 DEF Order
  <2> QED
    BY <1>3, <2>3, <2>4
<1>6. Order(v).n = Range(v) /\ Order(tk).n = Range(tk)
  BY DEF Order
<1> QED
  BY <1>1, <1>4, <1>5, <1>6 DEF Gains

\* What is true of all stages.
LEMMA AllPlaces ==
    ASSUME NEW X, NEW Y
    PROVE  /\ Less(X[1], Y[1]) /\ Less(X[2], Y[2]) /\ Less(X[3], Y[3]) /\ Less(X[4], Y[4]) /\ Less(X[5], Y[5])
                => Shrinks(X, Y)
           /\ \A c : Keeps(X[1], Y[1]) /\ Keeps(X[2], Y[2]) /\ Keeps(X[3], Y[3]) /\ Gives(X[5], Y[5], c) /\ Gains(X[4], Y[4], c)
                => Advances(X, Y, 5, c)
           /\ \A c : Keeps(X[1], Y[1]) /\ Keeps(X[2], Y[2]) /\ Keeps(X[5], Y[5]) /\ Gives(X[4], Y[4], c) /\ Gains(X[3], Y[3], c)
                => Advances(X, Y, 4, c)
           /\ \A c : Keeps(X[1], Y[1]) /\ Keeps(X[4], Y[4]) /\ Keeps(X[5], Y[5]) /\ Gives(X[3], Y[3], c) /\ Gains(X[2], Y[2], c)
                => Advances(X, Y, 3, c)
           /\ \A c : Keeps(X[3], Y[3]) /\ Keeps(X[4], Y[4]) /\ Keeps(X[5], Y[5]) /\ Gives(X[2], Y[2], c) /\ Gains(X[1], Y[1], c)
                => Advances(X, Y, 2, c)
           /\ \A c : Keeps(X[1], Y[1]) /\ Keeps(X[2], Y[2]) /\ Keeps(X[3], Y[3]) /\ Keeps(X[4], Y[4]) /\ Gains(X[5], Y[5], c)
                => Enters(X, Y, c)
<1>1. \A k \in Places : k = 1 \/ k = 2 \/ k = 3 \/ k = 4 \/ k = 5
  BY DEF Places
<1>2. \A k \in 1 .. 4 : k = 1 \/ k = 2 \/ k = 3 \/ k = 4
  OBVIOUS
<1>3. 5 \in 2 .. 5 /\ 4 \in 2 .. 5 /\ 3 \in 2 .. 5 /\ 2 \in 2 .. 5 /\ 5 - 1 = 4 /\ 4 - 1 = 3 /\ 3 - 1 = 2 /\ 2 - 1 = 1
  OBVIOUS
<1>4. Less(X[1], Y[1]) /\ Less(X[2], Y[2]) /\ Less(X[3], Y[3]) /\ Less(X[4], Y[4]) /\ Less(X[5], Y[5])
        => Shrinks(X, Y)
  BY <1>1 DEF Shrinks
<1>5. ASSUME NEW c, Keeps(X[1], Y[1]), Keeps(X[2], Y[2]), Keeps(X[3], Y[3]),
             Gives(X[5], Y[5], c), Gains(X[4], Y[4], c)
      PROVE  Advances(X, Y, 5, c)
  BY <1>1, <1>3, <1>5 DEF Advances
<1>6. ASSUME NEW c, Keeps(X[1], Y[1]), Keeps(X[2], Y[2]), Keeps(X[5], Y[5]),
             Gives(X[4], Y[4], c), Gains(X[3], Y[3], c)
      PROVE  Advances(X, Y, 4, c)
  BY <1>1, <1>3, <1>6 DEF Advances
<1>7. ASSUME NEW c, Keeps(X[1], Y[1]), Keeps(X[4], Y[4]), Keeps(X[5], Y[5]),
             Gives(X[3], Y[3], c), Gains(X[2], Y[2], c)
      PROVE  Advances(X, Y, 3, c)
  BY <1>1, <1>3, <1>7 DEF Advances
<1>8. ASSUME NEW c, Keeps(X[3], Y[3]), Keeps(X[4], Y[4]), Keeps(X[5], Y[5]),
             Gives(X[2], Y[2], c), Gains(X[1], Y[1], c)
      PROVE  Advances(X, Y, 2, c)
  BY <1>1, <1>3, <1>8 DEF Advances
<1>9. ASSUME NEW c, Keeps(X[1], Y[1]), Keeps(X[2], Y[2]), Keeps(X[3], Y[3]), Keeps(X[4], Y[4]),
             Gains(X[5], Y[5], c)
      PROVE  Enters(X, Y, c)
  BY <1>2, <1>9 DEF Enters
<1> QED
  BY <1>4, <1>5, <1>6, <1>7, <1>8, <1>9

\* A stage that stays.
LEMMA SameStage == \A x : Keeps(x, x) /\ Less(x, x)
BY DEF Keeps, Less

\* Calls move one stage, or are lost as they may be.
CallsMove(X, Y, H, J, s, gone) ==
    \/ Loses(X, Y, J, s, gone)
    \/ \E k, c : Advances(X, Y, k, c) /\ (s[c] \notin gone /\ s[c] \in J[k - 1] => s[c] \in H[k])

\* Where every stage keeps its numbers nothing moves.
LEMMA AllKeep ==
    ASSUME NEW X, NEW Y, NEW H, NEW J, NEW s, NEW gone,
           Keeps(X[1], Y[1]), Keeps(X[2], Y[2]), Keeps(X[3], Y[3]), Keeps(X[4], Y[4]), Keeps(X[5], Y[5])
    PROVE  CallsMove(X, Y, H, J, s, gone)
<1>1. \A k \in Places : Keeps(X[k], Y[k])
  BY DEF Places
<1>2. Shrinks(X, Y) /\ \A k \in Places : X[k].n = Y[k].n
  BY <1>1 DEF Shrinks, Keeps, Less
<1> QED
  BY <1>2 DEF CallsMove, Loses

\* Replies move one stage, or are lost.
RepliesMove(X, Y) == Shrinks(X, Y) \/ \E k, c : Advances(X, Y, k, c)

\* A step of the calls keeps their order, and none is passed over.
LEMMA MoveKept ==
    ASSUME NEW X, NEW Y, NEW H, NEW J, NEW s, NEW gone, DOMAIN s \subseteq Nat, InOrder(X, s, gone),
           Complete(X, H, s, gone), Narrows(H, J, gone), CallsMove(X, Y, H, J, s, gone)
    PROVE  InOrder(Y, s, gone) /\ Complete(Y, J, s, gone)
<1>1. CASE Loses(X, Y, J, s, gone)
  <2>1. Shrinks(X, Y)
    BY <1>1 DEF Loses
  <2> QED
    BY <1>1, <2>1, OrderKept, CompleteLoses
<1>2. ASSUME NEW k, NEW c, Advances(X, Y, k, c), s[c] \notin gone /\ s[c] \in J[k - 1] => s[c] \in H[k]
      PROVE  InOrder(Y, s, gone) /\ Complete(Y, J, s, gone)
  <2>1. InOrder(Y, s, gone)
    BY <1>2, OrderKept
  <2>2. Complete(Y, J, s, gone)
    BY <1>2, CompleteAdvances
  <2> QED
    BY <2>1, <2>2
<1> QED
  BY <1>1, <1>2 DEF CallsMove

\* The more proxies are gone, the less is asked.
LEMMA OrderMore ==
    ASSUME NEW X, NEW s, NEW gone, NEW ended, gone \subseteq ended
    PROVE  /\ InOrder(X, s, gone) => InOrder(X, s, ended)
           /\ \A H : Complete(X, H, s, gone) => Complete(X, H, s, ended)
BY DEF InOrder, Complete

\* Nothing comes into the pipeline but at its end.
LEMMA WithinKept ==
    ASSUME NEW X, NEW Y, RepliesMove(X, Y)
    PROVE  Within(Y, 5) \subseteq Within(X, 5)
<1>1. CASE Shrinks(X, Y)
  BY <1>1 DEF Shrinks, Less, Within, Places
<1>2. ASSUME NEW k, NEW c, Advances(X, Y, k, c) PROVE Within(Y, 5) \subseteq Within(X, 5)
  <2>1. k \in 1 .. 5 /\ k - 1 \in 1 .. 5 /\ c \in X[k].n /\ Y[k].n \subseteq X[k].n /\ Y[k - 1].n = X[k - 1].n \cup {c}
    BY <1>2 DEF Advances, Gives, Gains
  <2>2. ASSUME NEW i \in 1 .. 5, NEW n \in Y[i].n PROVE n \in Within(X, 5)
    <3>1. i = k \/ i = k - 1 \/ Y[i].n = X[i].n
      BY <1>2 DEF Advances, Keeps, Places
    <3>2. n \in X[i].n \/ n \in X[k].n
      BY <2>1, <2>2, <3>1
    <3> QED
      BY <2>1, <3>2 DEF Within
  <2> QED
    BY <2>2 DEF Within
<1> QED
  BY <1>1, <1>2 DEF RepliesMove

\* Only the number that enters is new.
LEMMA WithinEnters ==
    ASSUME NEW X, NEW Y, NEW c, Enters(X, Y, c)
    PROVE  Within(Y, 5) \subseteq Within(X, 5) \cup {c}
<1>1. ASSUME NEW i \in 1 .. 5, NEW n \in Y[i].n PROVE n \in X[i].n \/ n = c
  <2>1. i = 5 \/ i \in 1 .. 4
    OBVIOUS
  <2> QED
    BY <1>1, <2>1 DEF Enters, Gains, Keeps
<1> QED
  BY <1>1 DEF Within

\* A new call leaves the order of what is there.
LEMMA OrderHistory ==
    ASSUME NEW X, NEW s, NEW t, NEW gone, InOrder(X, s, gone), Within(X, 5) \subseteq DOMAIN s,
           \A n \in DOMAIN s : t[n] = s[n]
    PROVE  InOrder(X, t, gone)
<1>1. ASSUME NEW a, NEW b, Ahead(X, a, b), t[a] = t[b], t[a] \notin gone PROVE a < b
  <2>1. a \in DOMAIN s /\ b \in DOMAIN s
    BY <1>1, AheadIn
  <2> QED
    BY <1>1, <2>1 DEF InOrder
<1> QED
  BY <1>1 DEF InOrder

=============================================================================
