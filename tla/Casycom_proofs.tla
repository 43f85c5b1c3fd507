---------------------------- MODULE Casycom_proofs ----------------------------
(***************************************************************************)
(* For every set of classes, any number of links, oids, queued messages    *)
(* and calls: the state of Casycom has its type, the link map stays sorted *)
(* with every object on the first link to it, and the searches of the code *)
(* find what they look for; no object leaks or is destroyed twice, nothing *)
(* outlives its creator, no running object is destroyed, reset frees       *)
(* everything, and an error set while a message is delivered does not      *)
(* outlast the round, nor any error the delivery of a message.             *)
(*                                                                         *)
(* The first sections are about the link map alone: what inserting and     *)
(* erasing a link does to its type, its order and the first links of its   *)
(* blocks, and what the loops of the code find in a sorted map.  A loop is *)
(* a recursive function: a function that meets its recursion is exhibited, *)
(* so that the one the definition chooses does too, and an induction over  *)
(* the links tells what any such function is.                              *)
(***************************************************************************)
EXTENDS Casycom, SeqLemmas

-----------------------------------------------------------------------------
(* The link map *)

\* A function on 1..n is a sequence of length n.
LEMMA FunctionIsSeq ==
    ASSUME NEW S, NEW n \in Nat, NEW f \in [1 .. n -> S]
    PROVE  f \in Seq(S) /\ Len(f) = n /\ DOMAIN f = 1 .. n
  OBVIOUS

\* Replacing one element keeps the type, the length and the other elements.
LEMMA ReplaceElement ==
    ASSUME NEW S, NEW s \in Seq(S), NEW k \in DOMAIN s, NEW x \in S
    PROVE  LET t == [s EXCEPT ![k] = x]
           IN  /\ t \in Seq(S) /\ Len(t) = Len(s) /\ DOMAIN t = DOMAIN s
               /\ t[k] = x /\ \A j \in DOMAIN s : j # k => t[j] = s[j]
  OBVIOUS

\* The fields of a link of the map have their types.
LEMMA LinkFields ==
    ASSUME NEW m \in Seq(MsgLink)
    PROVE  /\ DOMAIN m = 1 .. Len(m) /\ Len(m) \in Nat
           /\ \A i \in DOMAIN m : m[i] \in MsgLink /\ m[i].src \in Nat /\ m[i].dest \in Nat
<1>1. \A i \in DOMAIN m : m[i] \in MsgLink
  OBVIOUS
<1>2. \A l \in MsgLink : l.src \in Nat /\ l.dest \in Nat
  BY DEF MsgLink, Oid
<1> QED
  BY <1>1, <1>2

\* vector_emplace makes a map that is one link longer.
LEMMA EmplaceType ==
    ASSUME NEW m \in Seq(MsgLink), NEW p \in 1 .. Len(m) + 1, NEW l \in MsgLink
    PROVE  LET r == vector_emplace(m, p, l)
           IN  /\ r \in Seq(MsgLink) /\ Len(r) = Len(m) + 1
               /\ \A i \in 1 .. Len(m) + 1 :
                    r[i] = IF i < p THEN m[i] ELSE IF i = p THEN l ELSE m[i - 1]
<1> DEFINE r == vector_emplace(m, p, l)
<1>1. \A i \in 1 .. Len(m) + 1 :
        (IF i < p THEN m[i] ELSE IF i = p THEN l ELSE m[i - 1]) \in MsgLink
  OBVIOUS
<1>2. r \in [1 .. Len(m) + 1 -> MsgLink]
  BY <1>1 DEF vector_emplace
<1> QED
  BY <1>2, FunctionIsSeq DEF vector_emplace

\* vector_erase makes a map that is one link shorter.
LEMMA EraseType ==
    ASSUME NEW m \in Seq(MsgLink), NEW p \in DOMAIN m
    PROVE  LET r == vector_erase(m, p)
           IN  /\ r \in Seq(MsgLink) /\ Len(r) = Len(m) - 1
               /\ \A i \in 1 .. Len(m) - 1 : r[i] = IF i < p THEN m[i] ELSE m[i + 1]
<1> DEFINE r == vector_erase(m, p)
<1>1. \A i \in 1 .. Len(m) - 1 : (IF i < p THEN m[i] ELSE m[i + 1]) \in MsgLink
  OBVIOUS
<1>2. r \in [1 .. Len(m) - 1 -> MsgLink]
  BY <1>1 DEF vector_erase
<1> QED
  BY <1>2, FunctionIsSeq DEF vector_erase

\* Only the first of the links to an object holds it, in a sorted map.
FirstHolds(m) ==
    IsSorted(m) /\ \A p \in DOMAIN m : m[p].o # Null => IsDestination(m, m[p].dest, p)

\* A link that holds nothing, inserted past the links to the same object by
\* casycom_create_proxy_to, keeps the map sorted and its objects first.
LEMMA EmplaceKeepsFirst ==
    ASSUME NEW m \in Seq(MsgLink), NEW l \in MsgLink, NEW p,
           FirstHolds(m), IsInsertPoint(m, l.dest, p), l.o = Null
    PROVE  FirstHolds(vector_emplace(m, p, l))
<1> DEFINE r == vector_emplace(m, p, l)
<1>1. p \in 1 .. Len(m) + 1
  BY DEF IsInsertPoint
<1>2. /\ r \in Seq(MsgLink) /\ Len(r) = Len(m) + 1
      /\ \A i \in 1 .. Len(m) + 1 :
            r[i] = IF i < p THEN m[i] ELSE IF i = p THEN l ELSE m[i - 1]
  BY <1>1, EmplaceType
<1>3. /\ DOMAIN m = 1 .. Len(m) /\ Len(m) \in Nat
      /\ DOMAIN r = 1 .. Len(r) /\ l.dest \in Nat
      /\ \A i \in DOMAIN m : m[i].dest \in Nat
  BY <1>2, LinkFields DEF MsgLink, Oid
<1> HIDE DEF r
<1>d. \A i \in DOMAIN r : r[i].dest =
          IF i < p THEN m[i].dest ELSE IF i = p THEN l.dest ELSE m[i - 1].dest
  BY <1>2, <1>3
<1>m. \A i, j \in DOMAIN m : i < j => m[i].dest <= m[j].dest
  BY DEF FirstHolds, IsSorted
<1>p. \A i \in DOMAIN m : IF i < p THEN m[i].dest <= l.dest ELSE l.dest < m[i].dest
  BY DEF IsInsertPoint
<1>4. IsSorted(r)
  <2> SUFFICES ASSUME NEW i \in DOMAIN r, NEW j \in DOMAIN r, i < j
               PROVE  r[i].dest <= r[j].dest
    BY DEF IsSorted
  <2>1. CASE j < p
    BY <2>1, <1>1, <1>2, <1>3, <1>d, <1>m
  <2>2. CASE j = p
    BY <2>2, <1>1, <1>2, <1>3, <1>d, <1>p
  <2>3. CASE j > p /\ i < p
    <3>1. i \in DOMAIN m /\ j - 1 \in DOMAIN m /\ (i = j - 1 \/ i < j - 1)
      BY <2>3, <1>1, <1>2, <1>3
    <3>2. r[i].dest = m[i].dest /\ r[j].dest = m[j - 1].dest
      BY <2>3, <1>1, <1>2, <1>3, <1>d
    <3> QED
      BY <3>1, <3>2, <1>3, <1>m
  <2>4. CASE j > p /\ i = p
    <3>1. j - 1 \in DOMAIN m /\ ~(j - 1 < p)
      BY <2>4, <1>1, <1>2, <1>3
    <3>2. r[i].dest = l.dest /\ r[j].dest = m[j - 1].dest
      BY <2>4, <1>1, <1>2, <1>3, <1>d
    <3> QED
      BY <3>1, <3>2, <1>3, <1>p
  <2>5. CASE j > p /\ i > p
    <3>1. i - 1 \in DOMAIN m /\ j - 1 \in DOMAIN m /\ i - 1 < j - 1
      BY <2>5, <1>1, <1>2, <1>3
    <3> QED
      BY <3>1, <2>5, <1>1, <1>3, <1>d, <1>m
  <2> QED
    BY <2>1, <2>2, <2>3, <2>4, <2>5, <1>1, <1>2, <1>3
<1>5. ASSUME NEW q \in DOMAIN r, r[q].o # Null
      PROVE  IsDestination(r, r[q].dest, q)
  <2> DEFINE k == IF q < p THEN q ELSE q - 1
  <2>1. k \in DOMAIN m /\ r[q] = m[k] /\ q # p
    BY <1>1, <1>2, <1>5
  <2>2. \A i \in DOMAIN m : IF i < k THEN m[i].dest < m[k].dest ELSE m[k].dest <= m[i].dest
    BY <2>1, <1>5 DEF FirstHolds, IsDestination, IsLowerBound
  <2>4. /\ q > p => l.dest < r[q].dest
        /\ q < p => r[q].dest <= l.dest
    BY <2>1, <1>1, <1>2, <1>3, <1>p
  <2>3. \A i \in DOMAIN r : IF i < q THEN r[i].dest < r[q].dest ELSE r[q].dest <= r[i].dest
    <3> SUFFICES ASSUME NEW i \in DOMAIN r
                 PROVE  IF i < q THEN r[i].dest < r[q].dest ELSE r[q].dest <= r[i].dest
      OBVIOUS
    <3>1. CASE i < p
      <4>1. i \in DOMAIN m /\ r[i].dest = m[i].dest /\ (i < q => i < k) /\ (i >= q => i >= k)
        BY <3>1, <1>1, <1>2, <1>3, <1>d, <2>1
      <4> QED
        BY <4>1, <2>1, <2>2, <1>1, <1>2, <1>3
    <3>2. CASE i = p
      BY <3>2, <1>1, <1>2, <1>3, <1>d, <1>p, <2>1, <2>4
    <3>3. CASE i > p
      <4>1. i - 1 \in DOMAIN m /\ r[i].dest = m[i - 1].dest
            /\ (i < q => i - 1 < k) /\ (i >= q => i - 1 >= k)
        BY <3>3, <1>1, <1>2, <1>3, <1>d, <2>1
      <4> QED
        BY <4>1, <2>1, <2>2, <1>1, <1>2, <1>3
    <3> QED
      BY <3>1, <3>2, <3>3, <1>1, <1>2, <1>3
  <2> QED
    BY <1>2, <2>3 DEF IsDestination, IsLowerBound
<1> QED
  BY <1>4, <1>5 DEF FirstHolds, r

\* Erasing a link, by casycom_destroy_link_at, does so too.
LEMMA EraseKeepsFirst ==
    ASSUME NEW m \in Seq(MsgLink), NEW p \in DOMAIN m, FirstHolds(m)
    PROVE  FirstHolds(vector_erase(m, p))
<1> DEFINE r == vector_erase(m, p)
<1>1. /\ r \in Seq(MsgLink) /\ Len(r) = Len(m) - 1
      /\ \A i \in 1 .. Len(m) - 1 : r[i] = IF i < p THEN m[i] ELSE m[i + 1]
  BY EraseType
<1>2. /\ DOMAIN m = 1 .. Len(m) /\ Len(m) \in Nat
      /\ DOMAIN r = 1 .. Len(r)
      /\ \A i \in DOMAIN m : m[i].dest \in Nat
  BY <1>1, LinkFields
<1> HIDE DEF r
<1>3. IsSorted(r)
  <2> SUFFICES ASSUME NEW i \in DOMAIN r, NEW j \in DOMAIN r, i < j
               PROVE  r[i].dest <= r[j].dest
    BY DEF IsSorted
  <2> DEFINE a == IF i < p THEN i ELSE i + 1
             b == IF j < p THEN j ELSE j + 1
  <2>1. a \in DOMAIN m /\ b \in DOMAIN m /\ a < b /\ r[i] = m[a] /\ r[j] = m[b]
    BY <1>1, <1>2
  <2> QED
    BY <2>1 DEF FirstHolds, IsSorted
<1>4. ASSUME NEW q \in DOMAIN r, r[q].o # Null
      PROVE  IsDestination(r, r[q].dest, q)
  <2> DEFINE k == IF q < p THEN q ELSE q + 1
  <2>1. k \in DOMAIN m /\ r[q] = m[k]
    BY <1>1
  <2>2. \A i \in DOMAIN m : IF i < k THEN m[i].dest < m[k].dest ELSE m[k].dest <= m[i].dest
    BY <2>1, <1>4 DEF FirstHolds, IsDestination, IsLowerBound
  <2>3. ASSUME NEW i \in DOMAIN r
        PROVE  IF i < q THEN r[i].dest < r[q].dest ELSE r[q].dest <= r[i].dest
    <3> DEFINE j == IF i < p THEN i ELSE i + 1
    <3>1. j \in DOMAIN m /\ r[i] = m[j] /\ (i < q <=> j < k)
      BY <1>1, <1>2
    <3> HIDE DEF j, k
    <3> QED
      BY <2>1, <2>2, <3>1
  <2> QED
    BY <1>1, <2>3 DEF IsDestination, IsLowerBound
<1> QED
  BY <1>3, <1>4 DEF FirstHolds, r

-----------------------------------------------------------------------------
(* The binary search *)

\* Of the links a + 1 to b, the first up to p are to numbers below d.
Splits(m, d, a, b, p) ==
    /\ p \in a .. b
    /\ \A i \in a + 1 .. b : IF i <= p THEN m[i].dest < d ELSE d <= m[i].dest

\* In a sorted map there is such a place, and only one.
LEMMA SplitExists ==
    ASSUME NEW m \in Seq(MsgLink), IsSorted(m), NEW d \in Nat,
           NEW a \in 0 .. Len(m), NEW b \in 0 .. Len(m), a <= b
    PROVE  \E p : Splits(m, d, a, b, p)
<1>1. /\ DOMAIN m = 1 .. Len(m) /\ Len(m) \in Nat
      /\ \A i \in DOMAIN m : m[i].dest \in Nat
  BY LinkFields
<1> DEFINE T == {p \in a .. b : p = b \/ d <= m[p + 1].dest}
<1>2. T \in SUBSET Nat /\ b \in T
  BY <1>1
<1>3. PICK p \in T : \A q \in T : p <= q
  BY <1>2, LeastMember
<1>4. p \in a .. b
  OBVIOUS
<1>5. ASSUME NEW i \in a + 1 .. b PROVE IF i <= p THEN m[i].dest < d ELSE d <= m[i].dest
  <2>1. i \in DOMAIN m /\ m[i].dest \in Nat
    BY <1>1
  <2>2. CASE i <= p
    <3>1. i - 1 \in a .. b /\ i - 1 # b /\ (i - 1) + 1 = i /\ ~(p <= i - 1)
      BY <1>1, <1>4, <2>2
    <3>2. i - 1 \notin T
      BY <1>3, <3>1
    <3> QED
      BY <2>1, <2>2, <3>1, <3>2
  <2>3. CASE ~(i <= p)
    <3>1. p # b /\ p + 1 \in DOMAIN m /\ (p + 1 = i \/ p + 1 < i)
      BY <1>1, <1>4, <2>3
    <3>2. d <= m[p + 1].dest
      BY <3>1
    <3>3. m[p + 1].dest <= m[i].dest
      BY <1>1, <2>1, <3>1 DEF IsSorted
    <3> QED
      BY <1>1, <2>1, <2>3, <3>1, <3>2, <3>3
  <2> QED
    BY <2>2, <2>3
<1> QED
  BY <1>4, <1>5 DEF Splits

LEMMA SplitUnique ==
    ASSUME NEW m \in Seq(MsgLink), NEW d \in Nat,
           NEW a \in 0 .. Len(m), NEW b \in 0 .. Len(m), NEW p, NEW q,
           Splits(m, d, a, b, p), Splits(m, d, a, b, q)
    PROVE  p = q
<1>1. /\ DOMAIN m = 1 .. Len(m) /\ Len(m) \in Nat
      /\ \A i \in DOMAIN m : m[i].dest \in Nat
  BY LinkFields
<1>2. p \in a .. b /\ q \in a .. b
  BY DEF Splits
<1>3. ~(p < q)
  <2> SUFFICES ASSUME p < q PROVE FALSE
    OBVIOUS
  <2>1. q \in a + 1 .. b /\ ~(q <= p) /\ q <= q /\ q \in DOMAIN m
    BY <1>1, <1>2
  <2> QED
    BY <1>1, <2>1 DEF Splits
<1>4. ~(q < p)
  <2> SUFFICES ASSUME q < p PROVE FALSE
    OBVIOUS
  <2>1. p \in a + 1 .. b /\ ~(p <= q) /\ p <= p /\ p \in DOMAIN m
    BY <1>1, <1>2
  <2> QED
    BY <1>1, <2>1 DEF Splits
<1> QED
  BY <1>1, <1>2, <1>3, <1>4

\* The middle of a range.
LEMMA Middle ==
    ASSUME NEW a \in Nat, NEW b \in Nat, a < b
    PROVE  (a + b) \div 2 \in a .. b - 1
  OBVIOUS

\* Either half of the range, chosen as the search chooses it, is split where
\* the range is.
LEMMA SplitHalf ==
    ASSUME NEW m \in Seq(MsgLink), IsSorted(m), NEW d \in Nat,
           NEW a \in 0 .. Len(m), NEW b \in 0 .. Len(m), NEW p,
           NEW k \in a .. b - 1,
           IF m[k + 1].dest < d THEN Splits(m, d, k + 1, b, p) ELSE Splits(m, d, a, k, p)
    PROVE  Splits(m, d, a, b, p)
<1>1. /\ DOMAIN m = 1 .. Len(m) /\ Len(m) \in Nat
      /\ \A i \in DOMAIN m : m[i].dest \in Nat
      /\ k + 1 \in DOMAIN m /\ a \in Nat /\ b \in Nat /\ k \in Nat
      /\ \A i \in a + 1 .. b : i \in DOMAIN m
  BY LinkFields
<1>2. \A i, j \in DOMAIN m : i <= j => m[i].dest <= m[j].dest
  BY SMTT(30), <1>1 DEF IsSorted
<1>3. CASE m[k + 1].dest < d
  <2>1. /\ p \in k + 1 .. b
        /\ \A i \in k + 2 .. b : IF i <= p THEN m[i].dest < d ELSE d <= m[i].dest
    BY <1>1, <1>3 DEF Splits
  <2>2. ASSUME NEW i \in a + 1 .. k + 1 PROVE i <= p /\ m[i].dest < d
    <3>1. i \in DOMAIN m /\ i <= k + 1 /\ i <= p
      BY <1>1, <2>1
    <3>2. m[i].dest <= m[k + 1].dest
      BY <1>1, <1>2, <3>1
    <3>3. m[i].dest \in Nat /\ m[k + 1].dest \in Nat
      BY <1>1, <3>1
    <3> QED
      BY <1>3, <3>1, <3>2, <3>3
  <2>3. p \in a .. b /\ \A i \in a + 1 .. b : i \in a + 1 .. k + 1 \/ i \in k + 2 .. b
    BY <1>1, <2>1
  <2> QED
    BY <2>1, <2>2, <2>3 DEF Splits
<1>4. CASE ~(m[k + 1].dest < d)
  <2>1. /\ p \in a .. k
        /\ \A i \in a + 1 .. k : IF i <= p THEN m[i].dest < d ELSE d <= m[i].dest
    BY <1>1, <1>4 DEF Splits
  <2>2. ASSUME NEW i \in k + 1 .. b PROVE ~(i <= p) /\ d <= m[i].dest
    <3>1. i \in DOMAIN m /\ k + 1 <= i /\ ~(i <= p)
      BY <1>1, <2>1
    <3>2. m[k + 1].dest <= m[i].dest
      BY <1>1, <1>2, <3>1
    <3>3. m[i].dest \in Nat /\ m[k + 1].dest \in Nat
      BY <1>1, <3>1
    <3> QED
      BY <1>4, <3>1, <3>2, <3>3
  <2>3. p \in a .. b /\ \A i \in a + 1 .. b : i \in a + 1 .. k \/ i \in k + 1 .. b
    BY <1>1, <2>1
  <2> QED
    BY <2>1, <2>2, <2>3 DEF Splits
<1> QED
  BY <1>3, <1>4

\* One call of the search: what it returns for the range, from its calls for
\* the halves.
Probe(g, m, d, a, b) ==
    LET mid == (a + b) \div 2
    IN  IF a >= b THEN a
        ELSE IF m[mid + 1].dest < d THEN g[<<mid + 1, b>>] ELSE g[<<a, mid>>]

\* Whatever satisfies the recursion of the search finds the place.
LEMMA ProbesSplit ==
    ASSUME NEW m \in Seq(MsgLink), IsSorted(m), NEW d \in Nat, NEW g,
           \A a, b \in 0 .. Len(m) : g[<<a, b>>] = Probe(g, m, d, a, b)
    PROVE  \A a, b \in 0 .. Len(m) : a <= b => Splits(m, d, a, b, g[<<a, b>>])
<1>0. Len(m) \in Nat
  OBVIOUS
<1> DEFINE T == {n \in Nat : \A a, b \in 0 .. Len(m) :
                                a <= b /\ b - a <= n => Splits(m, d, a, b, g[<<a, b>>])}
<1>1. ASSUME NEW a \in 0 .. Len(m), NEW b \in 0 .. Len(m), a = b
      PROVE  Splits(m, d, a, b, g[<<a, b>>])
  <2>1. g[<<a, b>>] = a
    <3>1. a >= b
      BY <1>0, <1>1
    <3>2. Probe(g, m, d, a, b) = a
      BY <3>1 DEF Probe
    <3> QED
      BY <3>2
  <2> QED
    BY <1>0, <1>1, <2>1 DEF Splits
<1>2. 0 \in T
  <2>1. \A a, b \in 0 .. Len(m) : a <= b /\ b - a <= 0 => a = b
    BY <1>0
  <2> QED
    BY <1>1, <2>1
<1>3. ASSUME NEW n \in Nat, n \in T PROVE n + 1 \in T
  <2> SUFFICES ASSUME NEW a \in 0 .. Len(m), NEW b \in 0 .. Len(m), a < b, b - a <= n + 1
               PROVE  Splits(m, d, a, b, g[<<a, b>>])
    <3>1. \A a, b \in 0 .. Len(m) : a <= b => a = b \/ a < b
      BY <1>0
    <3> QED
      BY <1>1, <3>1
  <2> DEFINE k == (a + b) \div 2
  <2>1. k \in a .. b - 1
    BY <1>0, Middle
  <2>2. g[<<a, b>>] = IF m[k + 1].dest < d THEN g[<<k + 1, b>>] ELSE g[<<a, k>>]
    <3>1. ~(a >= b)
      BY <1>0
    <3> QED
      BY <3>1 DEF Probe
  <2> HIDE DEF k
  <2>3. /\ k + 1 \in 0 .. Len(m) /\ k \in 0 .. Len(m) /\ k + 1 <= b /\ a <= k
        /\ b - (k + 1) <= n /\ k - a <= n
    BY <1>0, <2>1
  <2>4. Splits(m, d, k + 1, b, g[<<k + 1, b>>]) /\ Splits(m, d, a, k, g[<<a, k>>])
    BY <1>3, <2>3
  <2> DEFINE x == g[<<a, b>>]
  <2>5. IF m[k + 1].dest < d THEN Splits(m, d, k + 1, b, x) ELSE Splits(m, d, a, k, x)
    BY <2>2, <2>4
  <2> HIDE DEF x
  <2>6. Splits(m, d, a, b, x)
    BY <2>1, <2>5, SplitHalf
  <2> QED
    BY <2>6 DEF x
<1> HIDE DEF T
<1>4. \A n \in Nat : n \in T
  BY <1>2, <1>3, InductiveSet
<1> QED
  <2>1. \A a, b \in 0 .. Len(m) : a <= b => b - a \in Nat /\ b - a <= b - a
    BY <1>0
  <2> QED
    BY <1>4, <2>1 DEF T

\* The search of the code finds the place of a number in a sorted map.
LEMMA LowerBoundFound ==
    ASSUME NEW m \in Seq(MsgLink), IsSorted(m), NEW d \in Nat
    PROVE  IsLowerBound(m, d, casycom_omap_lower_bound(m, d))
<1>0. Len(m) \in Nat /\ DOMAIN m = 1 .. Len(m)
  OBVIOUS
<1> DEFINE N == 0 .. Len(m)
           place(a, b) == CHOOSE p : Splits(m, d, a, b, p)
           g == [r \in N \X N |-> IF r[1] >= r[2] THEN r[1] ELSE place(r[1], r[2])]
<1>1. ASSUME NEW a \in N, NEW b \in N, a <= b PROVE Splits(m, d, a, b, g[<<a, b>>])
  <2>1. g[<<a, b>>] = IF a >= b THEN a ELSE place(a, b)
    <3>1. <<a, b>> \in N \X N /\ <<a, b>>[1] = a /\ <<a, b>>[2] = b
      OBVIOUS
    <3> HIDE DEF place
    <3>2. \A r \in N \X N : g[r] = IF r[1] >= r[2] THEN r[1] ELSE place(r[1], r[2])
      OBVIOUS
    <3> HIDE DEF g
    <3>3. g[<<a, b>>] = IF <<a, b>>[1] >= <<a, b>>[2] THEN <<a, b>>[1]
                        ELSE place(<<a, b>>[1], <<a, b>>[2])
      BY <3>1, <3>2
    <3> QED
      BY <3>3
  <2>2. CASE a = b
    <3>1. g[<<a, b>>] = a
      BY <1>0, <2>1, <2>2
    <3> HIDE DEF g
    <3> QED
      BY <1>0, <2>2, <3>1 DEF Splits
  <2>3. CASE a # b
    <3>1. ~(a >= b)
      BY <1>0, <1>1, <2>3
    <3>2. \E p : Splits(m, d, a, b, p)
      BY <1>1, SplitExists
    <3>3. Splits(m, d, a, b, place(a, b))
      BY <3>2, Zenon
    <3> HIDE DEF g, place
    <3> QED
      BY <2>1, <3>1, <3>3
  <2> QED
    BY <2>2, <2>3
<1>2. ASSUME NEW a \in N, NEW b \in N PROVE g[<<a, b>>] = Probe(g, m, d, a, b)
  <2>1. CASE a >= b
    <3>1. g[<<a, b>>] = a
      BY <2>1
    <3> HIDE DEF g
    <3> QED
      BY <2>1, <3>1 DEF Probe
  <2>2. CASE ~(a >= b)
    <3> DEFINE k == (a + b) \div 2
               x == IF m[k + 1].dest < d THEN g[<<k + 1, b>>] ELSE g[<<a, k>>]
               y == g[<<a, b>>]
    <3>1. a < b
      BY <1>0, <2>2
    <3>2. k \in a .. b - 1
      BY <1>0, <3>1, Middle
    <3> HIDE DEF g, k
    <3>3. k + 1 \in N /\ k \in N /\ k + 1 <= b /\ a <= k /\ a <= b
      BY <1>0, <3>1, <3>2
    <3>4. /\ Splits(m, d, k + 1, b, g[<<k + 1, b>>]) /\ Splits(m, d, a, k, g[<<a, k>>])
          /\ Splits(m, d, a, b, y)
      BY <1>1, <3>3
    <3>5. IF m[k + 1].dest < d THEN Splits(m, d, k + 1, b, x) ELSE Splits(m, d, a, k, x)
      BY <3>4
    <3> HIDE DEF x, y
    <3>6. Splits(m, d, a, b, x)
      BY <3>2, <3>5, SplitHalf
    <3>7. y = x
      BY <3>4, <3>6, SplitUnique
    <3>8. y = Probe(g, m, d, a, b)
      BY <2>2, <3>7 DEF Probe, x, k
    <3> QED
      BY <3>8 DEF y
  <2> QED
    BY <2>1, <2>2
<1> DEFINE Body(k) == [r \in N \X N |->
                         LET first == r[1]
                             last == r[2]
                             mid == (first + last) \div 2
                         IN  IF first >= last THEN first
                             ELSE IF m[mid + 1].dest < d THEN k[<<mid + 1, last>>]
                             ELSE k[<<first, mid>>]]
           h == CHOOSE k : k = Body(k)
<1>3. g = Body(g)
  <2>1. ASSUME NEW r \in N \X N PROVE g[r] = Body(g)[r]
    <3>1. PICK a \in N, b \in N : r = <<a, b>>
      OBVIOUS
    <3>2. Body(g)[r] = Probe(g, m, d, a, b)
      <4> HIDE DEF g
      <4> QED
        BY <3>1 DEF Probe
    <3> HIDE DEF g, Body
    <3> QED
      BY <1>2, <3>1, <3>2
  <2>2. g = [r \in N \X N |-> g[r]]
    OBVIOUS
  <2>3. Body(g) = [r \in N \X N |-> Body(g)[r]]
    <3> HIDE DEF g
    <3> QED
      OBVIOUS
  <2> HIDE DEF g, Body
  <2> QED
    BY <2>1, <2>2, <2>3
<1>4. h = Body(h)
  <2> HIDE DEF Body, g
  <2> QED
    BY <1>3, Zenon
<1>5. casycom_omap_lower_bound(m, d) = h[<<0, Len(m)>>] + 1
  BY DEF casycom_omap_lower_bound
<1> HIDE DEF h
<1>6. \A a, b \in N : h[<<a, b>>] = Probe(h, m, d, a, b)
  <2> SUFFICES ASSUME NEW a \in N, NEW b \in N PROVE h[<<a, b>>] = Probe(h, m, d, a, b)
    OBVIOUS
  <2>1. Body(h)[<<a, b>>] = Probe(h, m, d, a, b)
    BY DEF Probe
  <2> HIDE DEF Body
  <2> QED
    BY <1>4, <2>1
<1>7. Splits(m, d, 0, Len(m), h[<<0, Len(m)>>])
  <2>1. 0 \in N /\ Len(m) \in N /\ 0 <= Len(m)
    BY <1>0
  <2> QED
    BY <1>6, <2>1, ProbesSplit
<1> DEFINE p == h[<<0, Len(m)>>]
<1> HIDE DEF p
<1>8. /\ p \in 0 .. Len(m)
      /\ \A i \in DOMAIN m : IF i <= p THEN m[i].dest < d ELSE d <= m[i].dest
  BY <1>0, <1>7 DEF Splits, p
<1>9. IsLowerBound(m, d, p + 1)
  BY <1>0, <1>8 DEF IsLowerBound
<1> QED
  BY <1>5, <1>9 DEF p

-----------------------------------------------------------------------------
(* The search for a number gap *)

gapStart(m) == IF m = <<>> THEN oid_First ELSE m[1].dest

\* The first number from the start on that none of the first k links is to.
IsGapOf(m, k, n) ==
    /\ n \in Nat /\ gapStart(m) <= n
    /\ \A i \in 1 .. k : m[i].dest # n
    /\ \A x \in Nat : gapStart(m) <= x /\ x < n => \E i \in 1 .. k : m[i].dest = x

LEMMA GapUnique ==
    ASSUME NEW m \in Seq(MsgLink), NEW k \in 0 .. Len(m), NEW n, NEW o,
           IsGapOf(m, k, n), IsGapOf(m, k, o)
    PROVE  n = o
<1>1. gapStart(m) \in Nat
  BY LinkFields DEF gapStart, oid_First
<1>2. ~(n < o)
  BY <1>1 DEF IsGapOf
<1>3. ~(o < n)
  BY <1>1 DEF IsGapOf
<1> QED
  BY <1>2, <1>3 DEF IsGapOf

\* What the loop makes of nid at link k.
NextGap(m, k, n) == IF n = m[k].dest THEN n + 1 ELSE n

LEMMA GapStarts ==
    ASSUME NEW m \in Seq(MsgLink)
    PROVE  IsGapOf(m, 0, gapStart(m))
<1>1. gapStart(m) \in Nat
  BY LinkFields DEF gapStart, oid_First
<1> QED
  BY <1>1 DEF IsGapOf

LEMMA GapMoves ==
    ASSUME NEW m \in Seq(MsgLink), IsSorted(m), NEW k \in 1 .. Len(m), NEW n,
           IsGapOf(m, k - 1, n)
    PROVE  IsGapOf(m, k, NextGap(m, k, n))
<1>1. /\ DOMAIN m = 1 .. Len(m) /\ Len(m) \in Nat
      /\ \A i \in DOMAIN m : m[i].dest \in Nat
      /\ gapStart(m) \in Nat
  BY LinkFields DEF gapStart, oid_First
<1>2. \A i \in 1 .. k : i \in DOMAIN m /\ (i = k \/ i \in 1 .. k - 1)
  BY <1>1
<1>3. \A i \in 1 .. k - 1 : i \in 1 .. k
  BY <1>1
<1>4. /\ n \in Nat /\ gapStart(m) <= n
      /\ \A i \in 1 .. k - 1 : m[i].dest # n
      /\ \A x \in Nat : gapStart(m) <= x /\ x < n => \E i \in 1 .. k - 1 : m[i].dest = x
  BY DEF IsGapOf
<1>5. CASE n = m[k].dest
  <2>1. \A i \in 1 .. k : m[i].dest # n + 1
    <3> SUFFICES ASSUME NEW i \in 1 .. k PROVE m[i].dest # n + 1
      OBVIOUS
    <3>1. i = k \/ i < k
      BY <1>1
    <3>2. m[i].dest <= m[k].dest /\ m[i].dest \in Nat
      BY <1>1, <1>2, <3>1 DEF IsSorted
    <3> QED
      BY <1>4, <1>5, <3>2
  <2>2. \A x \in Nat : gapStart(m) <= x /\ x < n + 1 => \E i \in 1 .. k : m[i].dest = x
    <3> SUFFICES ASSUME NEW x \in Nat, gapStart(m) <= x, x < n + 1
                 PROVE  \E i \in 1 .. k : m[i].dest = x
      OBVIOUS
    <3>1. x = n \/ x < n
      BY <1>4
    <3>2. k \in 1 .. k
      BY <1>1
    <3> QED
      BY <1>3, <1>4, <1>5, <3>1, <3>2
  <2>3. n + 1 \in Nat /\ gapStart(m) <= n + 1
    BY <1>1, <1>4
  <2>4. NextGap(m, k, n) = n + 1
    BY <1>5 DEF NextGap
  <2> QED
    BY <2>1, <2>2, <2>3, <2>4 DEF IsGapOf
<1>6. CASE n # m[k].dest
  <2>1. \A i \in 1 .. k : m[i].dest # n
    BY <1>2, <1>4, <1>6
  <2>2. NextGap(m, k, n) = n
    BY <1>6 DEF NextGap
  <2> QED
    BY <1>3, <1>4, <2>1, <2>2 DEF IsGapOf
<1> QED
  BY <1>5, <1>6

LEMMA GapExists ==
    ASSUME NEW m \in Seq(MsgLink), IsSorted(m)
    PROVE  \A k \in 0 .. Len(m) : \E n : IsGapOf(m, k, n)
<1> DEFINE T == {k \in Nat : k <= Len(m) => \E n : IsGapOf(m, k, n)}
<1>1. 0 \in T
  BY GapStarts
<1>2. ASSUME NEW k \in Nat, k \in T PROVE k + 1 \in T
  <2> SUFFICES ASSUME k + 1 <= Len(m) PROVE \E n : IsGapOf(m, k + 1, n)
    OBVIOUS
  <2>1. PICK n : IsGapOf(m, k, n)
    BY <1>2
  <2>2. k + 1 \in 1 .. Len(m) /\ (k + 1) - 1 = k
    OBVIOUS
  <2>3. IsGapOf(m, k + 1, NextGap(m, k + 1, n))
    BY <2>1, <2>2, GapMoves
  <2> QED
    BY <2>3
<1> HIDE DEF T
<1>3. \A k \in Nat : k \in T
  BY <1>1, <1>2, InductiveSet
<1> QED
  BY <1>3 DEF T

\* The loop of the code finds the first gap of a sorted map.
LEMMA GapFound ==
    ASSUME NEW m \in Seq(MsgLink), IsSorted(m)
    PROVE  IsFirstGap(m, first_gap(m))
<1>0. Len(m) \in Nat /\ DOMAIN m = 1 .. Len(m)
  OBVIOUS
<1> DEFINE N == 0 .. Len(m)
           gap(k) == CHOOSE n : IsGapOf(m, k, n)
           g == [k \in N |-> gap(k)]
           Body(nid) == [ip \in N |-> IF ip = 0 THEN (IF m = <<>> THEN oid_First ELSE m[1].dest)
                                      ELSE IF nid[ip - 1] = m[ip].dest THEN nid[ip - 1] + 1
                                      ELSE nid[ip - 1]]
           h == CHOOSE nid : nid = Body(nid)
<1>1. ASSUME NEW k \in N PROVE IsGapOf(m, k, g[k])
  <2>1. \E n : IsGapOf(m, k, n)
    BY GapExists
  <2>2. IsGapOf(m, k, gap(k))
    BY <2>1, Zenon
  <2>3. g[k] = gap(k)
    OBVIOUS
  <2> HIDE DEF g, gap
  <2> QED
    BY <2>2, <2>3
<1>2. g = Body(g)
  <2>1. ASSUME NEW k \in N PROVE g[k] = Body(g)[k]
    <3> HIDE DEF g
    <3>1. CASE k = 0
      <4>1. IsGapOf(m, k, gapStart(m))
        BY <3>1, GapStarts
      <4>2. Body(g)[k] = gapStart(m)
        BY <3>1 DEF gapStart
      <4>3. IsGapOf(m, k, g[k])
        BY <1>1
      <4> HIDE DEF Body
      <4>4. g[k] = gapStart(m)
        BY <4>1, <4>3, GapUnique
      <4> QED
        BY <4>2, <4>4
    <3>2. CASE k # 0
      <4> DEFINE n == g[k - 1]
      <4>1. k \in 1 .. Len(m) /\ k - 1 \in N
        BY <1>0, <3>2
      <4>2. IsGapOf(m, k - 1, n) /\ IsGapOf(m, k, g[k])
        BY <1>1, <4>1
      <4>3. Body(g)[k] = NextGap(m, k, n)
        BY <3>2 DEF NextGap
      <4> HIDE DEF Body, n
      <4>4. IsGapOf(m, k, NextGap(m, k, n))
        BY <4>1, <4>2, GapMoves
      <4>5. g[k] = NextGap(m, k, n)
        BY <4>2, <4>4, GapUnique
      <4> QED
        BY <4>3, <4>5
    <3> QED
      BY <3>1, <3>2
  <2>2. g = [k \in N |-> g[k]]
    OBVIOUS
  <2>3. Body(g) = [k \in N |-> Body(g)[k]]
    <3> HIDE DEF g
    <3> QED
      OBVIOUS
  <2> HIDE DEF g, Body
  <2> QED
    BY <2>1, <2>2, <2>3
<1>3. h = Body(h)
  <2> HIDE DEF Body, g
  <2> QED
    BY <1>2, Zenon
<1>4. first_gap(m) = h[Len(m)]
  BY DEF first_gap
<1> HIDE DEF h
<1>5. \A k \in Nat : k \in N => IsGapOf(m, k, h[k])
  <2> DEFINE T == {k \in Nat : k \in N => IsGapOf(m, k, h[k])}
  <2>1. 0 \in T
    <3>1. 0 \in N /\ Body(h)[0] = gapStart(m)
      BY <1>0 DEF gapStart
    <3> HIDE DEF Body
    <3> QED
      BY <1>3, <3>1, GapStarts
  <2>2. ASSUME NEW k \in Nat, k \in T PROVE k + 1 \in T
    <3> SUFFICES ASSUME k + 1 \in N PROVE IsGapOf(m, k + 1, h[k + 1])
      OBVIOUS
    <3>1. k \in N /\ k + 1 \in 1 .. Len(m) /\ (k + 1) - 1 = k /\ k + 1 # 0
      BY <1>0
    <3>2. Body(h)[k + 1] = NextGap(m, k + 1, h[k])
      BY <3>1 DEF NextGap
    <3>3. h[k + 1] = NextGap(m, k + 1, h[k])
      <4> HIDE DEF Body
      <4> QED
        BY <1>3, <3>2
    <3>4. IsGapOf(m, k, h[k])
      BY <2>2, <3>1
    <3> DEFINE n == h[k]
    <3> HIDE DEF n
    <3>5. IsGapOf(m, k + 1, NextGap(m, k + 1, n))
      BY <3>1, <3>4, GapMoves DEF n
    <3> QED
      BY <3>3, <3>5 DEF n
  <2> HIDE DEF T
  <2>3. \A k \in Nat : k \in T
    BY <2>1, <2>2, InductiveSet
  <2> QED
    BY <2>3 DEF T
<1> DEFINE p == h[Len(m)]
<1>6. IsGapOf(m, Len(m), p)
  BY <1>0, <1>5
<1> HIDE DEF p
<1>7. IsFirstGap(m, p)
  <2>1. /\ p \in Nat /\ gapStart(m) <= p /\ gapStart(m) \in Nat
        /\ p \notin Dests(m)
    BY <1>0, <1>6, LinkFields DEF IsGapOf, Dests, gapStart, oid_First
  <2>2. gapStart(m) .. p - 1 \subseteq Dests(m)
    BY <1>0, <1>6, <2>1 DEF IsGapOf, Dests
  <2> QED
    BY <2>1, <2>2 DEF IsFirstGap, gapStart, Oid
<1> QED
  BY <1>4, <1>7 DEF p

-----------------------------------------------------------------------------
(* The inductive invariant *)

\* The methods that run on an object, and those that run for a message.
OnObject == {"create", "dispatch", "destroy", "destroyed", "failed"}
OnMessage == {"dispatch", "forward", "failed"}

\* A function in progress has the object and the message that it works on.
FrameOK(f, q) ==
    /\ f \in Frame
    /\ f.fn \in OnObject => f.obj # Null
    /\ f.fn \in OnMessage => q # <<>>

StackOK(s, q) == s \in Seq(Frame) /\ \A k \in DOMAIN s : FrameOK(s[k], q)

MapOK(m) ==
    m \in Seq(MsgLink) /\ FirstHolds(m) /\ \A p \in DOMAIN m : m[p].unused => m[p].o # Null

\* MapWellFormed is not inductive: casycom_mark_unused of a null object would
\* mark a link that holds none.  That the running methods have objects is the
\* strengthening, and to know it one must know where messages are in progress.
IInv ==
    /\ MapOK(omap)
    /\ inq \in Seq(Msg) /\ outq \in Seq(Msg)
    /\ heap \subseteq Nat \ {Null}
    /\ StackOK(stack, inq)
    /\ loop \in {"queues", "idle", "sweep", "reset", "done", "crashed"}
    /\ error \in {"none", "delivery", "idle"} /\ quitting \in BOOLEAN

-----------------------------------------------------------------------------
(* The stack *)

\* A frame is typed if its parts are.
LEMMA NewFrameOK ==
    ASSUME NEW fn \in {"create", "dispatch", "destroy", "notify", "erase", "destroyed",
                       "forward", "failed"},
           NEW oid \in Nat, NEW obj \in Nat, NEW peer \in Nat, NEW at \in Nat,
           NEW list \in Seq(Nat), NEW calls \in Nat, NEW q,
           fn \in OnObject => obj # Null,
           fn \in OnMessage => q # <<>>
    PROVE  FrameOK(NewFrame(fn, oid, obj, peer, at, list, calls), q)
  BY DEF FrameOK, NewFrame, Frame, Oid

\* The running function is the last one, and its fields have their types.
LEMMA TopOK ==
    ASSUME StackOK(stack, inq), NEW fns, Running(fns)
    PROVE  /\ Len(stack) \in DOMAIN stack /\ Len(stack) \in Nat
           /\ stack \in Seq(Frame)
           /\ top \in Frame /\ FrameOK(top, inq) /\ top.fn \in fns
           /\ top.oid \in Nat /\ top.obj \in Nat /\ top.peer \in Nat
           /\ top.at \in Nat /\ top.list \in Seq(Nat) /\ top.calls \in Nat
<1>1. stack \in Seq(Frame) /\ stack # <<>> /\ top.fn \in fns
  BY DEF StackOK, Running
<1>2. Len(stack) \in DOMAIN stack /\ Len(stack) \in Nat
  BY <1>1
<1>3. FrameOK(top, inq)
  BY <1>2 DEF StackOK, top
<1>4. top \in Frame
  BY <1>3 DEF FrameOK
<1>5. /\ top.oid \in Nat /\ top.obj \in Nat /\ top.peer \in Nat
      /\ top.at \in Nat /\ top.list \in Seq(Nat) /\ top.calls \in Nat
  BY <1>4 DEF Frame, Oid
<1> QED
  BY <1>1, <1>2, <1>3, <1>4, <1>5

\* A call pushes a frame.
LEMMA PushOK ==
    ASSUME NEW s, NEW q, StackOK(s, q), NEW f, FrameOK(f, q)
    PROVE  StackOK(Append(s, f), q)
<1>1. s \in Seq(Frame) /\ f \in Frame /\ \A k \in DOMAIN s : FrameOK(s[k], q)
  BY DEF StackOK, FrameOK
<1>2. /\ Append(s, f) \in Seq(Frame) /\ Len(Append(s, f)) = Len(s) + 1
      /\ \A k \in 1 .. Len(s) : Append(s, f)[k] = s[k]
      /\ Append(s, f)[Len(s) + 1] = f
  BY <1>1, AppendProperties
<1>3. \A k \in DOMAIN Append(s, f) : k \in DOMAIN s \/ k = Len(s) + 1
  BY <1>1, <1>2
<1> QED
  BY <1>1, <1>2, <1>3 DEF StackOK

\* A return pops one.
LEMMA PopOK ==
    ASSUME NEW s, NEW q, StackOK(s, q), s # <<>>
    PROVE  StackOK(Pop(s), q)
<1>1. s \in Seq(Frame) /\ Len(s) \in Nat /\ Len(s) > 0
      /\ \A k \in 1 .. Len(s) : FrameOK(s[k], q)
  BY DEF StackOK
<1>2. /\ Pop(s) \in Seq(Frame) /\ Len(Pop(s)) = Len(s) - 1
      /\ \A k \in 1 .. Len(s) - 1 : Pop(s)[k] = s[k]
  <2>1. \A k \in 1 .. Len(s) - 1 : s[k] \in Frame
    BY <1>1 DEF FrameOK
  <2>2. Pop(s) \in [1 .. Len(s) - 1 -> Frame] /\ Len(s) - 1 \in Nat
    BY <2>1, <1>1 DEF Pop
  <2>3. \A k \in 1 .. Len(s) - 1 : Pop(s)[k] = s[k]
    BY DEF Pop
  <2> QED
    BY <2>2, <2>3, FunctionIsSeq
<1> QED
  BY <1>1, <1>2 DEF StackOK

\* A step of the function at k replaces its frame.
LEMMA ReplaceOK ==
    ASSUME NEW s, NEW q, StackOK(s, q), NEW k \in DOMAIN s, NEW f, FrameOK(f, q)
    PROVE  StackOK([s EXCEPT ![k] = f], q)
<1>1. s \in Seq(Frame) /\ f \in Frame
  BY DEF StackOK, FrameOK
<1> QED
  BY <1>1, ReplaceElement DEF StackOK

\* The stack does not care which message is in delivery.
LEMMA QueueChange ==
    ASSUME NEW s, NEW q, NEW r, StackOK(s, q), q # <<>> => r # <<>>
    PROVE  StackOK(s, r)
  BY DEF StackOK, FrameOK

\* Nothing runs on an empty stack.
LEMMA EmptyStackOK == \A q : StackOK(<<>>, q)
  BY DEF StackOK

\* Neither does it matter for a stack of one frame what was below.
LEMMA SingleFrameOK ==
    ASSUME NEW f, NEW q, FrameOK(f, q)
    PROVE  StackOK(<<f>>, q)
  BY DEF StackOK, FrameOK

\* A library call is counted.
LEMMA CalledOK ==
    ASSUME StackOK(stack, inq), NEW fns, MayCall(fns)
    PROVE  StackOK(Called, inq)
<1>1. Running(fns) /\ top.calls > 0
  BY DEF MayCall
<1> DEFINE f == [top EXCEPT !.calls = @ - 1]
<1>2. FrameOK(f, inq)
  <2>1. top \in Frame /\ FrameOK(top, inq) /\ top.calls \in Nat
    BY <1>1, TopOK
  <2>2. f \in Frame /\ f.fn = top.fn /\ f.obj = top.obj
    BY <2>1, <1>1 DEF Frame
  <2> QED
    BY <2>1, <2>2 DEF FrameOK
<1>3. Called = [stack EXCEPT ![Len(stack)] = f]
  BY DEF Called, top
<1> QED
  BY <1>1, <1>2, <1>3, TopOK, ReplaceOK

\* So is one that inserts a link.
LEMMA InsertingOK ==
    ASSUME StackOK(stack, inq), NEW fns, MayCall(fns), CalledInserting
    PROVE  StackOK(stack', inq)
<1>1. /\ Len(stack) \in DOMAIN stack /\ stack \in Seq(Frame) /\ top \in Frame
      /\ FrameOK(top, inq) /\ top.at \in Nat /\ top.calls \in Nat /\ top.calls > 0
  BY TopOK DEF MayCall
<1>2. PICK at \in {top.at, 0} :
        stack' = [stack EXCEPT ![Len(stack)].calls = @ - 1, ![Len(stack)].at = at]
  BY DEF CalledInserting
<1> DEFINE f == [top EXCEPT !.calls = @ - 1, !.at = at]
<1>3. f \in Frame /\ f.fn = top.fn /\ f.obj = top.obj
  <2>1. at \in Nat /\ top.calls - 1 \in Nat /\ top \in Frame
    BY <1>1, <1>2
  <2> QED
    BY <2>1 DEF Frame
<1>4. stack' = [stack EXCEPT ![Len(stack)] = f]
  BY <1>1, <1>2 DEF top
<1>5. FrameOK(f, inq)
  BY <1>1, <1>3 DEF FrameOK
<1> QED
  BY <1>1, <1>4, <1>5, ReplaceOK

\* Whose proxies a method uses is the oid of an object.
LEMMA ActorsOK ==
    ASSUME omap \in Seq(MsgLink), StackOK(stack, inq), NEW fns, MayCall(fns)
    PROVE  Actors \subseteq Nat
<1>1. top.oid \in Nat
  BY TopOK DEF MayCall
<1>2. Partners \subseteq Nat
  BY LinkFields DEF Partners, Dests
<1> QED
  BY <1>1, <1>2 DEF Actors

-----------------------------------------------------------------------------
(* The map in a step *)

\* casycom_create_proxy_to, by any source to any destination, keeps the map.
LEMMA CreateOK ==
    ASSUME MapOK(omap), NEW i \in Iface, NEW s \in Nat, NEW d \in Nat,
           casycom_create_proxy_to(i, s, d)
    PROVE  MapOK(omap')
<1> DEFINE l == NewLink(s, d, i)
<1>1. PICK p \in 1 .. Len(omap) + 1 :
        IsInsertPoint(omap, d, p) /\ omap' = vector_emplace(omap, p, l)
  BY DEF casycom_create_proxy_to
<1>2. omap \in Seq(MsgLink) /\ l \in MsgLink /\ l.o = Null /\ l.dest = d /\ ~l.unused
  BY DEF MapOK, NewLink, MsgLink, Oid, Null
<1> HIDE DEF l
<1>3. FirstHolds(omap')
  BY <1>1, <1>2, EmplaceKeepsFirst DEF MapOK
<1>4. /\ omap' \in Seq(MsgLink) /\ Len(omap') = Len(omap) + 1
      /\ \A k \in 1 .. Len(omap) + 1 :
            omap'[k] = IF k < p THEN omap[k] ELSE IF k = p THEN l ELSE omap[k - 1]
  BY SMTT(30), <1>1, <1>2, EmplaceType
<1>5. ASSUME NEW k \in DOMAIN omap', omap'[k].unused
      PROVE  omap'[k].o # Null
  <2>0. k \in 1 .. Len(omap) + 1 /\ Len(omap) \in Nat
    BY <1>2, <1>4
  <2>1. omap'[k] = l \/ \E j \in DOMAIN omap : omap'[k] = omap[j]
    <3>1. CASE k < p
      <4>1. k \in DOMAIN omap /\ omap'[k] = omap[k]
        BY <2>0, <3>1, <1>1, <1>2, <1>4
      <4> QED
        BY <4>1
    <3>2. CASE k > p
      <4>1. k - 1 \in DOMAIN omap /\ omap'[k] = omap[k - 1]
        BY <2>0, <3>2, <1>1, <1>2, <1>4
      <4> QED
        BY <4>1
    <3>3. CASE k = p
      BY <2>0, <3>3, <1>4
    <3> QED
      BY <2>0, <3>1, <3>2, <3>3, <1>1
  <2> QED
    BY <1>2, <1>5, <2>1 DEF MapOK
<1> QED
  BY <1>3, <1>4, <1>5 DEF MapOK

\* casycom_destroy_object is called for a link that holds an object.
LEMMA DestroyFrameOK ==
    ASSUME NEW m \in Seq(MsgLink), NEW p \in DOMAIN m, m[p].o # Null, NEW at \in Nat, NEW q
    PROVE  FrameOK(DestroyFrame(m[p], at), q)
<1>1. m[p] \in MsgLink
  OBVIOUS
<1>2. m[p].dest \in Nat /\ m[p].o \in Nat
  BY <1>1 DEF MsgLink, Oid
<1>3. (IF find_factory(m[p].iface) \in ActiveDtor THEN MaxCalls ELSE 0) \in Nat
  BY CasycomAssumption
<1>4. <<>> \in Seq(Nat) /\ "destroy" \notin OnMessage
  BY DEF OnMessage
<1> QED
  BY <1>2, <1>3, <1>4, NewFrameOK DEF DestroyFrame

\* A message does not change its type when its destination goes.
LEMMA OrphanedOK ==
    ASSUME NEW q \in Seq(Msg), NEW p
    PROVE  /\ Orphaned(q, p) \in Seq(Msg) /\ Len(Orphaned(q, p)) = Len(q)
           /\ q # <<>> => Orphaned(q, p) # <<>>
<1> DEFINE gone(k) == /\ q[k].dest = omap[p].dest
                      /\ omap[p].dest \notin Dests(vector_erase(omap, p))
           f == [k \in 1 .. Len(q) |-> [q[k] EXCEPT !.stale = @ \/ gone(k)]]
<1>1. Orphaned(q, p) = f
  BY DEF Orphaned
<1>2. \A k \in 1 .. Len(q) : q[k] \in Msg /\ gone(k) \in BOOLEAN
  OBVIOUS
<1> HIDE DEF gone
<1>3. \A k \in 1 .. Len(q) : [q[k] EXCEPT !.stale = @ \/ gone(k)] \in Msg
  BY <1>2 DEF Msg
<1>4. f \in [1 .. Len(q) -> Msg] /\ Len(q) \in Nat
  BY <1>3
<1> HIDE DEF f
<1>5. f \in Seq(Msg) /\ Len(f) = Len(q)
  BY <1>4, FunctionIsSeq
<1> QED
  BY <1>1, <1>5

\* casycom_destroy_link_at keeps map, queues and stack.
LEMMA DestroyLinkOK ==
    ASSUME MapOK(omap), inq \in Seq(Msg), outq \in Seq(Msg),
           NEW p \in DOMAIN omap, NEW fs, StackOK(fs, inq),
           casycom_destroy_link_at(p, fs)
    PROVE  MapOK(omap') /\ inq' \in Seq(Msg) /\ outq' \in Seq(Msg) /\ StackOK(stack', inq')
<1>1. omap \in Seq(MsgLink) /\ FirstHolds(omap)
      /\ omap' = vector_erase(omap, p) /\ inq' = Orphaned(inq, p) /\ outq' = Orphaned(outq, p)
  BY DEF MapOK, casycom_destroy_link_at
<1>2. FirstHolds(omap')
  BY <1>1, EraseKeepsFirst
<1>3. /\ omap' \in Seq(MsgLink) /\ Len(omap') = Len(omap) - 1
      /\ \A i \in 1 .. Len(omap) - 1 : omap'[i] = IF i < p THEN omap[i] ELSE omap[i + 1]
  BY <1>1, EraseType
<1>4. ASSUME NEW k \in DOMAIN omap', omap'[k].unused
      PROVE  omap'[k].o # Null
  <2>0. k \in 1 .. Len(omap) - 1 /\ Len(omap) \in Nat /\ p \in 1 .. Len(omap)
    BY <1>1, <1>3
  <2>1. \E j \in DOMAIN omap : omap'[k] = omap[j]
    <3>1. k \in DOMAIN omap /\ k + 1 \in DOMAIN omap
      BY <2>0, <1>1
    <3> QED
      BY <2>0, <3>1, <1>3
  <2> QED
    BY <1>4, <2>1 DEF MapOK
<1>5. inq' \in Seq(Msg) /\ outq' \in Seq(Msg) /\ (inq # <<>> => inq' # <<>>)
  BY <1>1, OrphanedOK
<1>6. StackOK(fs, inq')
  BY <1>5, QueueChange
<1>7. CASE omap[p].o = Null
  BY <1>2, <1>3, <1>4, <1>5, <1>6, <1>7 DEF MapOK, casycom_destroy_link_at
<1>8. CASE omap[p].o # Null
  <2>1. FrameOK(DestroyFrame(omap[p], 0), inq')
    BY <1>1, <1>8, DestroyFrameOK
  <2>2. stack' = Append(fs, DestroyFrame(omap[p], 0))
    BY <1>8 DEF casycom_destroy_link_at
  <2> QED
    BY <2>1, <2>2, <1>2, <1>3, <1>4, <1>5, <1>6, PushOK DEF MapOK
<1> QED
  BY <1>7, <1>8

\* A link of the map may change its object and its mark, if the object is on the
\* first link of its block and no mark is left without an object.
LEMMA SetLinkOK ==
    ASSUME MapOK(omap), NEW p \in DOMAIN omap, NEW o \in Nat, NEW u \in BOOLEAN,
           o # Null => IsDestination(omap, omap[p].dest, p),
           u => o # Null
    PROVE  MapOK([omap EXCEPT ![p].o = o, ![p].unused = u])
<1> DEFINE l == [omap[p] EXCEPT !.o = o, !.unused = u]
           m == [omap EXCEPT ![p] = l]
<1>1. omap \in Seq(MsgLink) /\ omap[p] \in MsgLink
  BY DEF MapOK
<1>2. l \in MsgLink /\ l.dest = omap[p].dest /\ l.o = o /\ l.unused = u
  BY <1>1 DEF MsgLink
<1>3. [omap EXCEPT ![p].o = o, ![p].unused = u] = m
  BY <1>1
<1> HIDE DEF l
<1>4. /\ m \in Seq(MsgLink) /\ Len(m) = Len(omap) /\ DOMAIN m = DOMAIN omap
      /\ m[p] = l /\ \A j \in DOMAIN omap : j # p => m[j] = omap[j]
  BY <1>1, <1>2, ReplaceElement
<1> HIDE DEF m
<1>5. \A j \in DOMAIN m : m[j].dest = omap[j].dest
  BY <1>2, <1>4
<1>6. IsSorted(m)
  BY <1>4, <1>5 DEF MapOK, FirstHolds, IsSorted
<1>7. \A d, j : IsDestination(omap, d, j) => IsDestination(m, d, j)
  BY <1>4, <1>5 DEF IsDestination, IsLowerBound
<1>8. \A j \in DOMAIN m : m[j].o # Null => IsDestination(m, m[j].dest, j)
  BY <1>2, <1>4, <1>5, <1>7 DEF MapOK, FirstHolds
<1>9. \A j \in DOMAIN m : m[j].unused => m[j].o # Null
  BY <1>2, <1>4 DEF MapOK
<1> QED
  BY <1>3, <1>4, <1>6, <1>8, <1>9 DEF MapOK, FirstHolds

\* casycom_mark_unused of an object marks only a link that holds it.
LEMMA MarkOK ==
    ASSUME MapOK(omap), NEW obj \in Nat, obj # Null
    PROVE  MapOK([p \in DOMAIN omap |->
                    [omap[p] EXCEPT !.unused = @ \/ omap[p].o = obj]])
<1> DEFINE m == [p \in DOMAIN omap |-> [omap[p] EXCEPT !.unused = @ \/ omap[p].o = obj]]
<1>1. omap \in Seq(MsgLink) /\ \A p \in DOMAIN omap : omap[p] \in MsgLink
  BY DEF MapOK
<1>2. \A p \in DOMAIN omap :
        /\ m[p] \in MsgLink /\ m[p].dest = omap[p].dest /\ m[p].o = omap[p].o
        /\ m[p].unused = (omap[p].unused \/ omap[p].o = obj)
  BY <1>1 DEF MsgLink
<1>3. DOMAIN m = 1 .. Len(omap) /\ Len(omap) \in Nat /\ DOMAIN omap = 1 .. Len(omap)
  BY <1>1
<1>4. m \in [1 .. Len(omap) -> MsgLink]
  BY <1>2, <1>3
<1> HIDE DEF m
<1>5. m \in Seq(MsgLink) /\ Len(m) = Len(omap)
  BY <1>3, <1>4, FunctionIsSeq
<1>6. IsSorted(m)
  BY <1>2, <1>3 DEF MapOK, FirstHolds, IsSorted
<1>7. \A j \in DOMAIN m : m[j].o # Null => IsDestination(m, m[j].dest, j)
  BY <1>2, <1>3, <1>5 DEF MapOK, FirstHolds, IsDestination, IsLowerBound
<1>8. \A j \in DOMAIN m : m[j].unused => m[j].o # Null
  BY <1>2, <1>3 DEF MapOK
<1> QED
  BY <1>5, <1>6, <1>7, <1>8 DEF MapOK, FirstHolds, m

-----------------------------------------------------------------------------
(* The steps *)

\* The library calls that a method makes preserve the invariant.
LEMMA LibraryCallOK ==
    ASSUME IInv, LibraryCall
    PROVE  IInv'
<1> USE DEF IInv
<1>1. CASE CreateProxy
  <2>1. MayCall({"create", "dispatch", "destroy"}) /\ CalledInserting
    BY <1>1 DEF CreateProxy
  <2>2. Actors \subseteq Nat
    BY <2>1, ActorsOK DEF MapOK
  <2>3. PICK i \in Iface, s \in Actors, d \in oid_First .. MaxOid :
          casycom_create_proxy_to(i, s, d)
    BY <1>1 DEF CreateProxy
  <2>4. s \in Nat /\ d \in Nat
    BY <2>2, <2>3, CasycomAssumption DEF oid_First
  <2>5. MapOK(omap') /\ StackOK(stack', inq)
    BY <2>1, <2>3, <2>4, CreateOK, InsertingOK
  <2> QED
    BY <1>1, <2>5 DEF CreateProxy
<1>2. CASE CreateProxyTo
  <2>1. MayCall({"create", "dispatch", "destroy"}) /\ CalledInserting
    BY <1>2 DEF CreateProxyTo
  <2>2. top.oid \in Nat /\ top.peer \in Nat
    BY <2>1, TopOK DEF MayCall
  <2>3. omap \in Seq(MsgLink) /\ Actors \subseteq Nat
    BY <2>1, ActorsOK DEF MapOK
  <2>4. PICK i \in Iface, s \in Actors :
          \E d \in IF s # top.oid THEN {top.oid}
                   ELSE IF LinkAny THEN Dests(omap) \cup {top.peer} ELSE {top.peer} :
            casycom_create_proxy_to(i, s, d)
    BY <1>2 DEF CreateProxyTo
  <2>5. PICK d \in IF s # top.oid THEN {top.oid}
                  ELSE IF LinkAny THEN Dests(omap) \cup {top.peer} ELSE {top.peer} :
            casycom_create_proxy_to(i, s, d)
    BY <2>4
  <2>6. s \in Nat /\ d \in Nat
    BY <2>2, <2>3, <2>4, <2>5, LinkFields DEF Dests
  <2>7. MapOK(omap') /\ StackOK(stack', inq)
    BY <2>1, <2>5, <2>6, CreateOK, InsertingOK
  <2> QED
    BY <1>2, <2>7 DEF CreateProxyTo
<1>3. CASE casycom_destroy_proxy
  <2>1. MayCall({"create", "dispatch", "destroyed"})
    BY <1>3 DEF casycom_destroy_proxy
  <2>2. StackOK(Called, inq)
    BY <2>1, CalledOK
  <2>3. PICK p \in DOMAIN omap : casycom_destroy_link_at(p, Called)
    BY <1>3 DEF casycom_destroy_proxy
  <2>4. MapOK(omap') /\ inq' \in Seq(Msg) /\ outq' \in Seq(Msg) /\ StackOK(stack', inq')
    BY <2>2, <2>3, DestroyLinkOK
  <2> QED
    BY <1>3, <2>4 DEF casycom_destroy_proxy
<1>4. CASE casycom_queue_message
  <2>1. StackOK(stack', inq)
    BY <1>4, CalledOK DEF casycom_queue_message
  <2>2. PICK p \in DOMAIN omap :
          outq' = Append(outq, [src |-> omap[p].src, dest |-> omap[p].dest,
                                iface |-> omap[p].iface, stale |-> FALSE])
    BY <1>4 DEF casycom_queue_message
  <2>3. omap[p] \in MsgLink
    BY DEF MapOK
  <2>4. [src |-> omap[p].src, dest |-> omap[p].dest,
         iface |-> omap[p].iface, stale |-> FALSE] \in Msg
    BY <2>3 DEF MsgLink, Msg
  <2>5. outq' \in Seq(Msg)
    BY <2>2, <2>4, AppendProperties
  <2> QED
    BY <1>4, <2>1, <2>5 DEF casycom_queue_message
<1>5. CASE casycom_mark_unused
  <2>1. /\ MayCall({"create", "dispatch", "destroy", "destroyed", "failed"})
        /\ stack' = Called
    BY <1>5 DEF casycom_mark_unused
  <2>2. PICK n \in (IF top.fn = "destroy" THEN {} ELSE {top.obj}) \cup
                  ({omap[q].o : q \in {r \in DOMAIN omap : omap[r].dest \in Partners}}
                     \ {Null}) :
          omap' = [p \in DOMAIN omap |-> [omap[p] EXCEPT !.unused = @ \/ omap[p].o = n]]
    BY <1>5 DEF casycom_mark_unused
  <2>3. n \in Nat /\ n # Null
    <3>1. CASE n = top.obj
      <4>1. Running({"create", "dispatch", "destroy", "destroyed", "failed"})
        BY <2>1 DEF MayCall
      <4>2. FrameOK(top, inq) /\ top.fn \in OnObject /\ top.obj \in Nat
        BY <4>1, TopOK DEF OnObject
      <4> QED
        BY <3>1, <4>2 DEF FrameOK
    <3>2. CASE n # Null /\ \E q \in DOMAIN omap : n = omap[q].o
      <4>1. PICK q \in DOMAIN omap : n = omap[q].o
        BY <3>2
      <4>2. omap[q] \in MsgLink
        BY <4>1 DEF MapOK
      <4> QED
        BY <3>2, <4>1, <4>2 DEF MsgLink
    <3>3. n = top.obj \/ (n # Null /\ \E q \in DOMAIN omap : n = omap[q].o)
      <4> DEFINE own == IF top.fn = "destroy" THEN {} ELSE {top.obj}
                 theirs == {omap[q].o : q \in {r \in DOMAIN omap : omap[r].dest \in Partners}}
      <4>1. n \in own \/ n \in theirs \ {Null}
        BY <2>2, Zenon
      <4>2. CASE n \in own
        BY <4>2
      <4>3. CASE n \in theirs \ {Null}
        <5>1. PICK q \in {r \in DOMAIN omap : omap[r].dest \in Partners} : n = omap[q].o
          BY <4>3, Zenon
        <5>2. q \in DOMAIN omap
          BY <5>1
        <5> QED
          BY <4>3, <5>1, <5>2, Zenon
      <4> QED
        BY <4>1, <4>2, <4>3
    <3> QED
      BY <3>1, <3>2, <3>3
  <2>4. StackOK(stack', inq)
    BY <2>1, CalledOK
  <2>5. MapOK(omap')
    BY <2>2, <2>3, MarkOK
  <2> QED
    BY <1>5, <2>4, <2>5 DEF casycom_mark_unused
<1>6. CASE casycom_error
  BY <1>6, CalledOK DEF casycom_error
<1>7. CASE casycom_quit
  BY <1>7, CalledOK DEF casycom_quit
<1> QED
  BY <1>1, <1>2, <1>3, <1>4, <1>5, <1>6, <1>7 DEF LibraryCall

\* So does the delivery of messages.
LEMMA MessageStepOK ==
    ASSUME IInv, MessageStep
    PROVE  IInv'
<1> USE DEF IInv
<1>h. ASSUME inq # <<>>
      PROVE  /\ Head(inq) \in Msg /\ Tail(inq) \in Seq(Msg)
             /\ Head(inq).dest \in Nat /\ Head(inq).src \in Nat
  <2>1. Head(inq) \in Msg /\ Tail(inq) \in Seq(Msg)
    BY <1>h, HeadTailProperties
  <2> QED
    BY <2>1 DEF Msg, Oid
<1>1. CASE DropMessage
  BY <1>1, <1>h, EmptyStackOK DEF DropMessage, Delivering
<1>2. CASE casycom_create_link_object
  <2>1. PICK n \in 1 .. MaxLinks + 1 :
          /\ heap' = heap \cup {n}
          /\ stack' = <<NewFrame("create", Head(inq).dest, n, Head(inq).src, 0, <<>>, MaxCalls)>>
    BY <1>2 DEF casycom_create_link_object
  <2>2. n \in Nat /\ n # Null /\ MaxCalls \in Nat /\ <<>> \in Seq(Nat)
    BY CasycomAssumption DEF Null
  <2>3. Head(inq).dest \in Nat /\ Head(inq).src \in Nat
    BY <1>2, <1>h DEF casycom_create_link_object, Delivering
  <2>4. FrameOK(NewFrame("create", Head(inq).dest, n, Head(inq).src, 0, <<>>, MaxCalls), inq)
    BY <2>2, <2>3, NewFrameOK DEF OnMessage
  <2>5. StackOK(stack', inq)
    BY <2>1, <2>4, SingleFrameOK
  <2> QED
    BY <1>2, <2>1, <2>2, <2>5 DEF casycom_create_link_object
<1>3. CASE CreateReturns
  <2>1. Running({"create"}) /\ stack' = Pop(stack)
    BY <1>3 DEF CreateReturns
  <2>2. top.obj \in Nat /\ top.obj # Null
    <3>1. FrameOK(top, inq) /\ top.fn \in {"create"} /\ top.obj \in Nat
      BY <2>1, TopOK
    <3> QED
      BY <3>1 DEF FrameOK, OnObject
  <2>3. PICK p \in DOMAIN omap :
          IsDestination(omap, top.oid, p) /\ omap' = [omap EXCEPT ![p].o = top.obj]
    BY <1>3 DEF CreateReturns
  <2>4. omap[p] \in MsgLink /\ omap[p].dest = top.oid
    BY <2>3 DEF MapOK, IsDestination
  <2>5. omap[p].unused \in BOOLEAN
    BY <2>4 DEF MsgLink
  <2>6. omap' = [omap EXCEPT ![p].o = top.obj, ![p].unused = omap[p].unused]
    BY <2>3, <2>4 DEF MsgLink
  <2>7. MapOK(omap')
    <3>1. IsDestination(omap, omap[p].dest, p) /\ MapOK(omap)
      BY <2>3, <2>4
    <3> QED
      BY ONLY <2>2, <2>5, <2>6, <3>1, SetLinkOK
  <2>8. StackOK(stack', inq)
    BY <2>1, PopOK DEF Running
  <2> QED
    BY <1>3, <2>7, <2>8 DEF CreateReturns
<1>4. CASE Dispatch
  <2>1. PICK p \in DOMAIN omap :
          /\ omap[p].o # Null
          /\ \/ /\ stack' = <<NewFrame("dispatch", Head(inq).dest, omap[p].o,
                                       Head(inq).src, 0, <<>>, MaxCalls)>>
                /\ loop' = loop
             \/ stack' = stack /\ loop' = "crashed"
    BY <1>4 DEF Dispatch
  <2>2. omap[p].o \in Nat
    <3>1. omap[p] \in MsgLink
      BY DEF MapOK
    <3> QED
      BY <3>1 DEF MsgLink
  <2>3. Head(inq).dest \in Nat /\ Head(inq).src \in Nat /\ inq # <<>>
    BY <1>4, <1>h DEF Dispatch, Delivering
  <2>4. MaxCalls \in Nat /\ <<>> \in Seq(Nat)
    BY CasycomAssumption
  <2>5. FrameOK(NewFrame("dispatch", Head(inq).dest, omap[p].o, Head(inq).src, 0, <<>>,
                         MaxCalls), inq)
    BY <2>1, <2>2, <2>3, <2>4 DEF FrameOK, NewFrame, Frame, Oid
  <2>6. StackOK(stack', inq)
    BY <2>1, <2>5, SingleFrameOK
  <2> QED
    BY <1>4, <2>1, <2>6 DEF Dispatch
<1>5. CASE DispatchReturns
  <2>1. Running({"dispatch"})
    BY <1>5 DEF DispatchReturns
  <2>2. inq # <<>>
    <3>1. FrameOK(top, inq) /\ top.fn \in {"dispatch"}
      BY <2>1, TopOK
    <3> QED
      BY <3>1 DEF FrameOK, OnMessage
  <2>3. CASE error # "none"
    <3>1. stack' = <<NewFrame("forward", Head(inq).dest, 0, Head(inq).dest, 0, <<>>, 0)>>
          /\ inq' = inq
      BY <1>5, <2>3 DEF DispatchReturns
    <3>2. FrameOK(NewFrame("forward", Head(inq).dest, 0, Head(inq).dest, 0, <<>>, 0), inq)
      <4>1. Head(inq).dest \in Nat /\ 0 \in Nat /\ <<>> \in Seq(Nat) /\ "forward" \notin OnObject
        BY <1>h, <2>2 DEF OnObject
      <4> QED
        BY <4>1, <2>2 DEF FrameOK, NewFrame, Frame, Oid
    <3> QED
      BY <1>5, <3>1, <3>2, SingleFrameOK DEF DispatchReturns
  <2>4. CASE error = "none"
    BY <1>5, <1>h, <2>2, <2>4, EmptyStackOK DEF DispatchReturns
  <2> QED
    BY <2>3, <2>4
<1>6. CASE SwapQueues
  BY <1>6, EmptyStackOK DEF SwapQueues
<1> QED
  BY <1>1, <1>2, <1>3, <1>4, <1>5, <1>6 DEF MessageStep

\* Forwarding an error to the creator keeps the stack.
LEMMA ForwardedOK ==
    ASSUME MapOK(omap), NEW s, StackOK(s, inq), NEW p \in DOMAIN omap
    PROVE  StackOK(Forwarded(s, p), inq)
<1> DEFINE f == [s[Len(s)] EXCEPT !.peer = s[Len(s)].oid, !.oid = omap[p].src]
<1>1. CASE s # <<>>
  <2>1. s \in Seq(Frame) /\ Len(s) \in DOMAIN s
    BY <1>1 DEF StackOK
  <2>2. s[Len(s)] \in Frame /\ FrameOK(s[Len(s)], inq)
    BY <2>1 DEF StackOK
  <2>3. s[Len(s)].oid \in Nat /\ omap[p].src \in Nat
    <3>1. s[Len(s)].oid \in Nat
      BY <2>2 DEF Frame, Oid
    <3> QED
      BY <3>1, LinkFields DEF MapOK
  <2>4. f \in Frame /\ f.fn = s[Len(s)].fn /\ f.obj = s[Len(s)].obj
    BY <2>2, <2>3 DEF Frame, Oid
  <2>5. FrameOK(f, inq)
    BY <2>2, <2>4 DEF FrameOK
  <2>6. Forwarded(s, p) = [s EXCEPT ![Len(s)] = f]
    BY <2>1 DEF Forwarded
  <2> HIDE DEF f
  <2>7. StackOK([s EXCEPT ![Len(s)] = f], inq)
    BY ONLY StackOK(s, inq), <2>1, <2>5, ReplaceOK
  <2> QED
    BY <2>6, <2>7
<1>2. CASE s = <<>>
  <2>1. Forwarded(s, p) = <<>>
    BY <1>2 DEF Forwarded
  <2> QED
    BY <2>1, EmptyStackOK
<1> QED
  BY <1>1, <1>2

\* So does the forwarding of errors.
LEMMA ErrorStepOK ==
    ASSUME IInv, ErrorStep
    PROVE  IInv'
<1> USE DEF IInv
<1>1. CASE ErrorUnhandled
  BY <1>1, EmptyStackOK DEF ErrorUnhandled
<1>2. CASE casycom_forward_error
  <2>1. Running({"forward"})
    BY <1>2 DEF casycom_forward_error
  <2>2. /\ FrameOK(top, inq) /\ top.fn \in {"forward"}
        /\ top.oid \in Nat /\ top.peer \in Nat
    BY <2>1, TopOK
  <2>3. inq # <<>> /\ stack # <<>> /\ stack[Len(stack)].fn = "forward"
    BY <2>1, <2>2 DEF FrameOK, OnMessage, Running, top
  <2>4. PICK p \in DOMAIN omap :
          stack' = IF omap[p].o # Null /\ find_factory(omap[p].iface) \in OnError
                   THEN Append(stack, NewFrame("failed", top.oid, omap[p].o, top.peer,
                                               0, <<>>, MaxCalls))
                   ELSE Forwarded(stack, p)
    BY <1>2 DEF casycom_forward_error
  <2>5. StackOK(Forwarded(stack, p), inq)
    BY ForwardedOK
  <2>6. ASSUME omap[p].o # Null
        PROVE  StackOK(Append(stack, NewFrame("failed", top.oid, omap[p].o, top.peer,
                                              0, <<>>, MaxCalls)), inq)
    <3>1. omap[p] \in MsgLink
      BY DEF MapOK
    <3>2. omap[p].o \in Nat /\ MaxCalls \in Nat /\ <<>> \in Seq(Nat)
      BY <3>1, CasycomAssumption DEF MsgLink
    <3>3. FrameOK(NewFrame("failed", top.oid, omap[p].o, top.peer, 0, <<>>, MaxCalls), inq)
      BY <2>2, <2>3, <2>6, <3>2 DEF FrameOK, NewFrame, Frame, Oid
    <3> QED
      BY <3>3, PushOK
  <2>7. StackOK(stack', inq)
    BY <2>4, <2>5, <2>6
  <2> QED
    BY <1>2, <2>7 DEF casycom_forward_error
<1>3. CASE ErrorHandled
  <2>1. Running({"failed"})
    BY <1>3 DEF ErrorHandled
  <2>2. FrameOK(top, inq) /\ top.fn \in {"failed"}
    BY <2>1, TopOK
  <2>3. inq # <<>>
    BY <2>2 DEF FrameOK, OnMessage
  <2>4. Tail(inq) \in Seq(Msg)
    BY <2>3, HeadTailProperties
  <2> QED
    BY <1>3, <2>4, EmptyStackOK DEF ErrorHandled
<1>4. CASE ErrorDeclined
  <2>1. Running({"failed"})
    BY <1>4 DEF ErrorDeclined
  <2>4. StackOK(Pop(stack), inq)
    BY <2>1, PopOK DEF Running
  <2>5. PICK p \in DOMAIN omap : stack' = Forwarded(Pop(stack), p)
    BY <1>4 DEF ErrorDeclined
  <2>6. StackOK(stack', inq)
    BY <2>4, <2>5, ForwardedOK
  <2> QED
    BY <1>4, <2>6 DEF ErrorDeclined
<1> QED
  BY <1>1, <1>2, <1>3, <1>4 DEF ErrorStep

\* So does the destruction of an object.
LEMMA DestroyStepOK ==
    ASSUME IInv, DestroyStep
    PROVE  IInv'
<1> USE DEF IInv
<1>1. CASE DestroyReturns
  <2>1. Running({"destroy"})
    BY <1>1 DEF DestroyReturns
  <2>2. Len(stack) \in DOMAIN stack /\ top.oid \in Nat /\ top.at \in Nat
    BY <2>1, TopOK
  <2>3. omap \in Seq(MsgLink)
    BY DEF MapOK
  <2>4. MapOK(omap')
    <3>1. CASE top.at = 0
      BY <1>1, <3>1 DEF DestroyReturns
    <3>2. CASE top.at # 0
      <4>1. top.at \in DOMAIN omap
            /\ omap' = [omap EXCEPT ![top.at].o = Null, ![top.at].unused = FALSE]
        BY <1>1, <3>2 DEF DestroyReturns
      <4>2. Null \in Nat /\ FALSE \in BOOLEAN
        BY DEF Null
      <4> QED
        BY <4>1, <4>2, SetLinkOK
    <3> QED
      BY <3>1, <3>2
  <2> DEFINE oid == IF top.at = 0 THEN top.oid ELSE omap[top.at].dest
  <2>5. oid \in Nat
    BY <1>1, <2>2, <2>3, LinkFields DEF DestroyReturns
  <2>6. stack' = [stack EXCEPT ![Len(stack)] =
                    NewFrame("notify", oid, 0, 0, 0, Callers(omap, oid), 0)]
    BY <1>1 DEF DestroyReturns
  <2> HIDE DEF oid
  <2>7. Callers(omap, oid) \in Seq(Nat)
    <3>1. \A p \in 1 .. Len(omap) : (IF omap[p].dest = oid THEN omap[p].src ELSE 0) \in Nat
      BY <2>3, LinkFields
    <3>2. DOMAIN omap = 1 .. Len(omap) /\ Len(omap) \in Nat
      BY <2>3
    <3>3. Callers(omap, oid) \in [1 .. Len(omap) -> Nat]
      BY <3>1, <3>2 DEF Callers
    <3> QED
      BY <3>2, <3>3, FunctionIsSeq
  <2>8. FrameOK(NewFrame("notify", oid, 0, 0, 0, Callers(omap, oid), 0), inq)
    BY <2>5, <2>7 DEF FrameOK, NewFrame, Frame, Oid, OnObject, OnMessage
  <2>9. StackOK(stack', inq)
    BY <2>2, <2>6, <2>8, ReplaceOK
  <2> QED
    BY <1>1, <2>4, <2>9 DEF DestroyReturns
<1>2. CASE NotifyCaller
  <2>1. Running({"notify"})
    BY <1>2 DEF NotifyCaller
  <2>2. /\ Len(stack) \in DOMAIN stack /\ stack \in Seq(Frame)
        /\ top \in Frame /\ FrameOK(top, inq) /\ top.fn \in {"notify"}
        /\ top.oid \in Nat /\ top.list \in Seq(Nat)
    BY <2>1, TopOK
  <2>3. PICK k \in DOMAIN top.list :
          LET caller == top.list[k]
              rest == [stack EXCEPT ![Len(stack)].list[k] = 0]
          IN  \/ stack' = rest /\ loop' = loop
              \/ \E p \in DOMAIN omap :
                  /\ omap[p].o # Null /\ loop' = loop
                  /\ stack' = Append(rest, NewFrame("destroyed", caller, omap[p].o, top.oid,
                                                    0, <<>>, MaxCalls))
              \/ stack' = stack /\ loop' = "crashed"
    BY <1>2 DEF NotifyCaller
  <2> DEFINE caller == top.list[k]
             rest == [stack EXCEPT ![Len(stack)].list[k] = 0]
             f == [top EXCEPT !.list = [top.list EXCEPT ![k] = 0]]
  <2>4. StackOK(rest, inq)
    <3>1. [top.list EXCEPT ![k] = 0] \in Seq(Nat)
      BY <2>2, ReplaceElement
    <3>2. f \in Frame /\ f.fn = "notify"
      BY <2>2, <3>1 DEF Frame, Oid
    <3>3. FrameOK(f, inq)
      BY <3>2 DEF FrameOK, OnObject, OnMessage
    <3>4. rest = [stack EXCEPT ![Len(stack)] = f]
      BY <2>2 DEF top
    <3> HIDE DEF f
    <3>5. StackOK([stack EXCEPT ![Len(stack)] = f], inq)
      BY <2>2, <3>3, ReplaceOK
    <3> QED
      BY <3>4, <3>5
  <2>5. caller \in Nat
    BY <2>2
  <2> HIDE DEF rest, caller
  <2>6. ASSUME NEW p \in DOMAIN omap, omap[p].o # Null
        PROVE  StackOK(Append(rest, NewFrame("destroyed", caller, omap[p].o, top.oid,
                                             0, <<>>, MaxCalls)), inq)
    <3>1. omap[p] \in MsgLink
      BY DEF MapOK
    <3>2. omap[p].o \in Nat /\ MaxCalls \in Nat /\ <<>> \in Seq(Nat)
      BY <3>1, CasycomAssumption DEF MsgLink
    <3>3. FrameOK(NewFrame("destroyed", caller, omap[p].o, top.oid, 0, <<>>, MaxCalls), inq)
      BY <2>2, <2>5, <2>6, <3>2 DEF FrameOK, NewFrame, Frame, Oid, OnMessage
    <3> QED
      BY <2>4, <3>3, PushOK
  <2>7. StackOK(stack', inq) /\ (loop' = loop \/ loop' = "crashed")
    BY <2>3, <2>4, <2>6 DEF rest, caller
  <2> QED
    BY <1>2, <2>7 DEF NotifyCaller
<1>3. CASE AllNotified
  <2>1. Running({"notify"})
        /\ stack' = [stack EXCEPT ![Len(stack)].fn = "erase", ![Len(stack)].list = <<>>]
    BY <1>3 DEF AllNotified
  <2>2. Len(stack) \in DOMAIN stack /\ stack \in Seq(Frame) /\ top \in Frame
    BY <2>1, TopOK
  <2> DEFINE f == [top EXCEPT !.fn = "erase", !.list = <<>>]
  <2>3. f \in Frame /\ f.fn = "erase"
    <3>1. <<>> \in Seq(Oid)
      OBVIOUS
    <3> QED
      BY <2>2, <3>1 DEF Frame
  <2>4. FrameOK(f, inq)
    BY <2>3 DEF FrameOK, OnObject, OnMessage
  <2>5. stack' = [stack EXCEPT ![Len(stack)] = f]
    BY <2>1, <2>2 DEF top
  <2> HIDE DEF f
  <2>6. StackOK(stack', inq)
    BY <2>2, <2>4, <2>5, ReplaceOK
  <2> QED
    BY <1>3, <2>6 DEF AllNotified
<1>4. CASE DestroyedReturns
  BY <1>4, PopOK DEF DestroyedReturns, Running
<1>5. CASE EraseLink
  <2>1. PICK p \in DOMAIN omap : casycom_destroy_link_at(p, stack)
    BY <1>5 DEF EraseLink
  <2>2. MapOK(omap') /\ inq' \in Seq(Msg) /\ outq' \in Seq(Msg) /\ StackOK(stack', inq')
    BY <2>1, DestroyLinkOK
  <2> QED
    BY <1>5, <2>2 DEF EraseLink
<1>6. CASE AllErased
  BY <1>6, PopOK DEF AllErased, Running
<1> QED
  BY <1>1, <1>2, <1>3, <1>4, <1>5, <1>6 DEF DestroyStep

\* So does the rest of the event loop.
LEMMA LoopStepOK ==
    ASSUME IInv, LoopStep
    PROVE  IInv'
<1> USE DEF IInv
<1>1. CASE casycom_send_signal_message
  <2>1. [src |-> oid_Broadcast, dest |-> oid_App, iface |-> AppIface, stale |-> FALSE] \in Msg
    BY CasycomAssumption DEF Msg, Oid, oid_Broadcast, oid_App
  <2>2. outq' \in Seq(Msg)
    BY <1>1, <2>1, AppendProperties DEF casycom_send_signal_message
  <2> QED
    BY <1>1, <2>2 DEF casycom_send_signal_message
<1>2. CASE casycom_destroy_unused_objects
  <2>1. PICK p \in DOMAIN omap :
          stack' = IF omap[p].o = Null THEN stack ELSE <<DestroyFrame(omap[p], p)>>
    BY <1>2 DEF casycom_destroy_unused_objects
  <2>2. omap \in Seq(MsgLink) /\ p \in Nat
    BY DEF MapOK
  <2>3. StackOK(stack', inq)
    BY <2>1, <2>2, DestroyFrameOK, SingleFrameOK
  <2> QED
    BY <1>2, <2>3 DEF casycom_destroy_unused_objects
<1>3. CASE casycom_idle
  <2>1. quitting' \in BOOLEAN
    BY <1>3 DEF casycom_idle
  <2>2. loop' \in {"reset", "queues"}
    BY <1>3 DEF casycom_idle
  <2> QED
    BY <1>3, <2>1, <2>2 DEF casycom_idle
<1>4. CASE ResetLink
  <2>1. omap \in Seq(MsgLink) /\ omap # <<>> /\ casycom_destroy_link_at(Len(omap), stack)
    BY <1>4 DEF ResetLink, MapOK
  <2>2. Len(omap) \in DOMAIN omap
    BY <2>1
  <2>3. MapOK(omap') /\ inq' \in Seq(Msg) /\ outq' \in Seq(Msg) /\ StackOK(stack', inq')
    BY <2>1, <2>2, DestroyLinkOK
  <2> QED
    BY <1>4, <2>3 DEF ResetLink
<1>5. CASE ResetQueues
  <2>1. inq' = <<>> /\ outq' = <<>> /\ stack' = <<>> /\ loop' = "done" /\ error' = "none"
        /\ omap' = omap /\ heap' = heap /\ quitting' = quitting
    BY <1>5 DEF ResetQueues
  <2>2. StackOK(stack', inq') /\ inq' \in Seq(Msg) /\ outq' \in Seq(Msg)
    BY <2>1, EmptyStackOK
  <2> QED
    BY <2>1, <2>2
<1> QED
  BY <1>1, <1>2, <1>3, <1>4, <1>5 DEF LoopStep

\* The invariant holds after casycom_framework_init.
LEMMA InitOK == Init => IInv
<1> SUFFICES ASSUME Init PROVE IInv
  OBVIOUS
<1> DEFINE l == NewLink(oid_Broadcast, oid_App, AppIface)
<1>1. l \in MsgLink /\ l.o = Null /\ ~l.unused
  BY CasycomAssumption DEF NewLink, MsgLink, Oid, Null, oid_Broadcast, oid_App
<1>2. omap = <<l>>
  BY DEF Init
<1> HIDE DEF l
<1>3. MapOK(omap)
  <2>1. omap \in Seq(MsgLink) /\ DOMAIN omap = {1} /\ omap[1] = l
    BY <1>1, <1>2
  <2>2. \A p \in DOMAIN omap : omap[p].o = Null /\ ~omap[p].unused
    BY <1>1, <2>1
  <2>3. IsSorted(omap)
    BY <2>1 DEF IsSorted
  <2> QED
    BY <2>1, <2>2, <2>3 DEF MapOK, FirstHolds
<1>4. [src |-> oid_Broadcast, dest |-> oid_App, iface |-> AppIface, stale |-> FALSE] \in Msg
  BY CasycomAssumption DEF Msg, Oid, oid_Broadcast, oid_App
<1>5. inq \in Seq(Msg) /\ outq \in Seq(Msg) /\ heap \subseteq Nat \ {Null}
  BY <1>4 DEF Init
<1>6. StackOK(stack, inq)
  BY EmptyStackOK DEF Init
<1>7. loop = "queues" /\ error \in {"none", "delivery", "idle"} /\ quitting \in BOOLEAN
  BY DEF Init
<1> QED
  BY <1>3, <1>5, <1>6, <1>7 DEF IInv

\* Every step preserves it.
LEMMA StepOK == IInv /\ [Next]_vars => IInv'
<1> SUFFICES ASSUME IInv, [Next]_vars PROVE IInv'
  OBVIOUS
<1>1. CASE Step
  BY <1>1, LibraryCallOK, MessageStepOK, ErrorStepOK, DestroyStepOK, LoopStepOK DEF Step
<1>2. CASE UNCHANGED vars
  <2>1. /\ omap' = omap /\ inq' = inq /\ outq' = outq /\ heap' = heap /\ stack' = stack
        /\ loop' = loop /\ error' = error /\ quitting' = quitting
    BY <1>2 DEF vars
  <2> QED
    BY <2>1 DEF IInv
<1> QED
  BY <1>1, <1>2 DEF Next, Ended

-----------------------------------------------------------------------------
(* The theorems *)

\* The strengthened invariant holds throughout.
THEOREM Invariance == Spec => []IInv
  BY InitOK, StepOK, PTL DEF Spec

\* The state of the library has its type, whatever the objects call.
THEOREM TypeCorrect == Spec => []TypeOK
<1>1. IInv => TypeOK
  BY DEF IInv, TypeOK, MapOK, StackOK
<1> QED
  BY <1>1, Invariance, PTL

\* The link map stays sorted, every object is on the first of the links to it,
\* so that casycom_find_destination finds it, and a link marked unused holds an
\* object, so that casycom_destroy_unused_objects ends.
THEOREM MapCorrect == Spec => []MapWellFormed
<1>1. IInv => MapWellFormed
  BY DEF IInv, MapOK, FirstHolds, MapWellFormed
<1> QED
  BY <1>1, Invariance, PTL

\* The binary search and the search for a number gap find, in every map that
\* there can be, the places that the actions take them to find.
THEOREM SearchesCorrect == Spec => []SearchesAgree
<1>1. ASSUME IInv PROVE SearchesAgree
  <2>1. omap \in Seq(MsgLink) /\ IsSorted(omap)
    BY <1>1 DEF IInv, MapOK, FirstHolds
  <2>2. IsFirstGap(omap, first_gap(omap))
    BY <2>1, GapFound
  <2>3. ASSUME NEW d \in 0 .. MaxOid + 1
        PROVE  IsLowerBound(omap, d, casycom_omap_lower_bound(omap, d))
    <3>1. d \in Nat
      OBVIOUS
    <3> QED
      BY <2>1, <3>1, LowerBoundFound
  <2> QED
    BY <2>2, <2>3 DEF SearchesAgree
<1> QED
  BY <1>1, Invariance, PTL

-----------------------------------------------------------------------------
(***************************************************************************)
(* The lifetime of objects.                                                *)
(*                                                                         *)
(* It is that of programs whose destructors do not call the library:       *)
(* ActiveDtor = {}.  A destructor that inserts a link, as that of COMRelay *)
(* does, makes casycom_destroy_unused_objects destroy an object twice      *)
(* (DestroyedOnce), and then HeapAccounted and LinksLive fail.  What is    *)
(* proved of errors holds for all destructors, those that set errors       *)
(* included.                                                               *)
(*                                                                         *)
(* LifeInv has a part for each question: what the heap is made of, what an *)
(* interrupted function still works on, why a link has a source, and that  *)
(* creators are acyclic.  Every step of Casycom is one of eleven moves of  *)
(* the map, the heap and the stack, and each part is shown to survive each *)
(* move.  LoopInv, which needs no assumption, says what the stack and the  *)
(* error can be in each phase of the loop.                                 *)
(***************************************************************************)

(* The inductive invariant *)

\* What matters of a link, wherever it is in the map.
Bare(l) == [src |-> l.src, dest |-> l.dest, o |-> l.o]
Links(m) == {Bare(m[p]) : p \in DOMAIN m}

\* There is an object with the number d.
Held(L, d) == \E l \in L : l.dest = d /\ l.o # Null

Destroying == {"destroy", "notify", "erase"}

\* Which functions can be in progress together: at most one message handler,
\* constructor or error at the bottom, and above it the objects being destroyed,
\* each by the one below.  Only the last of them runs code of the program.
Shape(s) ==
    \A k \in 1 .. Len(s) :
        /\ s[k].fn \in {"create", "dispatch", "forward"} => k = 1
        /\ s[k].fn \in {"create", "destroy", "destroyed", "failed"} => k = Len(s)
        /\ s[k].fn = "failed" => k = 2 /\ s[1].fn = "forward"
        /\ s[k].fn = "destroyed" => k > 1 /\ s[k - 1].fn = "notify" /\ s[k].peer = s[k - 1].oid
        /\ s[k].fn = "forward" /\ k < Len(s) => s[k + 1].fn = "failed"
        /\ s[k].fn = "notify" /\ k < Len(s) => s[k + 1].fn = "destroyed"
        /\ s[k].fn = "destroy" => s[k].calls = 0 /\ (s[k].at # 0 => k = 1)
        /\ s[k].fn # "destroy" => s[k].at = 0

\* The objects that a constructor or a destructor in progress has, and no link.
Making(s) ==
    {s[k].obj : k \in {j \in 1 .. Len(s) : s[j].fn \in {"create", "destroy"} /\ s[j].at = 0}}
HeldObjects(L) == {l.o : l \in L} \ {Null}

\* Memory is what links and frames hold, each object once.
Accounted(L, s, h) ==
    /\ h = HeldObjects(L) \cup Making(s)
    /\ HeldObjects(L) \cap Making(s) = {}
    /\ \A l, k \in L : l.o = k.o /\ l.o # Null => l.dest = k.dest

\* The link that casycom_destroy_object works on still holds its object.
InPlace ==
    \A k \in 1 .. Len(stack) :
        stack[k].fn = "destroy" /\ stack[k].at # 0 =>
            /\ stack[k].at \in DOMAIN omap
            /\ omap[stack[k].at].o = stack[k].obj /\ omap[stack[k].at].dest = stack[k].oid

\* The source of a link is the broadcast number, an object, or one in the making.
Sourced(L, s) ==
    \A l \in L :
        /\ l.dest # oid_Broadcast
        /\ \/ l.src = oid_Broadcast \/ Held(L, l.src)
           \/ \E k \in 1 .. Len(s) : s[k].fn \in {"create"} \cup Destroying /\ s[k].oid = l.src

\* What is being destroyed is not in the map any more; a method's object is; and
\* an object under construction is not yet, so that it holds no object itself.
Framed(L, s) ==
    \A k \in 1 .. Len(s) :
        /\ s[k].fn \in Destroying /\ s[k].at = 0 => ~Held(L, s[k].oid)
        /\ s[k].fn \in {"dispatch", "destroyed", "failed"} =>
              \E l \in L : l.dest = s[k].oid /\ l.o = s[k].obj
        /\ s[k].fn = "create" =>
              /\ \E l \in L : l.dest = s[k].oid
              /\ \A l \in L : /\ l.dest = s[k].oid => l.o = Null
                              /\ l.src = s[k].oid => l.o = Null /\ l.dest # s[k].oid

\* Who made whom: the links that hold objects, and those that have been erased
\* to destroy the object of the next function in progress.
Creators(L, s) ==
    {<<l.src, l.dest>> : l \in {k \in L : k.o # Null}} \cup
    {<<s[k].oid, s[k + 1].oid>> : k \in {j \in 1 .. Len(s) - 1 : s[j + 1].fn \in Destroying}}

\* No object is among the creators of its creator.
Acyclic(E) == \A S \in SUBSET E : S = {} \/ \E e \in S : \A f \in S : e[1] # f[2]

LifeInv ==
    /\ IInv
    /\ Shape(stack) /\ InPlace
    /\ Accounted(Links(omap), stack, heap)
    /\ Sourced(Links(omap), stack) /\ Framed(Links(omap), stack)
    /\ Acyclic(Creators(Links(omap), stack))

\* Where the loop is, what runs for it, and where an error of a delivery is.
LoopInv ==
    /\ stack # <<>> =>
        /\ loop \in {"queues", "sweep", "reset", "crashed"}
        /\ loop = "queues" => stack[1].fn \in {"create", "dispatch", "forward"}
        /\ loop \in {"sweep", "reset"} => stack[1].fn \in Destroying
        /\ stack[1].fn \in {"create", "dispatch"} => inq # <<>> /\ stack[1].oid = Head(inq).dest
    /\ \A k \in 1 .. Len(stack) : stack[k].fn \in {"create", "dispatch", "forward"} => k = 1
    /\ \A k \in 1 .. Len(stack) : stack[k].fn = "failed" => k = 2 /\ stack[1].fn = "forward"
    /\ loop \in {"reset", "done"} => quitting
    /\ loop = "done" => omap = <<>>
    /\ error = "delivery" /\ ~quitting =>
        /\ loop \in {"queues", "crashed"}
        /\ loop = "queues" /\ stack = <<>> => inq # <<>> /\ Held(Links(omap), Head(inq).dest)

-----------------------------------------------------------------------------
(* The links, when the map changes *)

LEMMA LinksFacts ==
    ASSUME NEW m \in Seq(MsgLink)
    PROVE  /\ Links(m) \subseteq [src : Nat, dest : Nat, o : Nat]
           /\ \A p \in DOMAIN m : Bare(m[p]) \in Links(m)
           /\ \A l \in Links(m) : \E p \in DOMAIN m : l = Bare(m[p])
           /\ \A p \in DOMAIN m : /\ Bare(m[p]).src = m[p].src
                                  /\ Bare(m[p]).dest = m[p].dest /\ Bare(m[p]).o = m[p].o
<1>1. \A p \in DOMAIN m : m[p] \in MsgLink
  OBVIOUS
<1> QED
  BY <1>1 DEF Links, Bare, MsgLink, Oid

\* An object is on one link.
LEMMA OneHolder ==
    ASSUME NEW m \in Seq(MsgLink), FirstHolds(m), NEW p \in DOMAIN m, NEW q \in DOMAIN m,
           m[p].dest = m[q].dest, m[p].o # Null, m[q].o # Null
    PROVE  p = q
<1>1. /\ p \in 1 .. Len(m) /\ q \in 1 .. Len(m) /\ Len(m) \in Nat
      /\ m[p].dest \in Nat /\ m[q].dest \in Nat
  BY LinkFields
<1>2. IsLowerBound(m, m[p].dest, p) /\ IsLowerBound(m, m[p].dest, q)
  BY DEF FirstHolds, IsDestination
<1>3. ~(p < q) /\ ~(q < p)
  BY <1>1, <1>2 DEF IsLowerBound
<1> QED
  BY <1>1, <1>3

LEMMA EmplaceLinks ==
    ASSUME NEW m \in Seq(MsgLink), NEW p \in 1 .. Len(m) + 1, NEW l \in MsgLink
    PROVE  Links(vector_emplace(m, p, l)) = Links(m) \cup {Bare(l)}
<1> DEFINE r == vector_emplace(m, p, l)
<1>1. /\ r \in Seq(MsgLink) /\ Len(r) = Len(m) + 1
      /\ \A i \in 1 .. Len(m) + 1 : r[i] = IF i < p THEN m[i] ELSE IF i = p THEN l ELSE m[i - 1]
  BY EmplaceType
<1>2. Len(m) \in Nat /\ DOMAIN m = 1 .. Len(m) /\ DOMAIN r = 1 .. Len(m) + 1
  BY <1>1
<1> HIDE DEF r
<1>3. ASSUME NEW i \in 1 .. Len(m) + 1 PROVE r[i] = l \/ \E j \in 1 .. Len(m) : r[i] = m[j]
  <2>1. CASE i < p
    <3>1. i \in 1 .. Len(m) /\ r[i] = m[i]
      BY <1>1, <1>2, <2>1
    <3> QED
      BY <3>1
  <2>2. CASE i > p
    <3>1. i - 1 \in 1 .. Len(m) /\ r[i] = m[i - 1]
      BY <1>1, <1>2, <2>2
    <3> QED
      BY <3>1
  <2>3. CASE i = p
    BY <1>1, <2>3
  <2> QED
    BY <1>2, <2>1, <2>2, <2>3
<1>4. ASSUME NEW j \in 1 .. Len(m) PROVE \E i \in 1 .. Len(m) + 1 : r[i] = m[j]
  <2>1. CASE j < p
    BY <1>1, <1>2, <2>1
  <2>2. CASE j >= p
    <3>1. j + 1 \in 1 .. Len(m) + 1 /\ r[j + 1] = m[j]
      BY <1>1, <1>2, <2>2
    <3> QED
      BY <3>1
  <2> QED
    BY <1>2, <2>1, <2>2
<1>5. p \in 1 .. Len(m) + 1 /\ r[p] = l
  BY <1>1, <1>2
<1>6. Links(r) = Links(m) \cup {Bare(l)}
  BY <1>2, <1>3, <1>4, <1>5 DEF Links
<1> QED
  BY <1>6 DEF r

LEMMA EraseLinks ==
    ASSUME NEW m \in Seq(MsgLink), NEW p \in DOMAIN m, FirstHolds(m)
    PROVE  /\ Links(m) = Links(vector_erase(m, p)) \cup {Bare(m[p])}
           /\ m[p].o # Null => ~Held(Links(vector_erase(m, p)), m[p].dest)
<1> DEFINE r == vector_erase(m, p)
<1>1. /\ r \in Seq(MsgLink) /\ Len(r) = Len(m) - 1
      /\ \A i \in 1 .. Len(m) - 1 : r[i] = IF i < p THEN m[i] ELSE m[i + 1]
  BY EraseType
<1>2. /\ Len(m) \in Nat /\ DOMAIN m = 1 .. Len(m) /\ DOMAIN r = 1 .. Len(m) - 1
      /\ p \in 1 .. Len(m)
  BY <1>1
<1> HIDE DEF r
<1>3. ASSUME NEW i \in 1 .. Len(m) - 1 PROVE \E j \in 1 .. Len(m) : j # p /\ r[i] = m[j]
  <2>1. CASE i < p
    <3>1. i \in 1 .. Len(m) /\ r[i] = m[i]
      BY <1>1, <1>2, <2>1
    <3> QED
      BY <2>1, <3>1
  <2>2. CASE i >= p
    <3>1. i + 1 \in 1 .. Len(m) /\ r[i] = m[i + 1] /\ i + 1 # p
      BY <1>1, <1>2, <2>2
    <3> QED
      BY <3>1
  <2> QED
    BY <1>2, <2>1, <2>2
<1>4. ASSUME NEW j \in 1 .. Len(m), j # p PROVE \E i \in 1 .. Len(m) - 1 : r[i] = m[j]
  <2>1. CASE j < p
    <3>1. j \in 1 .. Len(m) - 1 /\ r[j] = m[j]
      BY <1>1, <1>2, <2>1
    <3> QED
      BY <3>1
  <2>2. CASE j > p
    <3>1. j - 1 \in 1 .. Len(m) - 1 /\ r[j - 1] = m[j]
      BY <1>1, <1>2, <2>2
    <3> QED
      BY <3>1
  <2> QED
    BY <1>2, <1>4, <2>1, <2>2
<1>5. Links(m) = Links(r) \cup {Bare(m[p])}
  BY <1>2, <1>3, <1>4 DEF Links
<1>6. ASSUME m[p].o # Null, NEW l \in Links(r), l.dest = m[p].dest PROVE l.o = Null
  <2>1. PICK i \in DOMAIN r : l = Bare(r[i]) /\ l.dest = r[i].dest /\ l.o = r[i].o
    BY <1>1, LinksFacts
  <2>2. PICK j \in 1 .. Len(m) : j # p /\ r[i] = m[j]
    BY <1>2, <1>3, <2>1
  <2> QED
    BY <1>2, <1>6, <2>1, <2>2, OneHolder
<1> QED
  BY <1>5, <1>6 DEF Held, r

\* A link gets its object, as casycom_create_link_object does.
LEMMA SetLinks ==
    ASSUME NEW m \in Seq(MsgLink), NEW p \in DOMAIN m, NEW x \in Nat, m[p].o = Null
    PROVE  LET r == [m EXCEPT ![p].o = x]
               l == [src |-> m[p].src, dest |-> m[p].dest, o |-> x]
           IN  /\ Links(r) \subseteq Links(m) \cup {l} /\ l \in Links(r)
               /\ \A k \in Links(m) : k.o # Null => k \in Links(r)
<1> DEFINE r == [m EXCEPT ![p].o = x]
           l == [src |-> m[p].src, dest |-> m[p].dest, o |-> x]
<1>1. m[p] \in MsgLink /\ DOMAIN r = DOMAIN m
  OBVIOUS
<1>2. /\ Bare(r[p]) = l
      /\ \A j \in DOMAIN m : j # p => r[j] = m[j]
  BY <1>1 DEF Bare, MsgLink
<1> HIDE DEF r, l
<1>3. \A k \in Links(m) : k.o # Null => \E j \in DOMAIN m : j # p /\ k = Bare(m[j])
  BY LinksFacts
<1>4. /\ Links(r) \subseteq Links(m) \cup {l} /\ l \in Links(r)
      /\ \A k \in Links(m) : k.o # Null => k \in Links(r)
  BY <1>1, <1>2, <1>3 DEF Links
<1> QED
  BY <1>4 DEF r, l

\* A link loses its object, as in casycom_destroy_object.
LEMMA ClearLinks ==
    ASSUME NEW m \in Seq(MsgLink), NEW p \in DOMAIN m, FirstHolds(m), m[p].o # Null
    PROVE  LET r == [m EXCEPT ![p].o = Null, ![p].unused = FALSE]
               l == [src |-> m[p].src, dest |-> m[p].dest, o |-> Null]
           IN  Links(r) = (Links(m) \ {Bare(m[p])}) \cup {l}
<1> DEFINE r == [m EXCEPT ![p].o = Null, ![p].unused = FALSE]
           l == [src |-> m[p].src, dest |-> m[p].dest, o |-> Null]
<1>1. m[p] \in MsgLink /\ DOMAIN r = DOMAIN m
  OBVIOUS
<1>2. /\ Bare(r[p]) = l
      /\ \A j \in DOMAIN m : j # p => r[j] = m[j]
  BY <1>1 DEF Bare, MsgLink
<1> HIDE DEF r, l
<1>3. \A j \in DOMAIN m : j # p => Bare(m[j]) # Bare(m[p])
  <2>1. ASSUME NEW j \in DOMAIN m, j # p, Bare(m[j]) = Bare(m[p]) PROVE FALSE
    <3>1. m[j].dest = m[p].dest /\ m[j].o = m[p].o
      BY <2>1 DEF Bare
    <3> QED
      BY <2>1, <3>1, OneHolder
  <2> QED
    BY <2>1
<1>4. Links(r) = (Links(m) \ {Bare(m[p])}) \cup {l}
  <2>1. Links(r) \subseteq (Links(m) \ {Bare(m[p])}) \cup {l}
    <3>1. ASSUME NEW j \in DOMAIN m
          PROVE  Bare(r[j]) \in (Links(m) \ {Bare(m[p])}) \cup {l}
      BY <1>2, <1>3, LinksFacts
    <3> QED
      BY <1>1, <3>1 DEF Links
  <2>2. ASSUME NEW j \in DOMAIN m, Bare(m[j]) # Bare(m[p]) PROVE Bare(m[j]) \in Links(r)
    <3>1. r[j] = m[j] /\ j \in DOMAIN r
      BY <1>1, <1>2, <2>2
    <3> QED
      BY <3>1 DEF Links
  <2>3. l \in Links(r)
    BY <1>1, <1>2 DEF Links
  <2> QED
    BY <2>1, <2>2, <2>3 DEF Links
<1> QED
  BY <1>4 DEF r, l

\* A mark changes no link, as far as it matters here.
LEMMA MarkLinks ==
    ASSUME NEW m \in Seq(MsgLink), NEW obj
    PROVE  Links([p \in DOMAIN m |-> [m[p] EXCEPT !.unused = @ \/ m[p].o = obj]]) = Links(m)
<1> DEFINE r == [p \in DOMAIN m |-> [m[p] EXCEPT !.unused = m[p].unused \/ m[p].o = obj]]
<1>1. \A p \in DOMAIN m : Bare(r[p]) = Bare(m[p])
  <2>1. \A p \in DOMAIN m : m[p] \in MsgLink
    OBVIOUS
  <2> QED
    BY <2>1 DEF Bare, MsgLink
<1>2. DOMAIN r = DOMAIN m
  OBVIOUS
<1> HIDE DEF r
<1>3. Links(r) = Links(m)
  BY <1>1, <1>2 DEF Links
<1> QED
  BY <1>3 DEF r

-----------------------------------------------------------------------------
(* The stack, when it changes *)

\* A frame of which nothing changes but the calls left and the list.
Alike(f, g) ==
    /\ g.fn = f.fn /\ g.obj = f.obj /\ g.at = f.at
    /\ f.fn # "forward" => g.oid = f.oid /\ g.peer = f.peer
    /\ f.fn = "destroy" => g.calls = f.calls

Below(n) == \A k \in 1 .. n : Alike(stack[k], stack'[k])
Touched == Len(stack') = Len(stack) /\ Below(Len(stack))

LEMMA TopFacts ==
    ASSUME IInv, NEW fns, Running(fns)
    PROVE  /\ Len(stack) \in Nat /\ Len(stack) > 0 /\ DOMAIN stack = 1 .. Len(stack)
           /\ stack \in Seq(Frame) /\ stack # <<>> /\ top = stack[Len(stack)] /\ top.fn \in fns
           /\ top \in Frame
<1>1. stack \in Seq(Frame) /\ stack # <<>> /\ top.fn \in fns
  BY DEF IInv, StackOK, Running
<1> QED
  BY <1>1 DEF top

LEMMA CalledFacts ==
    ASSUME IInv, Shape(stack), NEW fns, MayCall(fns)
    PROVE  /\ top.fn # "destroy" /\ top.at = 0
           /\ Called \in Seq(Frame) /\ Len(Called) = Len(stack)
           /\ \A k \in 1 .. Len(stack) : Alike(stack[k], Called[k])
<1>1. Running(fns) /\ top.calls > 0
  BY DEF MayCall
<1>2. /\ Len(stack) \in Nat /\ Len(stack) > 0 /\ DOMAIN stack = 1 .. Len(stack)
      /\ stack \in Seq(Frame) /\ top = stack[Len(stack)] /\ top \in Frame
  BY <1>1, TopFacts
<1>3. Len(stack) \in 1 .. Len(stack)
  BY <1>2
<1>4. top.fn # "destroy" /\ top.at = 0
  <2>1. /\ stack[Len(stack)].fn = "destroy" => stack[Len(stack)].calls = 0
        /\ stack[Len(stack)].fn # "destroy" => stack[Len(stack)].at = 0
    BY <1>3 DEF Shape
  <2> QED
    BY <1>1, <1>2, <2>1
<1>5. StackOK(Called, inq)
  BY CalledOK DEF IInv
<1>6. Called = [stack EXCEPT ![Len(stack)] = [top EXCEPT !.calls = top.calls - 1]]
  BY <1>2 DEF Called
<1> DEFINE f == [top EXCEPT !.calls = top.calls - 1]
<1>7. /\ f.fn = top.fn /\ f.obj = top.obj /\ f.at = top.at /\ f.oid = top.oid /\ f.peer = top.peer
  BY <1>2 DEF Frame
<1> HIDE DEF f
<1>8. Called[Len(stack)] = f /\ \A k \in 1 .. Len(stack) : k # Len(stack) => Called[k] = stack[k]
  BY <1>2, <1>3, <1>6 DEF f
<1>9. Len(Called) = Len(stack)
  BY <1>2, <1>6
<1> QED
  BY <1>2, <1>4, <1>5, <1>7, <1>8, <1>9 DEF Alike, StackOK

LEMMA PopFacts ==
    ASSUME NEW s \in Seq(Frame), s # <<>>
    PROVE  /\ Pop(s) \in Seq(Frame) /\ Len(Pop(s)) = Len(s) - 1
           /\ \A k \in 1 .. Len(s) - 1 : Pop(s)[k] = s[k]
<1>1. Len(s) \in Nat /\ Len(s) > 0 /\ \A k \in 1 .. Len(s) : s[k] \in Frame
  OBVIOUS
<1>2. Pop(s) \in [1 .. Len(s) - 1 -> Frame] /\ Len(s) - 1 \in Nat
  BY <1>1 DEF Pop
<1>3. \A k \in 1 .. Len(s) - 1 : Pop(s)[k] = s[k]
  BY DEF Pop
<1> QED
  BY <1>2, <1>3, FunctionIsSeq

LEMMA PushFacts ==
    ASSUME NEW s \in Seq(Frame), NEW f \in Frame
    PROVE  /\ Append(s, f) \in Seq(Frame) /\ Len(Append(s, f)) = Len(s) + 1
           /\ \A k \in 1 .. Len(s) : Append(s, f)[k] = s[k]
           /\ Append(s, f)[Len(s) + 1] = f
  BY AppendProperties

LEMMA FrameFields ==
    ASSUME NEW fn, NEW oid, NEW obj, NEW peer, NEW at, NEW list, NEW calls
    PROVE  LET f == NewFrame(fn, oid, obj, peer, at, list, calls)
           IN  /\ f.fn = fn /\ f.oid = oid /\ f.obj = obj /\ f.peer = peer
               /\ f.at = at /\ f.list = list /\ f.calls = calls
  BY DEF NewFrame

-----------------------------------------------------------------------------
(* The steps, by what they change *)

\* Methods run, messages come and go.
Stays ==
    /\ Links(omap') = Links(omap) /\ heap' = heap /\ Touched
    /\ omap' = omap \/ \A k \in 1 .. Len(stack) : stack[k].fn # "destroy"

\* The running object makes a proxy to another.
Linked ==
    /\ stack # <<>> /\ top.fn \in {"create", "dispatch"} /\ heap' = heap /\ Touched
    /\ \E d \in Nat \ {top.oid, 0} :
        Links(omap') = Links(omap) \cup {[src |-> top.oid, dest |-> d, o |-> Null]}

\* A constructor starts,
Begins ==
    /\ stack = <<>> /\ omap' = omap
    /\ Len(stack') = 1 /\ stack'[1].fn = "create" /\ stack'[1].at = 0
    /\ stack'[1].obj \notin heap /\ stack'[1].obj # Null /\ heap' = heap \cup {stack'[1].obj}
    /\ stack'[1].oid # oid_Broadcast
    /\ (\E l \in Links(omap) : l.dest = stack'[1].oid) /\ ~Held(Links(omap), stack'[1].oid)

\* and has made its object.
Made ==
    /\ Len(stack) = 1 /\ stack[1].fn = "create" /\ stack[1].obj # Null /\ stack' = <<>>
    /\ heap' = heap
    /\ \E l \in Links(omap) :
        /\ l.dest = stack[1].oid /\ l.o = Null
        /\ LET k == [src |-> l.src, dest |-> l.dest, o |-> stack[1].obj]
           IN  Links(omap') \subseteq Links(omap) \cup {k} /\ k \in Links(omap')
        /\ \A k \in Links(omap) : k.o # Null => k \in Links(omap')

\* A method starts for a message, to be told of the destruction of another
\* object, or of an error.
Runs ==
    /\ omap' = omap /\ heap' = heap
    /\ Len(stack') = Len(stack) + 1 /\ Below(Len(stack))
    /\ LET f == stack'[Len(stack) + 1]
       IN  /\ f.at = 0 /\ f.obj # Null /\ \E l \in Links(omap) : l.dest = f.oid /\ l.o = f.obj
           /\ \/ f.fn = "dispatch" /\ stack = <<>>
              \/ f.fn = "destroyed" /\ stack # <<>> /\ top.fn = "notify" /\ f.peer = top.oid
              \/ f.fn = "failed" /\ stack # <<>> /\ top.fn = "forward"

\* A link is erased, by casycom_destroy_link_at.
Erases ==
    /\ heap' = heap
    /\ \E l \in Links(omap) :
        /\ Links(omap) = Links(omap') \cup {l}
        /\ \/ stack = <<>>
           \/ /\ stack # <<>> /\ top.fn \in {"create", "dispatch", "erase", "destroyed"}
              /\ l.src = top.oid /\ (top.fn = "destroyed" => l.dest = top.peer)
        /\ \/ l.o = Null /\ Touched
           \/ /\ l.o # Null /\ ~Held(Links(omap'), l.dest)
              /\ Len(stack') = Len(stack) + 1 /\ Below(Len(stack))
              /\ LET f == stack'[Len(stack) + 1]
                 IN  f.fn = "destroy" /\ f.oid = l.dest /\ f.obj = l.o /\ f.at = 0 /\ f.calls = 0

\* An unused object is destroyed,
Sweeps ==
    /\ stack = <<>> /\ omap' = omap /\ heap' = heap /\ Len(stack') = 1
    /\ LET f == stack'[1]
       IN  /\ f.fn = "destroy" /\ f.calls = 0 /\ f.at \in DOMAIN omap
           /\ f.obj = omap[f.at].o /\ f.obj # Null /\ f.oid = omap[f.at].dest

\* and its memory is freed.
Frees ==
    /\ stack # <<>> /\ top.fn = "destroy" /\ heap' = heap \ {top.obj} /\ top.obj # Null
    /\ Len(stack') = Len(stack) /\ Below(Len(stack) - 1)
    /\ LET f == stack'[Len(stack)] IN f.fn = "notify" /\ f.oid = top.oid /\ f.at = 0
    /\ \/ top.at = 0 /\ Links(omap') = Links(omap)
       \/ /\ top.at # 0
          /\ \E l \in Links(omap) :
                /\ l.dest = top.oid /\ l.o = top.obj
                /\ Links(omap') = (Links(omap) \ {l})
                                    \cup {[src |-> l.src, dest |-> l.dest, o |-> Null]}

\* Its callers have been notified.
Notified ==
    /\ stack # <<>> /\ top.fn = "notify" /\ omap' = omap /\ heap' = heap
    /\ Len(stack') = Len(stack) /\ Below(Len(stack) - 1)
    /\ LET f == stack'[Len(stack)] IN f.fn = "erase" /\ f.oid = top.oid /\ f.at = 0

\* A method returns, or the destruction of an object ends.
Returns ==
    /\ stack # <<>> /\ omap' = omap /\ heap' = heap
    /\ Len(stack') = Len(stack) - 1 /\ Below(Len(stack) - 1)
    /\ \/ top.fn \in {"destroyed", "failed"}
       \/ top.fn = "erase" /\ \A l \in Links(omap) : l.src # top.oid

\* The message has been handled, or its error is to be.
Handled ==
    /\ stack # <<>> /\ top.fn \in {"dispatch", "forward", "failed"}
    /\ omap' = omap /\ heap' = heap
    /\ \/ stack' = <<>>
       \/ Len(stack') = 1 /\ stack'[1].fn = "forward" /\ stack'[1].at = 0

\* The first link to an object tells whether it is there.
LEMMA FirstTells ==
    ASSUME NEW m \in Seq(MsgLink), FirstHolds(m), NEW d \in Nat, NEW p, IsDestination(m, d, p)
    PROVE  /\ p \in DOMAIN m /\ m[p].dest = d
           /\ Held(Links(m), d) <=> m[p].o # Null
<1>1. p \in DOMAIN m /\ m[p].dest = d
  BY DEF IsDestination
<1>2. Bare(m[p]) \in Links(m) /\ Bare(m[p]).dest = d /\ Bare(m[p]).o = m[p].o
  BY <1>1, LinksFacts
<1>3. ASSUME NEW l \in Links(m), l.dest = d, l.o # Null PROVE m[p].o # Null
  <2>1. PICK q \in DOMAIN m : l.dest = m[q].dest /\ l.o = m[q].o
    BY <1>3, LinksFacts
  <2>2. IsDestination(m, d, q)
    BY <1>3, <2>1 DEF FirstHolds
  <2>3. p \in 1 .. Len(m) /\ q \in 1 .. Len(m) /\ Len(m) \in Nat
    BY <1>1, LinkFields
  <2>4. ~(p < q) /\ ~(q < p)
    BY <1>1, <2>2, <2>3 DEF IsDestination, IsLowerBound
  <2>5. p = q
    BY <2>3, <2>4
  <2> QED
    BY <1>3, <2>1, <2>5
<1> QED
  BY <1>1, <1>2, <1>3 DEF Held

\* casycom_create_proxy_to adds a link that holds nothing.
LEMMA LinkAdded ==
    ASSUME IInv, NEW i \in Iface, NEW s \in Nat, NEW d \in Nat, casycom_create_proxy_to(i, s, d)
    PROVE  Links(omap') = Links(omap) \cup {[src |-> s, dest |-> d, o |-> Null]}
<1> DEFINE l == NewLink(s, d, i)
<1>1. PICK p \in 1 .. Len(omap) + 1 : omap' = vector_emplace(omap, p, l)
  BY DEF casycom_create_proxy_to
<1>2. l \in MsgLink /\ Bare(l) = [src |-> s, dest |-> d, o |-> Null]
  BY DEF NewLink, MsgLink, Oid, Null, Bare
<1>3. omap \in Seq(MsgLink)
  BY DEF IInv, MapOK
<1> HIDE DEF l
<1> QED
  BY <1>1, <1>2, <1>3, EmplaceLinks

\* casycom_destroy_link_at erases one, and calls the destructor of its object.
LEMMA LinkErased ==
    ASSUME ActiveDtor = {}, IInv, NEW p \in DOMAIN omap, NEW fs \in Seq(Frame),
           Len(fs) = Len(stack), \A k \in 1 .. Len(stack) : Alike(stack[k], fs[k]),
           casycom_destroy_link_at(p, fs)
    PROVE  LET l == Bare(omap[p])
           IN  /\ l \in Links(omap) /\ Links(omap) = Links(omap') \cup {l}
               /\ l.src = omap[p].src /\ l.dest = omap[p].dest
               /\ \/ l.o = Null /\ Touched
                  \/ /\ l.o # Null /\ ~Held(Links(omap'), l.dest)
                     /\ Len(stack') = Len(stack) + 1 /\ Below(Len(stack))
                     /\ LET f == stack'[Len(stack) + 1]
                        IN  f.fn = "destroy" /\ f.oid = l.dest /\ f.obj = l.o /\ f.at = 0
                            /\ f.calls = 0
<1>1. omap \in Seq(MsgLink) /\ FirstHolds(omap)
  BY DEF IInv, MapOK
<1>2. /\ omap' = vector_erase(omap, p)
      /\ stack' = IF omap[p].o = Null THEN fs ELSE Append(fs, DestroyFrame(omap[p], 0))
  BY DEF casycom_destroy_link_at
<1> DEFINE l == Bare(omap[p])
<1>3. l \in Links(omap) /\ l.src = omap[p].src /\ l.dest = omap[p].dest /\ l.o = omap[p].o
  BY <1>1, LinksFacts
<1>4. /\ Links(omap) = Links(omap') \cup {l}
      /\ l.o # Null => ~Held(Links(omap'), l.dest)
  BY <1>1, <1>2, <1>3, EraseLinks
<1> HIDE DEF l
<1>5. CASE l.o = Null
  BY <1>2, <1>3, <1>4, <1>5 DEF Touched, Below, l
<1>6. CASE l.o # Null
  <2> DEFINE f == DestroyFrame(omap[p], 0)
  <2>1. f.fn = "destroy" /\ f.oid = l.dest /\ f.obj = l.o /\ f.at = 0 /\ f.calls = 0
    BY <1>3 DEF DestroyFrame, NewFrame
  <2>2. FrameOK(f, inq)
    BY <1>1, <1>3, <1>6, DestroyFrameOK
  <2> HIDE DEF f
  <2>3. f \in Frame /\ stack' = Append(fs, f)
    BY <1>2, <1>3, <1>6, <2>2 DEF f, FrameOK
  <2>4. /\ Len(stack') = Len(stack) + 1 /\ stack'[Len(stack) + 1] = f
        /\ \A k \in 1 .. Len(stack) : stack'[k] = fs[k]
    BY <2>3, PushFacts
  <2> QED
    BY <1>3, <1>4, <1>6, <2>1, <2>4 DEF Below, l
<1> QED
  BY <1>5, <1>6

\* Nothing changes for a stack that stays.
LEMMA SameStack ==
    ASSUME stack' = stack
    PROVE  Touched
  BY DEF Touched, Below, Alike

\* The library calls.
LEMMA LibraryMoves ==
    ASSUME ActiveDtor = {}, LifeInv, LibraryCall
    PROVE  Stays \/ Linked \/ Erases
<1> USE DEF LifeInv
<1>0. /\ omap \in Seq(MsgLink) /\ stack \in Seq(Frame)
      /\ \A d \in Nat : (\E l \in Links(omap) : l.dest = d) => d \in Dests(omap)
  <2>1. omap \in Seq(MsgLink) /\ stack \in Seq(Frame)
    BY DEF IInv, MapOK, StackOK
  <2>2. ASSUME NEW l \in Links(omap) PROVE l.dest \in Dests(omap)
    <3>1. PICK p \in DOMAIN omap : l = Bare(omap[p])
      BY <2>1, LinksFacts
    <3>2. l.dest = omap[p].dest
      BY <2>1, <3>1, LinksFacts
    <3> QED
      BY <3>2 DEF Dests
  <2> QED
    BY <2>1, <2>2
<1>a. ASSUME NEW fns, MayCall(fns)
      PROVE  /\ stack # <<>> /\ top.fn \in fns /\ top.fn # "destroy" /\ top.at = 0
             /\ top.oid \in Nat /\ top.peer \in Nat
             /\ Len(stack) \in 1 .. Len(stack) /\ top = stack[Len(stack)]
             /\ Called \in Seq(Frame) /\ Len(Called) = Len(stack)
             /\ \A k \in 1 .. Len(stack) : Alike(stack[k], Called[k])
  <2>1. Running(fns)
    BY <1>a DEF MayCall
  <2>2. /\ Len(stack) \in Nat /\ Len(stack) > 0 /\ stack # <<>> /\ top = stack[Len(stack)]
        /\ top.fn \in fns /\ top \in Frame
    BY <2>1, TopFacts
  <2>3. top.oid \in Nat /\ top.peer \in Nat
    BY <2>2 DEF Frame, Oid
  <2> QED
    BY <1>a, <2>2, <2>3, CalledFacts
<1>b. ASSUME NEW fns, MayCall(fns), stack' = Called, Links(omap') = Links(omap), heap' = heap
      PROVE  Stays
  <2>1. Touched
    BY <1>a, <1>b DEF Touched, Below
  <2>2. \A k \in 1 .. Len(stack) : stack[k].fn # "destroy"
    BY <1>a, <1>b DEF Shape
  <2> QED
    BY <1>b, <2>1, <2>2 DEF Stays
<1>c. ASSUME NEW fns, MayCall(fns), CalledInserting
      PROVE  Touched
  <2>1. stack' = [stack EXCEPT ![Len(stack)].calls = @ - 1, ![Len(stack)].at = 0]
    BY <1>a, <1>c DEF CalledInserting
  <2>2. top \in Frame /\ Len(stack) \in DOMAIN stack /\ DOMAIN stack = 1 .. Len(stack)
    BY <1>0, <1>a, <1>c
  <2> DEFINE f == [top EXCEPT !.calls = top.calls - 1, !.at = 0]
  <2>3. Alike(top, f)
    BY <1>a, <1>c, <2>2 DEF Alike, Frame
  <2>4. stack' = [stack EXCEPT ![Len(stack)] = f]
    BY <1>a, <1>c, <2>1, <2>2
  <2> HIDE DEF f
  <2>5. Len(stack') = Len(stack) /\ stack'[Len(stack)] = f
        /\ \A k \in 1 .. Len(stack) : k # Len(stack) => stack'[k] = stack[k]
    BY <1>0, <2>2, <2>4
  <2> QED
    BY <1>a, <1>c, <2>3, <2>5 DEF Touched, Below, Alike
<1>d. ASSUME NEW fns, MayCall(fns)
      PROVE  Actors = {top.oid}
  <2>1. Partners = {}
    BY <1>a, <1>d DEF Partners
  <2> QED
    BY <1>a, <1>d, <2>1 DEF Actors
<1>1. CASE CreateProxy
  <2>1. MayCall({"create", "dispatch", "destroy"}) /\ CalledInserting /\ heap' = heap
    BY <1>1 DEF CreateProxy
  <2>2. top.fn \in {"create", "dispatch"} /\ top.fn # "destroy"
    BY <1>a, <2>1
  <2>3. PICK i \in Iface, d \in oid_First .. MaxOid :
          IsFirstGap(omap, d) /\ casycom_create_proxy_to(i, top.oid, d)
    BY <1>1, <1>d, <2>1 DEF CreateProxy
  <2>4. d \in Nat /\ d # 0
    BY CasycomAssumption DEF oid_First
  <2>5. Links(omap') = Links(omap) \cup {[src |-> top.oid, dest |-> d, o |-> Null]}
    BY <1>a, <2>1, <2>3, <2>4, LinkAdded
  <2>6. d # top.oid
    <3>1. \E l \in Links(omap) : l.dest = top.oid
      BY <1>a, <2>1, <2>2 DEF Framed
    <3>2. top.oid \in Dests(omap)
      BY <1>0, <1>a, <2>1, <3>1
    <3> QED
      BY <2>3, <3>2 DEF IsFirstGap
  <2> QED
    BY <1>a, <1>c, <2>1, <2>2, <2>4, <2>5, <2>6 DEF Linked
<1>2. CASE CreateProxyTo
  <2>1. MayCall({"create", "dispatch", "destroy"}) /\ CalledInserting /\ heap' = heap
    BY <1>2 DEF CreateProxyTo
  <2>2. PICK i \in Iface, d \in IF LinkAny THEN Dests(omap) \cup {top.peer} ELSE {top.peer} :
          d # oid_Broadcast /\ d # top.oid /\ casycom_create_proxy_to(i, top.oid, d)
    BY <1>2, <1>d, <2>1 DEF CreateProxyTo
  <2>3. d \in Nat
    BY <1>0, <1>a, <2>1, <2>2, LinkFields DEF Dests
  <2>4. Links(omap') = Links(omap) \cup {[src |-> top.oid, dest |-> d, o |-> Null]}
    BY <1>a, <2>1, <2>2, <2>3, LinkAdded
  <2>5. top.fn \in {"create", "dispatch"}
    BY <1>a, <2>1
  <2> QED
    BY <1>a, <1>c, <2>1, <2>2, <2>3, <2>4, <2>5 DEF Linked, oid_Broadcast
<1>3. CASE casycom_destroy_proxy
  <2>1. MayCall({"create", "dispatch", "destroyed"}) /\ heap' = heap
    BY <1>3 DEF casycom_destroy_proxy
  <2>2. PICK p \in DOMAIN omap :
          /\ IsLinkForProxy(omap, top.oid, omap[p].dest, p)
          /\ top.fn = "destroyed" => omap[p].dest = top.peer
          /\ casycom_destroy_link_at(p, Called)
    BY <1>3 DEF casycom_destroy_proxy
  <2>3. omap[p].src = top.oid
    BY <2>2 DEF IsLinkForProxy
  <2>4. /\ Called \in Seq(Frame) /\ Len(Called) = Len(stack)
        /\ \A k \in 1 .. Len(stack) : Alike(stack[k], Called[k])
        /\ stack # <<>> /\ top.fn \in {"create", "dispatch", "destroyed"}
    BY <1>a, <2>1
  <2> DEFINE l == Bare(omap[p])
  <2>5. /\ l \in Links(omap) /\ Links(omap) = Links(omap') \cup {l}
        /\ l.src = top.oid /\ (top.fn = "destroyed" => l.dest = top.peer)
        /\ \/ l.o = Null /\ Touched
           \/ /\ l.o # Null /\ ~Held(Links(omap'), l.dest)
              /\ Len(stack') = Len(stack) + 1 /\ Below(Len(stack))
              /\ LET f == stack'[Len(stack) + 1]
                 IN  f.fn = "destroy" /\ f.oid = l.dest /\ f.obj = l.o /\ f.at = 0 /\ f.calls = 0
    BY <2>2, <2>3, <2>4, LinkErased
  <2> HIDE DEF l
  <2> QED
    BY <2>1, <2>4, <2>5 DEF Erases
<1>4. CASE casycom_queue_message
  <2>1. MayCall({"create", "dispatch", "destroy", "destroyed", "failed"}) /\ stack' = Called
        /\ omap' = omap /\ heap' = heap
    BY <1>4 DEF casycom_queue_message
  <2> QED
    BY <1>b, <2>1
<1>5. CASE casycom_mark_unused
  <2>1. /\ MayCall({"create", "dispatch", "destroy", "destroyed", "failed"})
        /\ stack' = Called /\ heap' = heap
    BY <1>5 DEF casycom_mark_unused
  <2>2. PICK n : omap' = [p \in DOMAIN omap |->
                            [omap[p] EXCEPT !.unused = @ \/ omap[p].o = n]]
    BY <1>5 DEF casycom_mark_unused
  <2>3. Links(omap') = Links(omap)
    BY <1>0, <2>2, MarkLinks
  <2> QED
    BY <1>b, <2>1, <2>3
<1>6. CASE casycom_error
  BY <1>6, <1>b DEF casycom_error
<1>7. CASE casycom_quit
  BY <1>7, <1>b DEF casycom_quit
<1> QED
  BY <1>1, <1>2, <1>3, <1>4, <1>5, <1>6, <1>7 DEF LibraryCall

\* An empty stack has nothing to change.
LEMMA EmptyStack ==
    ASSUME stack = <<>>
    PROVE  Len(stack) = 0 /\ Below(Len(stack))
<1>1. Len(stack) = 0
  OBVIOUS
<1> QED
  BY <1>1 DEF Below

\* The destination of the message in delivery.
LEMMA HeadFacts ==
    ASSUME IInv, inq # <<>>
    PROVE  Head(inq).src \in Nat /\ Head(inq).dest \in Nat
<1>1. Head(inq) \in Msg
  BY DEF IInv
<1> QED
  BY <1>1 DEF Msg, Oid

\* The delivery of messages.
LEMMA MessageMoves ==
    ASSUME LifeInv, MessageStep
    PROVE  Stays \/ Begins \/ Made \/ Runs \/ Handled
<1> USE DEF LifeInv
<1>0. omap \in Seq(MsgLink) /\ FirstHolds(omap) /\ stack \in Seq(Frame)
  BY DEF IInv, MapOK, StackOK
<1>1. CASE DropMessage
  BY <1>1, SameStack DEF DropMessage, Stays
<1>2. CASE casycom_create_link_object
  <2>1. PICK p \in DOMAIN omap, n \in 1 .. MaxLinks + 1 :
          /\ IsDestination(omap, Head(inq).dest, p) /\ omap[p].o = Null
          /\ n \notin heap /\ heap' = heap \cup {n}
          /\ stack' = <<NewFrame("create", Head(inq).dest, n, Head(inq).src, 0, <<>>, MaxCalls)>>
    BY <1>2 DEF casycom_create_link_object
  <2>2. stack = <<>> /\ inq # <<>> /\ omap' = omap
    BY <1>2 DEF casycom_create_link_object, Delivering
  <2>3. /\ Len(stack') = 1 /\ stack'[1].fn = "create" /\ stack'[1].at = 0
        /\ stack'[1].obj = n /\ stack'[1].oid = Head(inq).dest
    BY <2>1, FrameFields
  <2>4. Head(inq).dest \in Nat
    BY <2>2, HeadFacts
  <2>5. omap[p].dest = Head(inq).dest /\ ~Held(Links(omap), Head(inq).dest)
    BY <1>0, <2>1, <2>4, FirstTells
  <2>6. \E l \in Links(omap) : l.dest = Head(inq).dest
    BY <1>0, <2>5, LinksFacts
  <2>7. Head(inq).dest # oid_Broadcast
    BY <2>6 DEF Sourced
  <2>8. n # Null
    BY CasycomAssumption DEF Null
  <2> QED
    BY <2>1, <2>2, <2>3, <2>5, <2>6, <2>7, <2>8 DEF Begins
<1>3. CASE CreateReturns
  <2>1. PICK p \in DOMAIN omap :
          /\ IsDestination(omap, top.oid, p) /\ omap[p].o = Null
          /\ omap' = [omap EXCEPT ![p].o = top.obj]
    BY <1>3 DEF CreateReturns
  <2>2. Running({"create"}) /\ stack' = Pop(stack) /\ heap' = heap
    BY <1>3 DEF CreateReturns
  <2>3. /\ Len(stack) \in Nat /\ Len(stack) > 0 /\ stack \in Seq(Frame) /\ stack # <<>>
        /\ top = stack[Len(stack)] /\ top.fn = "create"
    BY <2>2, TopFacts
  <2>4. Len(stack) = 1
    <3>1. Len(stack) \in 1 .. Len(stack)
      BY <2>3
    <3> QED
      BY <2>3, <3>1 DEF Shape
  <2>5. top = stack[1] /\ stack' = <<>>
    <3>1. stack' \in Seq(Frame) /\ Len(stack') = 0
      BY <2>2, <2>3, <2>4, PopFacts
    <3> QED
      BY <2>3, <2>4, <3>1
  <2>6. top.obj # Null /\ top.obj \in Nat
    BY <2>2, <2>3, TopOK DEF IInv, FrameOK, OnObject
  <2> DEFINE l == Bare(omap[p])
  <2>7. l \in Links(omap) /\ l.src = omap[p].src /\ l.dest = omap[p].dest /\ l.o = Null
    BY <1>0, <2>1, LinksFacts
  <2>8. omap[p].dest = top.oid
    BY <2>1 DEF IsDestination
  <2>9. /\ Links(omap') \subseteq Links(omap) \cup {[src |-> l.src, dest |-> l.dest, o |-> top.obj]}
        /\ [src |-> l.src, dest |-> l.dest, o |-> top.obj] \in Links(omap')
        /\ \A k \in Links(omap) : k.o # Null => k \in Links(omap')
    BY <1>0, <2>1, <2>6, <2>7, SetLinks
  <2> HIDE DEF l
  <2> QED
    BY <2>2, <2>3, <2>4, <2>5, <2>6, <2>7, <2>8, <2>9 DEF Made
<1>4. CASE Dispatch
  <2>1. stack = <<>> /\ inq # <<>> /\ omap' = omap /\ heap' = heap
    BY <1>4 DEF Dispatch, Delivering
  <2>2. PICK p \in DOMAIN omap :
          /\ IsDestination(omap, Head(inq).dest, p) /\ omap[p].o # Null
          /\ \/ stack' = <<NewFrame("dispatch", Head(inq).dest, omap[p].o,
                                    Head(inq).src, 0, <<>>, MaxCalls)>>
             \/ stack' = stack
    BY <1>4 DEF Dispatch
  <2>3. Len(stack) = 0 /\ Below(Len(stack))
    BY <2>1, EmptyStack
  <2>4. CASE stack' = stack
    BY <2>1, <2>4, SameStack DEF Stays
  <2>5. CASE stack' = <<NewFrame("dispatch", Head(inq).dest, omap[p].o,
                                 Head(inq).src, 0, <<>>, MaxCalls)>>
    <3>1. /\ Len(stack') = 1 /\ stack'[1].fn = "dispatch" /\ stack'[1].at = 0
          /\ stack'[1].obj = omap[p].o /\ stack'[1].oid = Head(inq).dest
      BY <2>5, FrameFields
    <3>2. omap[p].dest = Head(inq).dest
      BY <2>2 DEF IsDestination
    <3>3. \E l \in Links(omap) : l.dest = Head(inq).dest /\ l.o = omap[p].o
      BY <1>0, <3>2, LinksFacts
    <3>4. Len(stack') = Len(stack) + 1 /\ Len(stack) + 1 = 1
      BY <2>3, <3>1
    <3> QED
      BY <2>1, <2>2, <2>3, <3>1, <3>3, <3>4 DEF Runs
  <2> QED
    BY <2>2, <2>4, <2>5
<1>5. CASE DispatchReturns
  <2>1. Running({"dispatch"}) /\ omap' = omap /\ heap' = heap
    BY <1>5 DEF DispatchReturns
  <2>2. stack # <<>> /\ top.fn = "dispatch"
    BY <2>1, TopFacts
  <2>3. \/ stack' = <<>>
        \/ stack' = <<NewFrame("forward", Head(inq).dest, 0, Head(inq).dest, 0, <<>>, 0)>>
    BY <1>5 DEF DispatchReturns
  <2>4. \/ stack' = <<>>
        \/ Len(stack') = 1 /\ stack'[1].fn = "forward" /\ stack'[1].at = 0
    BY <2>3, FrameFields
  <2> QED
    BY <2>1, <2>2, <2>4 DEF Handled
<1>6. CASE SwapQueues
  BY <1>6, SameStack DEF SwapQueues, Stays
<1> QED
  BY <1>1, <1>2, <1>3, <1>4, <1>5, <1>6 DEF MessageStep

\* The last frame is replaced by one that is like it.
LEMMA ReplaceTop ==
    ASSUME IInv, NEW fns, Running(fns), NEW f
    PROVE  LET s == [stack EXCEPT ![Len(stack)] = f]
           IN  /\ Len(s) = Len(stack) /\ s[Len(stack)] = f
               /\ \A k \in 1 .. Len(stack) - 1 : s[k] = stack[k] /\ Alike(stack[k], s[k])
               /\ Alike(top, f) => \A k \in 1 .. Len(stack) : Alike(stack[k], s[k])
<1>1. /\ Len(stack) \in Nat /\ Len(stack) > 0 /\ DOMAIN stack = 1 .. Len(stack)
      /\ stack \in Seq(Frame) /\ top = stack[Len(stack)]
  BY TopFacts
<1> DEFINE s == [stack EXCEPT ![Len(stack)] = f]
<1>a. Len(stack) \in Nat /\ Len(stack) \in DOMAIN stack /\ DOMAIN stack = 1 .. Len(stack)
  BY <1>1
<1>2. /\ DOMAIN s = 1 .. Len(stack) /\ s[Len(stack)] = f
      /\ \A k \in 1 .. Len(stack) : k # Len(stack) => s[k] = stack[k]
  BY <1>a
<1>3. Len(s) = Len(stack)
  <2>1. \A n \in Nat : DOMAIN s = 1 .. n => Len(s) = n
    OBVIOUS
  <2> QED
    BY <1>a, <1>2, <2>1
<1> HIDE DEF s
<1>4. \A k \in 1 .. Len(stack) - 1 : k \in 1 .. Len(stack) /\ k # Len(stack)
  <2>1. \A n \in Nat : \A k \in 1 .. n - 1 : k \in 1 .. n /\ k # n
    OBVIOUS
  <2> QED
    BY <1>a, <2>1
<1>5. \A k \in 1 .. Len(stack) : k # Len(stack) => Alike(stack[k], s[k])
  BY <1>2 DEF Alike
<1>6. /\ Len(s) = Len(stack) /\ s[Len(stack)] = f
      /\ \A k \in 1 .. Len(stack) - 1 : s[k] = stack[k] /\ Alike(stack[k], s[k])
      /\ Alike(top, f) => \A k \in 1 .. Len(stack) : Alike(stack[k], s[k])
  BY <1>1, <1>2, <1>3, <1>4, <1>5
<1> QED
  BY <1>6 DEF s

\* The search for a handler of an error.
LEMMA ErrorMoves ==
    ASSUME LifeInv, ErrorStep
    PROVE  Stays \/ Runs \/ Returns \/ Handled
<1> USE DEF LifeInv
<1>0. omap \in Seq(MsgLink) /\ stack \in Seq(Frame)
  BY DEF IInv, MapOK, StackOK
<1>b. \A p \in DOMAIN omap : omap[p].o \in Nat
  BY <1>0, LinkFields DEF MsgLink
<1>1. CASE ErrorUnhandled
  <2>1. Running({"forward"}) /\ omap' = omap /\ heap' = heap /\ stack' = <<>>
    BY <1>1 DEF ErrorUnhandled
  <2> QED
    BY <2>1, TopFacts DEF Handled
<1>2. CASE casycom_forward_error
  <2>1. Running({"forward"}) /\ omap' = omap /\ heap' = heap
    BY <1>2 DEF casycom_forward_error
  <2>2. PICK p \in DOMAIN omap :
          /\ IsDestination(omap, top.oid, p)
          /\ \/ /\ omap[p].o # Null
                /\ stack' = Append(stack, NewFrame("failed", top.oid, omap[p].o, top.peer,
                                                   0, <<>>, MaxCalls))
             \/ stack' = Forwarded(stack, p)
    BY <1>2 DEF casycom_forward_error
  <2>3. /\ Len(stack) \in Nat /\ Len(stack) > 0 /\ stack # <<>> /\ top = stack[Len(stack)]
        /\ top.fn = "forward" /\ top \in Frame /\ DOMAIN stack = 1 .. Len(stack)
    BY <2>1, TopFacts
  <2>4. omap[p].dest = top.oid
    BY <2>2 DEF IsDestination
  <2>5. CASE omap[p].o # Null /\ stack' = Append(stack, NewFrame("failed", top.oid, omap[p].o,
                                                                  top.peer, 0, <<>>, MaxCalls))
    <3> DEFINE f == NewFrame("failed", top.oid, omap[p].o, top.peer, 0, <<>>, MaxCalls)
    <3>1. f.fn = "failed" /\ f.oid = top.oid /\ f.obj = omap[p].o /\ f.at = 0
      BY FrameFields
    <3>2. f \in Frame
      <4>1. top.oid \in Nat /\ top.peer \in Nat /\ omap[p].o \in Nat
        BY <1>b, <2>3 DEF Frame, Oid
      <4> QED
        BY <4>1, CasycomAssumption DEF NewFrame, Frame, Oid
    <3> HIDE DEF f
    <3>3. /\ Len(stack') = Len(stack) + 1 /\ stack'[Len(stack) + 1] = f
          /\ \A k \in 1 .. Len(stack) : stack'[k] = stack[k]
      BY <1>0, <2>5, <3>2, PushFacts DEF f
    <3>4. Below(Len(stack))
      BY <3>3 DEF Below, Alike
    <3>5. \E l \in Links(omap) : l.dest = f.oid /\ l.o = f.obj
      BY <1>0, <2>4, <3>1, LinksFacts
    <3> QED
      BY <2>1, <2>3, <2>5, <3>1, <3>3, <3>4, <3>5 DEF Runs
  <2>6. CASE stack' = Forwarded(stack, p)
    <3> DEFINE f == [top EXCEPT !.peer = top.oid, !.oid = omap[p].src]
    <3>1. Alike(top, f)
      BY <2>3 DEF Alike, Frame
    <3>2. stack' = [stack EXCEPT ![Len(stack)] = f]
      BY <2>3, <2>6 DEF Forwarded
    <3> HIDE DEF f
    <3>3. Touched
      BY <2>1, <3>1, <3>2, ReplaceTop DEF Touched, Below
    <3> QED
      BY <2>1, <3>3 DEF Stays
  <2> QED
    BY <2>2, <2>5, <2>6
<1>3. CASE ErrorHandled
  <2>1. Running({"failed"}) /\ omap' = omap /\ heap' = heap /\ stack' = <<>>
    BY <1>3 DEF ErrorHandled
  <2> QED
    BY <2>1, TopFacts DEF Handled
<1>4. CASE ErrorDeclined
  <2>1. Running({"failed"}) /\ omap' = omap /\ heap' = heap
    BY <1>4 DEF ErrorDeclined
  <2>2. PICK p \in DOMAIN omap : stack' = Forwarded(Pop(stack), p)
    BY <1>4 DEF ErrorDeclined
  <2>3. /\ Len(stack) \in Nat /\ Len(stack) > 0 /\ stack # <<>> /\ top = stack[Len(stack)]
        /\ top.fn = "failed"
    BY <2>1, TopFacts
  <2>4. Len(stack) = 2 /\ stack[1].fn = "forward"
    <3>1. Len(stack) \in 1 .. Len(stack)
      BY <2>3
    <3> QED
      BY <2>3, <3>1 DEF Shape
  <2>5. Pop(stack) \in Seq(Frame) /\ Len(Pop(stack)) = 1 /\ Pop(stack)[1] = stack[1]
    <3>1. Len(stack) - 1 = 1 /\ 1 \in 1 .. 1
      BY <2>4
    <3>2. /\ Pop(stack) \in Seq(Frame) /\ Len(Pop(stack)) = Len(stack) - 1
          /\ \A k \in 1 .. Len(stack) - 1 : Pop(stack)[k] = stack[k]
      BY <1>0, <2>3, PopFacts
    <3> QED
      BY <3>1, <3>2
  <2> DEFINE f == [stack[1] EXCEPT !.peer = stack[1].oid, !.oid = omap[p].src]
  <2>6. Alike(stack[1], f)
    BY <1>0, <2>4 DEF Alike, Frame
  <2>7. stack' = [Pop(stack) EXCEPT ![1] = f]
    BY <2>2, <2>5 DEF Forwarded
  <2> HIDE DEF f
  <2>8. Len(stack') = 1 /\ stack'[1] = f
    BY <2>5, <2>7
  <2>9. Len(stack') = Len(stack) - 1 /\ Below(Len(stack) - 1)
    BY <2>4, <2>6, <2>8 DEF Below
  <2> QED
    BY <2>1, <2>3, <2>9 DEF Returns
<1> QED
  BY <1>1, <1>2, <1>3, <1>4 DEF ErrorStep

\* casycom_destroy_object, and what it calls.
LEMMA DestroyMoves ==
    ASSUME ActiveDtor = {}, LifeInv, DestroyStep
    PROVE  Stays \/ Runs \/ Erases \/ Frees \/ Notified \/ Returns
<1> USE DEF LifeInv
<1>0. omap \in Seq(MsgLink) /\ FirstHolds(omap) /\ stack \in Seq(Frame)
  BY DEF IInv, MapOK, StackOK
<1>b. \A p \in DOMAIN omap : omap[p].o \in Nat
  BY <1>0, LinkFields DEF MsgLink
<1>1. CASE DestroyReturns
  <2>1. Running({"destroy"}) /\ heap' = heap \ {top.obj}
    BY <1>1 DEF DestroyReturns
  <2>2. /\ Len(stack) \in Nat /\ Len(stack) > 0 /\ stack # <<>> /\ top = stack[Len(stack)]
        /\ top.fn = "destroy" /\ Len(stack) \in 1 .. Len(stack)
    BY <2>1, TopFacts
  <2>3. top.obj # Null
    BY <2>1, <2>2, TopOK DEF IInv, FrameOK, OnObject
  <2>4. top.at # 0 => /\ top.at \in DOMAIN omap
                      /\ omap[top.at].o = top.obj /\ omap[top.at].dest = top.oid
    BY <2>2 DEF InPlace
  <2> DEFINE f == NewFrame("notify", top.oid, 0, 0, 0, Callers(omap, top.oid), 0)
  <2>5. stack' = [stack EXCEPT ![Len(stack)] = f]
    <3>1. stack' = [stack EXCEPT ![Len(stack)] =
            NewFrame("notify", IF top.at = 0 THEN top.oid ELSE omap[top.at].dest, 0, 0, 0,
                     Callers(omap, IF top.at = 0 THEN top.oid ELSE omap[top.at].dest), 0)]
      BY <1>1 DEF DestroyReturns
    <3>2. (IF top.at = 0 THEN top.oid ELSE omap[top.at].dest) = top.oid
      BY <2>4
    <3> QED
      BY <3>1, <3>2
  <2>6. f.fn = "notify" /\ f.oid = top.oid /\ f.at = 0
    BY FrameFields
  <2> HIDE DEF f
  <2>7. /\ Len(stack') = Len(stack) /\ stack'[Len(stack)] = f
        /\ \A k \in 1 .. Len(stack) - 1 : Alike(stack[k], stack'[k])
    BY <2>1, <2>5, ReplaceTop
  <2>8. CASE top.at = 0
    <3>1. omap' = omap
      BY <1>1, <2>8 DEF DestroyReturns
    <3> QED
      BY <2>1, <2>2, <2>3, <2>6, <2>7, <2>8, <3>1 DEF Frees, Below
  <2>9. CASE top.at # 0
    <3>1. omap' = [omap EXCEPT ![top.at].o = Null, ![top.at].unused = FALSE]
      BY <1>1, <2>9 DEF DestroyReturns
    <3> DEFINE l == Bare(omap[top.at])
    <3>2. l \in Links(omap) /\ l.dest = top.oid /\ l.o = top.obj /\ l.src = omap[top.at].src
      BY <1>0, <2>4, <2>9, LinksFacts
    <3>3. Links(omap') = (Links(omap) \ {l})
                           \cup {[src |-> omap[top.at].src, dest |-> omap[top.at].dest, o |-> Null]}
      BY <1>0, <2>3, <2>4, <2>9, <3>1, ClearLinks
    <3>4. Links(omap') = (Links(omap) \ {l}) \cup {[src |-> l.src, dest |-> l.dest, o |-> Null]}
      BY <2>4, <2>9, <3>2, <3>3
    <3> HIDE DEF l
    <3> QED
      BY <2>1, <2>2, <2>3, <2>6, <2>7, <2>9, <3>2, <3>4 DEF Frees, Below
  <2> QED
    BY <2>8, <2>9
<1>2. CASE NotifyCaller
  <2>1. Running({"notify"}) /\ omap' = omap /\ heap' = heap
    BY <1>2 DEF NotifyCaller
  <2>2. /\ Len(stack) \in Nat /\ Len(stack) > 0 /\ stack # <<>> /\ top = stack[Len(stack)]
        /\ top.fn = "notify" /\ top \in Frame /\ DOMAIN stack = 1 .. Len(stack)
    BY <2>1, TopFacts
  <2>3. PICK k \in DOMAIN top.list :
          LET rest == [stack EXCEPT ![Len(stack)].list[k] = 0]
          IN  \/ stack' = rest
              \/ \E p \in DOMAIN omap :
                    /\ IsDestination(omap, top.list[k], p) /\ omap[p].o # Null
                    /\ stack' = Append(rest, NewFrame("destroyed", top.list[k], omap[p].o,
                                                      top.oid, 0, <<>>, MaxCalls))
              \/ stack' = stack
    BY <1>2 DEF NotifyCaller
  <2> DEFINE f == [top EXCEPT !.list = [top.list EXCEPT ![k] = 0]]
             rest == [stack EXCEPT ![Len(stack)] = f]
  <2>4. [stack EXCEPT ![Len(stack)].list[k] = 0] = rest
    BY <2>2
  <2>5. Alike(top, f) /\ f \in Frame
    <3>1. [top.list EXCEPT ![k] = 0] \in Seq(Nat)
      <4>1. top.list \in Seq(Nat)
        BY <2>2 DEF Frame, Oid
      <4> QED
        BY <2>3, <4>1, ReplaceElement
    <3> QED
      BY <2>2, <3>1 DEF Alike, Frame, Oid
  <2> HIDE DEF f
  <2>6. /\ Len(rest) = Len(stack)
        /\ \A j \in 1 .. Len(stack) : Alike(stack[j], rest[j])
    BY <2>1, <2>5, ReplaceTop
  <2>7. rest \in Seq(Frame)
    BY <1>0, <2>2, <2>5
  <2> HIDE DEF rest
  <2>8. CASE stack' = rest
    BY <2>1, <2>6, <2>8 DEF Stays, Touched, Below
  <2>9. CASE stack' = stack
    BY <2>1, <2>9, SameStack DEF Stays
  <2>10. ASSUME NEW p \in DOMAIN omap, IsDestination(omap, top.list[k], p), omap[p].o # Null,
                stack' = Append(rest, NewFrame("destroyed", top.list[k], omap[p].o,
                                               top.oid, 0, <<>>, MaxCalls))
         PROVE  Runs
    <3> DEFINE g == NewFrame("destroyed", top.list[k], omap[p].o, top.oid, 0, <<>>, MaxCalls)
    <3>1. /\ g.fn = "destroyed" /\ g.oid = top.list[k] /\ g.obj = omap[p].o /\ g.at = 0
          /\ g.peer = top.oid
      BY FrameFields
    <3>2. g \in Frame
      <4>1. top.oid \in Nat /\ top.list \in Seq(Nat)
        BY <2>2 DEF Frame, Oid
      <4>2. top.list[k] \in Nat
        BY <2>3, <4>1
      <4>3. omap[p].o \in Nat
        BY <1>b
      <4> QED
        BY <4>1, <4>2, <4>3, CasycomAssumption DEF NewFrame, Frame, Oid
    <3>3. omap[p].dest = g.oid
      BY <2>10, <3>1 DEF IsDestination
    <3> HIDE DEF g
    <3>4. /\ Len(stack') = Len(stack) + 1 /\ stack'[Len(stack) + 1] = g
          /\ \A j \in 1 .. Len(stack) : stack'[j] = rest[j]
      BY <2>6, <2>7, <2>10, <3>2, PushFacts DEF g
    <3>5. Below(Len(stack))
      BY <2>6, <3>4 DEF Below
    <3>6. \E l \in Links(omap) : l.dest = g.oid /\ l.o = g.obj
      BY <1>0, <3>1, <3>3, LinksFacts
    <3> QED
      BY <2>1, <2>2, <2>10, <3>1, <3>4, <3>5, <3>6 DEF Runs
  <2> QED
    BY <2>3, <2>4, <2>8, <2>9, <2>10
<1>3. CASE AllNotified
  <2>1. Running({"notify"}) /\ omap' = omap /\ heap' = heap
    BY <1>3 DEF AllNotified
  <2>2. /\ stack # <<>> /\ top = stack[Len(stack)] /\ top.fn = "notify" /\ top \in Frame
        /\ Len(stack) \in Nat /\ Len(stack) > 0 /\ Len(stack) \in 1 .. Len(stack)
        /\ DOMAIN stack = 1 .. Len(stack)
    BY <2>1, TopFacts
  <2> DEFINE f == [top EXCEPT !.fn = "erase", !.list = <<>>]
  <2>3. stack' = [stack EXCEPT ![Len(stack)] = f]
    BY <1>3, <2>2 DEF AllNotified
  <2>4. f.fn = "erase" /\ f.oid = top.oid /\ f.at = 0
    BY <2>2 DEF Frame, Shape
  <2> HIDE DEF f
  <2>5. /\ Len(stack') = Len(stack) /\ stack'[Len(stack)] = f
        /\ \A k \in 1 .. Len(stack) - 1 : Alike(stack[k], stack'[k])
    BY <2>1, <2>3, ReplaceTop
  <2> QED
    BY <2>1, <2>2, <2>4, <2>5 DEF Notified, Below
<1>a. ASSUME NEW fns, Running(fns), stack' = Pop(stack)
      PROVE  stack # <<>> /\ Len(stack') = Len(stack) - 1 /\ Below(Len(stack) - 1)
  <2>1. stack # <<>>
    BY <1>a, TopFacts
  <2> QED
    BY <1>0, <1>a, <2>1, PopFacts DEF Below, Alike
<1>4. CASE DestroyedReturns
  <2>1. Running({"destroyed"}) /\ omap' = omap /\ heap' = heap /\ stack' = Pop(stack)
    BY <1>4 DEF DestroyedReturns
  <2> QED
    BY <1>a, <2>1, TopFacts DEF Returns
<1>5. CASE EraseLink
  <2>1. Running({"erase"}) /\ heap' = heap
    BY <1>5 DEF EraseLink
  <2>2. PICK p \in DOMAIN omap : omap[p].src = top.oid /\ casycom_destroy_link_at(p, stack)
    BY <1>5 DEF EraseLink
  <2>3. stack # <<>> /\ top.fn = "erase"
    BY <2>1, TopFacts
  <2>4. \A k \in 1 .. Len(stack) : Alike(stack[k], stack[k])
    BY DEF Alike
  <2> DEFINE l == Bare(omap[p])
  <2>5. /\ l \in Links(omap) /\ Links(omap) = Links(omap') \cup {l} /\ l.src = top.oid
        /\ \/ l.o = Null /\ Touched
           \/ /\ l.o # Null /\ ~Held(Links(omap'), l.dest)
              /\ Len(stack') = Len(stack) + 1 /\ Below(Len(stack))
              /\ LET f == stack'[Len(stack) + 1]
                 IN  f.fn = "destroy" /\ f.oid = l.dest /\ f.obj = l.o /\ f.at = 0 /\ f.calls = 0
    BY <1>0, <2>2, <2>4, LinkErased
  <2> HIDE DEF l
  <2> QED
    BY <2>1, <2>3, <2>5 DEF Erases
<1>6. CASE AllErased
  <2>1. Running({"erase"}) /\ omap' = omap /\ heap' = heap /\ stack' = Pop(stack)
        /\ \A p \in DOMAIN omap : omap[p].src # top.oid
    BY <1>6 DEF AllErased
  <2>2. stack # <<>> /\ top.fn = "erase"
    BY <2>1, TopFacts
  <2>3. \A l \in Links(omap) : l.src # top.oid
    BY <1>0, <2>1, LinksFacts
  <2> QED
    BY <1>a, <2>1, <2>2, <2>3 DEF Returns
<1> QED
  BY <1>1, <1>2, <1>3, <1>4, <1>5, <1>6 DEF DestroyStep

\* The event loop.
LEMMA LoopMoves ==
    ASSUME ActiveDtor = {}, LifeInv, LoopStep
    PROVE  Stays \/ Erases \/ Sweeps
<1> USE DEF LifeInv
<1>0. omap \in Seq(MsgLink) /\ stack \in Seq(Frame)
  BY DEF IInv, MapOK, StackOK
<1>1. CASE casycom_send_signal_message
  BY <1>1, SameStack DEF casycom_send_signal_message, Stays
<1>2. CASE casycom_destroy_unused_objects
  <2>1. stack = <<>> /\ omap' = omap /\ heap' = heap
    BY <1>2 DEF casycom_destroy_unused_objects
  <2>2. PICK p \in DOMAIN omap :
          stack' = IF omap[p].o = Null THEN stack ELSE <<DestroyFrame(omap[p], p)>>
    BY <1>2 DEF casycom_destroy_unused_objects
  <2>3. CASE omap[p].o = Null
    BY <2>1, <2>2, <2>3, SameStack DEF Stays
  <2>4. CASE omap[p].o # Null
    <3> DEFINE f == DestroyFrame(omap[p], p)
    <3>1. f.fn = "destroy" /\ f.calls = 0 /\ f.at = p /\ f.obj = omap[p].o /\ f.oid = omap[p].dest
      BY DEF DestroyFrame, NewFrame
    <3> HIDE DEF f
    <3>2. Len(stack') = 1 /\ stack'[1] = f
      BY <2>2, <2>4 DEF f
    <3> QED
      BY <2>1, <2>4, <3>1, <3>2 DEF Sweeps
  <2> QED
    BY <2>3, <2>4
<1>3. CASE casycom_idle
  BY <1>3, SameStack DEF casycom_idle, Stays
<1>4. CASE ResetLink
  <2>1. stack = <<>> /\ omap # <<>> /\ heap' = heap /\ casycom_destroy_link_at(Len(omap), stack)
    BY <1>4 DEF ResetLink
  <2>2. \A k \in 1 .. Len(stack) : Alike(stack[k], stack[k])
    BY DEF Alike
  <2>3. Len(omap) \in DOMAIN omap
    BY <1>0, <2>1
  <2> DEFINE l == Bare(omap[Len(omap)])
  <2>4. /\ l \in Links(omap) /\ Links(omap) = Links(omap') \cup {l}
        /\ \/ l.o = Null /\ Touched
           \/ /\ l.o # Null /\ ~Held(Links(omap'), l.dest)
              /\ Len(stack') = Len(stack) + 1 /\ Below(Len(stack))
              /\ LET f == stack'[Len(stack) + 1]
                 IN  f.fn = "destroy" /\ f.oid = l.dest /\ f.obj = l.o /\ f.at = 0 /\ f.calls = 0
    BY <1>0, <2>1, <2>2, <2>3, LinkErased
  <2> HIDE DEF l
  <2> QED
    BY <2>1, <2>4 DEF Erases
<1>5. CASE ResetQueues
  BY <1>5, SameStack DEF ResetQueues, Stays
<1> QED
  BY <1>1, <1>2, <1>3, <1>4, <1>5 DEF LoopStep

Moves ==
    \/ Stays \/ Linked \/ Begins \/ Made \/ Runs \/ Erases
    \/ Sweeps \/ Frees \/ Notified \/ Returns \/ Handled

LEMMA StepMoves ==
    ASSUME ActiveDtor = {}, LifeInv, [Next]_vars
    PROVE  Moves
<1>1. CASE UNCHANGED vars
  BY <1>1, SameStack DEF vars, Stays, Moves
<1>2. CASE Step
  BY <1>2, LibraryMoves, MessageMoves, ErrorMoves, DestroyMoves, LoopMoves DEF Step, Moves
<1> QED
  BY <1>1, <1>2 DEF Next, Ended

-----------------------------------------------------------------------------
(* The shape of the stack *)

\* It stays when the frames stay alike,
LEMMA ShapeKept ==
    ASSUME NEW s, NEW t, Len(s) \in Nat, Len(t) = Len(s), Shape(s),
           \A k \in 1 .. Len(s) : Alike(s[k], t[k])
    PROVE  Shape(t)
<1> SUFFICES ASSUME NEW k \in 1 .. Len(t)
             PROVE  /\ t[k].fn \in {"create", "dispatch", "forward"} => k = 1
                    /\ t[k].fn \in {"create", "destroy", "destroyed", "failed"} => k = Len(t)
                    /\ t[k].fn = "failed" => k = 2 /\ t[1].fn = "forward"
                    /\ t[k].fn = "destroyed" =>
                          k > 1 /\ t[k - 1].fn = "notify" /\ t[k].peer = t[k - 1].oid
                    /\ t[k].fn = "forward" /\ k < Len(t) => t[k + 1].fn = "failed"
                    /\ t[k].fn = "notify" /\ k < Len(t) => t[k + 1].fn = "destroyed"
                    /\ t[k].fn = "destroy" => t[k].calls = 0 /\ (t[k].at # 0 => k = 1)
                    /\ t[k].fn # "destroy" => t[k].at = 0
  BY DEF Shape
<1>1. k \in 1 .. Len(s) /\ 1 \in 1 .. Len(s)
  OBVIOUS
<1>2. k > 1 => k - 1 \in 1 .. Len(s)
  OBVIOUS
<1>3. k < Len(s) => k + 1 \in 1 .. Len(s)
  OBVIOUS
<1>4. \A j \in 1 .. Len(s) : t[j].fn = s[j].fn /\ t[j].at = s[j].at
  BY DEF Alike
<1>5. \A j \in 1 .. Len(s) : s[j].fn # "forward" => t[j].oid = s[j].oid /\ t[j].peer = s[j].peer
  BY DEF Alike
<1>6. s[k].fn = "destroy" => t[k].calls = s[k].calls
  BY <1>1 DEF Alike
<1> QED
  BY <1>1, <1>2, <1>3, <1>4, <1>5, <1>6 DEF Shape

\* when a call is made where one may be,
LEMMA ShapePushed ==
    ASSUME NEW s, NEW t, Len(s) \in Nat, Len(t) = Len(s) + 1, Shape(s),
           \A k \in 1 .. Len(s) : Alike(s[k], t[k]),
           LET n == Len(s)
               f == t[n + 1]
           IN  /\ \/ n = 0 /\ f.fn \in {"create", "dispatch", "destroy"}
                  \/ n > 0 /\ s[n].fn \in {"dispatch", "erase"} /\ f.fn = "destroy"
                  \/ n > 0 /\ s[n].fn = "notify" /\ f.fn = "destroyed" /\ f.peer = s[n].oid
                  \/ n > 0 /\ s[n].fn = "forward" /\ f.fn = "failed"
               /\ f.fn = "destroy" => f.calls = 0 /\ (f.at # 0 => n = 0)
               /\ f.fn # "destroy" => f.at = 0
    PROVE  Shape(t)
<1> DEFINE n == Len(s)
<1>1. n \in Nat /\ n + 1 \in Nat /\ Len(t) = n + 1
  OBVIOUS
<1>2. ASSUME NEW k \in 1 .. n
      PROVE  /\ t[k].fn = s[k].fn /\ t[k].at = s[k].at
             /\ s[k].fn # "forward" => t[k].oid = s[k].oid /\ t[k].peer = s[k].peer
             /\ s[k].fn = "destroy" => t[k].calls = s[k].calls
  BY DEF Alike
<1>3. n > 0 => n \in 1 .. n
  OBVIOUS
<1>4. n > 0 => s[n].fn \in {"dispatch", "erase", "notify", "forward"}
  BY <1>1
<1>5. ASSUME NEW k \in 1 .. n
      PROVE  s[k].fn \notin {"create", "destroy", "destroyed", "failed"}
  BY <1>3, <1>4, <1>5 DEF Shape
<1>6. ASSUME NEW k \in 1 .. n, k # n
      PROVE  s[k].fn \notin {"forward", "notify"}
  <2>1. k + 1 \in 1 .. n /\ k < n
    BY <1>1, <1>6
  <2>2. /\ s[k].fn = "forward" => s[k + 1].fn = "failed"
        /\ s[k].fn = "notify" => s[k + 1].fn = "destroyed"
    BY <2>1 DEF Shape
  <2> QED
    BY <1>5, <2>1, <2>2
<1>7. ASSUME NEW k \in 1 .. n
      PROVE  /\ s[k].fn \in {"dispatch", "forward"} => k = 1
             /\ s[k].at = 0
  BY <1>5, <1>7 DEF Shape
<1>8. \A k \in 1 .. Len(t) : k \in 1 .. n \/ k = n + 1
  BY <1>1
<1> DEFINE f == t[n + 1]
<1>9. /\ \/ n = 0 /\ f.fn \in {"create", "dispatch", "destroy"}
         \/ n > 0 /\ s[n].fn \in {"dispatch", "erase"} /\ f.fn = "destroy"
         \/ n > 0 /\ s[n].fn = "notify" /\ f.fn = "destroyed" /\ f.peer = s[n].oid
         \/ n > 0 /\ s[n].fn = "forward" /\ f.fn = "failed"
      /\ f.fn = "destroy" => f.calls = 0 /\ (f.at # 0 => n = 0)
      /\ f.fn # "destroy" => f.at = 0
  OBVIOUS
<1> HIDE DEF n
<1> SUFFICES ASSUME NEW k \in 1 .. Len(t)
             PROVE  /\ t[k].fn \in {"create", "dispatch", "forward"} => k = 1
                    /\ t[k].fn \in {"create", "destroy", "destroyed", "failed"} => k = Len(t)
                    /\ t[k].fn = "failed" => k = 2 /\ t[1].fn = "forward"
                    /\ t[k].fn = "destroyed" =>
                          k > 1 /\ t[k - 1].fn = "notify" /\ t[k].peer = t[k - 1].oid
                    /\ t[k].fn = "forward" /\ k < Len(t) => t[k + 1].fn = "failed"
                    /\ t[k].fn = "notify" /\ k < Len(t) => t[k + 1].fn = "destroyed"
                    /\ t[k].fn = "destroy" => t[k].calls = 0 /\ (t[k].at # 0 => k = 1)
                    /\ t[k].fn # "destroy" => t[k].at = 0
  BY DEF Shape
<1>10. CASE k \in 1 .. n
  <2>1. t[k].fn = s[k].fn /\ t[k].at = s[k].at /\ k < Len(t)
    BY <1>1, <1>2, <1>10
  <2>2. k = n => (s[n].fn = "forward" => f.fn = "failed") /\ (s[n].fn = "notify" => f.fn = "destroyed")
    BY <1>1, <1>9, <1>10
  <2>3. k # n => s[k].fn \notin {"forward", "notify"}
    BY <1>6, <1>10
  <2>4. /\ s[k].fn \notin {"create", "destroy", "destroyed", "failed"}
        /\ s[k].fn \in {"dispatch", "forward"} => k = 1
        /\ s[k].at = 0
    BY <1>5, <1>7, <1>10
  <2> QED
    BY <2>1, <2>2, <2>3, <2>4
<1>11. CASE k = n + 1
  <2>1. n > 0 => (n + 1) - 1 = n /\ t[n].fn = s[n].fn /\ (s[n].fn = "notify" => t[n].oid = s[n].oid)
    BY <1>1, <1>2, <1>3
  <2>2. n > 0 /\ s[n].fn = "forward" => n = 1 /\ n + 1 = 2
    BY <1>3, <1>7
  <2>3. k = Len(t) /\ ~(k < Len(t)) /\ (n > 0 => k > 1) /\ (n = 0 => k = 1) /\ t[k] = f
    BY <1>1, <1>11
  <2>4. (k - 1) = n
    BY <1>1, <1>11
  <2> QED
    BY <1>1, <1>9, <1>11, <2>1, <2>2, <2>3, <2>4
<1> QED
  BY <1>8, <1>10, <1>11

\* when the destruction of an object goes on,
LEMMA ShapeNext ==
    ASSUME NEW s, NEW t, Len(s) \in Nat, Len(s) > 0, Len(t) = Len(s), Shape(s),
           \A k \in 1 .. Len(s) - 1 : Alike(s[k], t[k]),
           s[Len(s)].fn \in {"destroy", "notify"},
           t[Len(s)].fn \in {"notify", "erase"}, t[Len(s)].at = 0
    PROVE  Shape(t)
<1> DEFINE n == Len(s)
<1>1. n \in Nat /\ n > 0 /\ Len(t) = n /\ n \in 1 .. n
      /\ s[n].fn \in {"destroy", "notify"} /\ t[n].fn \in {"notify", "erase"} /\ t[n].at = 0
  OBVIOUS
<1>2. ASSUME NEW k \in 1 .. n - 1 PROVE t[k].fn = s[k].fn /\ t[k].at = s[k].at
  BY DEF Alike
<1>3. \A k \in 1 .. n : k # n => k \in 1 .. n - 1 /\ k + 1 \in 1 .. n /\ k < n
  BY <1>1
<1>4. ASSUME NEW k \in 1 .. n, k # n
      PROVE  /\ s[k].fn \notin {"create", "destroy", "destroyed", "failed"}
             /\ s[k].fn = "forward" => s[k + 1].fn = "failed"
             /\ s[k].fn = "notify" => s[k + 1].fn = "destroyed"
             /\ s[k].fn \in {"dispatch", "forward"} => k = 1
             /\ s[k].at = 0
  BY <1>3, <1>4 DEF Shape
<1>5. ASSUME NEW k \in 1 .. n, k # n
      PROVE  s[k].fn \notin {"forward", "notify"}
  <2>1. k + 1 \in 1 .. n /\ (s[k].fn \in {"forward", "notify"} => s[k + 1].fn \in {"failed", "destroyed"})
    BY <1>3, <1>4, <1>5
  <2>2. s[k + 1].fn \notin {"failed", "destroyed"}
    <3>1. CASE k + 1 = n
      BY <1>1, <3>1
    <3>2. CASE k + 1 # n
      BY <1>4, <2>1, <3>2
    <3> QED
      BY <3>1, <3>2
  <2> QED
    BY <2>1, <2>2
<1> HIDE DEF n
<1> SUFFICES ASSUME NEW k \in 1 .. Len(t)
             PROVE  /\ t[k].fn \in {"create", "dispatch", "forward"} => k = 1
                    /\ t[k].fn \in {"create", "destroy", "destroyed", "failed"} => k = Len(t)
                    /\ t[k].fn = "failed" => k = 2 /\ t[1].fn = "forward"
                    /\ t[k].fn = "destroyed" =>
                          k > 1 /\ t[k - 1].fn = "notify" /\ t[k].peer = t[k - 1].oid
                    /\ t[k].fn = "forward" /\ k < Len(t) => t[k + 1].fn = "failed"
                    /\ t[k].fn = "notify" /\ k < Len(t) => t[k + 1].fn = "destroyed"
                    /\ t[k].fn = "destroy" => t[k].calls = 0 /\ (t[k].at # 0 => k = 1)
                    /\ t[k].fn # "destroy" => t[k].at = 0
  BY DEF Shape
<1>6. CASE k = n
  BY <1>1, <1>6
<1>7. CASE k # n
  <2>1. k \in 1 .. n /\ t[k].fn = s[k].fn /\ t[k].at = s[k].at
    BY <1>1, <1>2, <1>3, <1>7
  <2> QED
    BY <1>4, <1>5, <1>7, <2>1
<1> QED
  BY <1>6, <1>7

\* and when a function returns.
LEMMA ShapePopped ==
    ASSUME NEW s, NEW t, Len(s) \in Nat, Len(s) > 0, Len(t) = Len(s) - 1, Shape(s),
           \A k \in 1 .. Len(s) - 1 : Alike(s[k], t[k])
    PROVE  Shape(t)
<1> DEFINE n == Len(s)
<1>1. n \in Nat /\ n > 0 /\ Len(t) = n - 1
  OBVIOUS
<1>2. ASSUME NEW k \in 1 .. n - 1 PROVE t[k].fn = s[k].fn /\ t[k].at = s[k].at
  BY DEF Alike
<1>3. \A k \in 1 .. n - 1 : k \in 1 .. n /\ k + 1 \in 1 .. n /\ k # n /\ k < n
  BY <1>1
<1>4. ASSUME NEW k \in 1 .. n - 1
      PROVE  /\ s[k].fn \notin {"create", "destroy", "destroyed", "failed"}
             /\ s[k].fn = "forward" => s[k + 1].fn = "failed"
             /\ s[k].fn = "notify" => s[k + 1].fn = "destroyed"
             /\ s[k].fn \in {"dispatch", "forward"} => k = 1
             /\ s[k].at = 0
  BY <1>3 DEF Shape
<1>5. ASSUME NEW k \in 1 .. n - 1, k < n - 1
      PROVE  s[k].fn \notin {"forward", "notify"}
  <2>1. k + 1 \in 1 .. n - 1
    BY <1>1, <1>5
  <2> QED
    BY <1>4, <2>1
<1> HIDE DEF n
<1> SUFFICES ASSUME NEW k \in 1 .. Len(t)
             PROVE  /\ t[k].fn \in {"create", "dispatch", "forward"} => k = 1
                    /\ t[k].fn \in {"create", "destroy", "destroyed", "failed"} => k = Len(t)
                    /\ t[k].fn = "failed" => k = 2 /\ t[1].fn = "forward"
                    /\ t[k].fn = "destroyed" =>
                          k > 1 /\ t[k - 1].fn = "notify" /\ t[k].peer = t[k - 1].oid
                    /\ t[k].fn = "forward" /\ k < Len(t) => t[k + 1].fn = "failed"
                    /\ t[k].fn = "notify" /\ k < Len(t) => t[k + 1].fn = "destroyed"
                    /\ t[k].fn = "destroy" => t[k].calls = 0 /\ (t[k].at # 0 => k = 1)
                    /\ t[k].fn # "destroy" => t[k].at = 0
  BY DEF Shape
<1>6. k \in 1 .. n - 1 /\ t[k].fn = s[k].fn /\ t[k].at = s[k].at
  BY <1>1, <1>2
<1> QED
  BY <1>1, <1>4, <1>5, <1>6

LEMMA StackFacts ==
    ASSUME LifeInv
    PROVE  /\ stack \in Seq(Frame) /\ Len(stack) \in Nat /\ omap \in Seq(MsgLink)
           /\ stack = <<>> => Len(stack) = 0
           /\ stack # <<>> => Len(stack) > 0 /\ Len(stack) \in 1 .. Len(stack) /\ top = stack[Len(stack)]
           /\ Links(omap) \subseteq [src : Nat, dest : Nat, o : Nat]
<1>1. stack \in Seq(Frame) /\ omap \in Seq(MsgLink)
  BY DEF LifeInv, IInv, StackOK, MapOK
<1> QED
  BY <1>1, LinksFacts DEF top

\* A constructor, and a method told of a destruction, erase links without objects.
LEMMA ErasesNone ==
    ASSUME LifeInv, NEW l \in Links(omap), stack # <<>>, top.fn \in {"create", "destroyed"},
           l.src = top.oid, top.fn = "destroyed" => l.dest = top.peer
    PROVE  l.o = Null
<1>1. Len(stack) \in 1 .. Len(stack) /\ top = stack[Len(stack)] /\ Len(stack) \in Nat
  BY StackFacts
<1>2. CASE top.fn = "create"
  BY <1>1, <1>2 DEF LifeInv, Framed
<1>3. CASE top.fn = "destroyed"
  <2>1. /\ Len(stack) > 1 /\ stack[Len(stack) - 1].fn = "notify"
        /\ l.dest = stack[Len(stack) - 1].oid
    BY <1>1, <1>3 DEF LifeInv, Shape
  <2>2. Len(stack) - 1 \in 1 .. Len(stack)
    BY <1>1, <2>1
  <2>3. stack[Len(stack) - 1].at = 0
    BY <2>1, <2>2 DEF LifeInv, Shape
  <2>4. ~Held(Links(omap), l.dest)
    BY <2>1, <2>2, <2>3 DEF LifeInv, Framed, Destroying
  <2> QED
    BY <2>4 DEF Held
<1> QED
  BY <1>2, <1>3

LEMMA ShapeStep ==
    ASSUME LifeInv, Moves
    PROVE  Shape(stack')
<1>0. /\ Shape(stack) /\ Len(stack) \in Nat
      /\ stack = <<>> => Len(stack) = 0 /\ Below(Len(stack))
      /\ stack # <<>> => Len(stack) > 0 /\ Len(stack) \in 1 .. Len(stack) /\ top = stack[Len(stack)]
  BY StackFacts, EmptyStack DEF LifeInv
<1>1. CASE Touched
  BY <1>0, <1>1, ShapeKept DEF Touched, Below
<1>2. CASE Begins
  <2>1. /\ Len(stack) = 0 /\ Below(Len(stack)) /\ Len(stack') = Len(stack) + 1
        /\ stack'[Len(stack) + 1].fn = "create" /\ stack'[Len(stack) + 1].at = 0
    BY <1>0, <1>2 DEF Begins
  <2> QED
    BY <1>0, <2>1, ShapePushed DEF Below
<1>3. CASE Made
  BY <1>3 DEF Made, Shape
<1>4. CASE Runs
  <2>1. Len(stack') = Len(stack) + 1 /\ Below(Len(stack))
    BY <1>4 DEF Runs
  <2>2. LET f == stack'[Len(stack) + 1]
        IN  /\ f.at = 0
            /\ \/ f.fn = "dispatch" /\ Len(stack) = 0
               \/ f.fn = "destroyed" /\ Len(stack) > 0 /\ stack[Len(stack)].fn = "notify"
                  /\ f.peer = stack[Len(stack)].oid
               \/ f.fn = "failed" /\ Len(stack) > 0 /\ stack[Len(stack)].fn = "forward"
    BY <1>0, <1>4 DEF Runs
  <2> QED
    BY <1>0, <2>1, <2>2, ShapePushed DEF Below
<1>5. CASE Erases
  <2>1. PICK l \in Links(omap) :
          /\ stack # <<>> => /\ top.fn \in {"create", "dispatch", "erase", "destroyed"}
                             /\ l.src = top.oid /\ (top.fn = "destroyed" => l.dest = top.peer)
          /\ \/ Touched
             \/ /\ l.o # Null
                /\ Len(stack') = Len(stack) + 1 /\ Below(Len(stack))
                /\ LET f == stack'[Len(stack) + 1]
                   IN  f.fn = "destroy" /\ f.at = 0 /\ f.calls = 0
    BY <1>5 DEF Erases
  <2>2. CASE ~Touched
    <3>1. stack # <<>> => top.fn \in {"dispatch", "erase"}
      BY <2>1, <2>2, ErasesNone
    <3>2. \/ Len(stack) = 0
          \/ Len(stack) > 0 /\ stack[Len(stack)].fn \in {"dispatch", "erase"}
      BY <1>0, <3>1
    <3> QED
      BY <1>0, <2>1, <2>2, <3>2, ShapePushed DEF Below
  <2> QED
    BY <1>1, <2>2
<1>6. CASE Sweeps
  <2>1. /\ Len(stack) = 0 /\ Below(Len(stack)) /\ Len(stack') = Len(stack) + 1
        /\ stack'[Len(stack) + 1].fn = "destroy" /\ stack'[Len(stack) + 1].calls = 0
    BY <1>0, <1>6 DEF Sweeps
  <2> QED
    BY <1>0, <2>1, ShapePushed DEF Below
<1>7. CASE Frees \/ Notified
  <2>1. /\ Len(stack') = Len(stack) /\ Below(Len(stack) - 1)
        /\ Len(stack) > 0 /\ stack[Len(stack)].fn \in {"destroy", "notify"}
        /\ stack'[Len(stack)].fn \in {"notify", "erase"} /\ stack'[Len(stack)].at = 0
    BY <1>0, <1>7 DEF Frees, Notified
  <2> QED
    BY <1>0, <2>1, ShapeNext DEF Below
<1>8. CASE Returns
  <2>1. Len(stack') = Len(stack) - 1 /\ Below(Len(stack) - 1) /\ Len(stack) > 0
    BY <1>0, <1>8 DEF Returns
  <2> QED
    BY <1>0, <2>1, ShapePopped DEF Below
<1>9. CASE Handled
  BY <1>9 DEF Handled, Shape
<1> QED
  BY <1>1, <1>2, <1>3, <1>4, <1>5, <1>6, <1>7, <1>8, <1>9 DEF Moves, Stays, Linked

\* The link that casycom_destroy_object works on
LEMMA InPlaceStep ==
    ASSUME LifeInv, Moves, IInv'
    PROVE  InPlace'
<1>0. /\ Shape(stack) /\ Len(stack) \in Nat /\ Shape(stack') /\ InPlace
      /\ stack = <<>> => Len(stack) = 0
      /\ stack # <<>> => Len(stack) > 0 /\ Len(stack) \in 1 .. Len(stack) /\ top = stack[Len(stack)]
  BY StackFacts, ShapeStep DEF LifeInv
<1>a. SUFFICES ASSUME NEW k \in 1 .. Len(stack'), stack'[k].fn = "destroy", stack'[k].at # 0
               PROVE  /\ stack'[k].at \in DOMAIN omap'
                      /\ omap'[stack'[k].at].o = stack'[k].obj
                      /\ omap'[stack'[k].at].dest = stack'[k].oid
  BY DEF InPlace
<1>b. k = 1 /\ k = Len(stack') /\ Len(stack') = 1
  BY <1>0, <1>a DEF Shape
<1>1. CASE Touched
  <2>1. Len(stack) = 1 /\ k \in 1 .. Len(stack) /\ Alike(stack[k], stack'[k])
    BY <1>b, <1>1 DEF Touched, Below
  <2>2. /\ stack[k].fn = "destroy" /\ stack[k].at = stack'[k].at
        /\ stack[k].obj = stack'[k].obj /\ stack[k].oid = stack'[k].oid
    BY <1>a, <2>1 DEF Alike
  <2>3. stack # <<>> /\ top.fn = "destroy"
    BY <1>0, <1>b, <2>1, <2>2
  <2>4. omap' = omap
    BY <1>1, <1>a, <1>b, <2>1, <2>2, <2>3 DEF Moves, Stays, Linked, Begins, Made, Runs, Erases,
                                              Sweeps, Frees, Notified, Returns, Handled
  <2> QED
    BY <1>0, <1>a, <2>1, <2>2, <2>4 DEF InPlace
<1>2. CASE ~Touched
  <2>1. Begins \/ Made \/ Runs \/ Erases \/ Sweeps \/ Frees \/ Notified \/ Returns \/ Handled
    BY <1>2 DEF Moves, Stays, Linked
  <2>2. CASE Begins \/ Made \/ Handled
    BY <1>a, <1>b, <2>2 DEF Begins, Made, Handled
  <2>3. CASE Runs
    <3>1. k = Len(stack) + 1
      BY <1>b, <2>3 DEF Runs
    <3> QED
      BY <1>a, <3>1, <2>3 DEF Runs
  <2>4. CASE Erases
    <3>1. k = Len(stack) + 1 /\ stack'[Len(stack) + 1].at = 0
      BY <1>2, <1>b, <2>4 DEF Erases
    <3> QED
      BY <1>a, <3>1
  <2>5. CASE Sweeps
    BY <1>b, <2>5 DEF Sweeps
  <2>6. CASE Frees \/ Notified
    <3>1. k = Len(stack) /\ stack'[Len(stack)].at = 0
      BY <1>b, <2>6 DEF Frees, Notified
    <3> QED
      BY <1>a, <3>1
  <2>7. CASE Returns
    <3>0. Len(stack') = Len(stack) - 1 /\ Below(Len(stack) - 1)
      BY <2>7 DEF Returns
    <3>a. Len(stack) = 2 /\ k = 1
      <4>1. \A n \in Nat : 1 = n - 1 => n = 2
        OBVIOUS
      <4>2. Len(stack) \in Nat /\ 1 = Len(stack) - 1
        BY <1>b, <3>0, StackFacts
      <4> QED
        BY <1>b, <4>1, <4>2
    <3>1. /\ k \in 1 .. Len(stack) - 1 /\ k \in 1 .. Len(stack) /\ k # Len(stack)
          /\ Alike(stack[k], stack'[k])
      BY <3>0, <3>a DEF Below
    <3>2. stack[k].fn = "destroy"
      BY <1>a, <3>1 DEF Alike
    <3> QED
      BY <1>0, <3>1, <3>2 DEF Shape
  <2> QED
    BY <2>1, <2>2, <2>3, <2>4, <2>5, <2>6, <2>7
<1> QED
  BY <1>1, <1>2

-----------------------------------------------------------------------------
(* The heap *)

\* Only the function that runs can have an object without a link.
LEMMA MakingFacts ==
    ASSUME NEW s, Shape(s), Len(s) \in Nat
    PROVE  /\ Len(s) > 0 /\ s[Len(s)].fn \in {"create", "destroy"} /\ s[Len(s)].at = 0
                => Making(s) = {s[Len(s)].obj}
           /\ ~(Len(s) > 0 /\ s[Len(s)].fn \in {"create", "destroy"} /\ s[Len(s)].at = 0)
                => Making(s) = {}
<1>1. \A j \in 1 .. Len(s) : s[j].fn \in {"create", "destroy"} => j = Len(s) /\ Len(s) > 0
  BY DEF Shape
<1>2. Len(s) > 0 => Len(s) \in 1 .. Len(s)
  OBVIOUS
<1> QED
  BY <1>1, <1>2 DEF Making

\* An object is on one link.
LEMMA HolderUnique ==
    ASSUME IInv, NEW l \in Links(omap), NEW k \in Links(omap),
           l.dest = k.dest, l.o # Null, k.o # Null
    PROVE  l = k
<1>1. omap \in Seq(MsgLink) /\ FirstHolds(omap)
  BY DEF IInv, MapOK
<1>2. PICK p \in DOMAIN omap : l = Bare(omap[p]) /\ l.dest = omap[p].dest /\ l.o = omap[p].o
  BY <1>1, LinksFacts
<1>3. PICK q \in DOMAIN omap : k = Bare(omap[q]) /\ k.dest = omap[q].dest /\ k.o = omap[q].o
  BY <1>1, LinksFacts
<1>4. p = q
  BY <1>1, <1>2, <1>3, OneHolder
<1> QED
  BY <1>2, <1>3, <1>4

LEMMA AccountedStep ==
    ASSUME LifeInv, Moves
    PROVE  Accounted(Links(omap'), stack', heap')
<1> DEFINE L == Links(omap)
           M == Links(omap')
           H == HeldObjects(L)
           G == HeldObjects(M)
<1>0. /\ Shape(stack) /\ Len(stack) \in Nat
      /\ stack = <<>> => Len(stack) = 0
      /\ stack # <<>> => Len(stack) > 0 /\ Len(stack) \in 1 .. Len(stack) /\ top = stack[Len(stack)]
  BY StackFacts DEF LifeInv
<1>a. Shape(stack') /\ Len(stack') \in Nat
  <2>1. Len(stack') \in Nat
    BY <1>0 DEF Moves, Stays, Linked, Touched, Begins, Made, Runs, Erases, Sweeps, Frees, Notified,
                Returns, Handled
  <2> QED
    BY <2>1, ShapeStep
<1>b. /\ heap = H \cup Making(stack) /\ H \cap Making(stack) = {}
      /\ \A l, k \in L : l.o = k.o /\ l.o # Null => l.dest = k.dest
  BY DEF LifeInv, Accounted
<1>c. \A l, k \in L : l.dest = k.dest /\ l.o # Null /\ k.o # Null => l = k
  BY HolderUnique DEF LifeInv
<1>d. Touched => Making(stack') = Making(stack)
  <2> SUFFICES ASSUME Touched PROVE Making(stack') = Making(stack)
    OBVIOUS
  <2>1. Len(stack') = Len(stack)
    BY DEF Touched
  <2>2. \A k \in 1 .. Len(stack) : /\ stack'[k].fn = stack[k].fn
                                   /\ stack'[k].at = stack[k].at /\ stack'[k].obj = stack[k].obj
    BY DEF Touched, Below, Alike
  <2> QED
    BY <2>1, <2>2 DEF Making
<1>e. SUFFICES /\ heap' = G \cup Making(stack') /\ G \cap Making(stack') = {}
               /\ \A l, k \in M : l.o = k.o /\ l.o # Null => l.dest = k.dest
  BY DEF Accounted
<1>f. \A x : (x \in H <=> x # Null /\ \E l \in L : l.o = x) /\ (x \in G <=> x # Null /\ \E l \in M : l.o = x)
  BY DEF HeldObjects
<1>g. L \subseteq [src : Nat, dest : Nat, o : Nat]
  BY StackFacts
<1> HIDE DEF H, G, L, M
<1>1. CASE Stays
  <2>1. M = L /\ heap' = heap /\ Making(stack') = Making(stack)
    BY <1>1, <1>d DEF Stays, L, M
  <2> QED
    BY <1>b, <1>f, <2>1
<1>2. CASE Linked
  <2>1. PICK d : M = L \cup {[src |-> top.oid, dest |-> d, o |-> Null]}
    BY <1>2 DEF Linked, L, M
  <2>2. heap' = heap /\ Making(stack') = Making(stack)
    BY <1>2, <1>d DEF Linked
  <2>3. \A l \in M : l \in L \/ l.o = Null
    BY <2>1
  <2>4. G = H
    BY <1>f, <2>1, <2>3
  <2> QED
    BY <1>b, <2>1, <2>2, <2>3, <2>4
<1>3. CASE Begins
  <2>1. M = L
    BY <1>3 DEF Begins, L, M
  <2>2. Making(stack) = {}
    BY <1>0, <1>3, MakingFacts DEF Begins
  <2>3. Making(stack') = {stack'[1].obj}
    <3>1. /\ Len(stack') = 1 /\ 1 > 0
          /\ stack'[1].fn \in {"create", "destroy"} /\ stack'[1].at = 0
      BY <1>3 DEF Begins
    <3> QED
      BY <1>a, <3>1, MakingFacts
  <2>4. stack'[1].obj \notin heap /\ heap' = heap \cup {stack'[1].obj}
    BY <1>3 DEF Begins
  <2> QED
    BY <1>b, <1>f, <2>1, <2>2, <2>3, <2>4
<1>4. CASE Made
  <2>1. /\ Len(stack) = 1 /\ stack[1].fn = "create" /\ stack[1].obj # Null /\ stack' = <<>>
        /\ heap' = heap
    BY <1>4 DEF Made
  <2>2. stack[1].at = 0
    BY <1>0, <2>1 DEF Shape
  <2>3. Making(stack) = {stack[1].obj} /\ Making(stack') = {}
    BY <1>0, <1>a, <2>1, <2>2, MakingFacts
  <2>4. PICK l \in L : LET k == [src |-> l.src, dest |-> l.dest, o |-> stack[1].obj]
                       IN  M \subseteq L \cup {k} /\ k \in M
    BY <1>4 DEF Made, L, M
  <2>5. \A k \in L : k.o # Null => k \in M
    BY <1>4 DEF Made, L, M
  <2> DEFINE k == [src |-> l.src, dest |-> l.dest, o |-> stack[1].obj]
  <2>6. k.o = stack[1].obj /\ k.o # Null /\ M \subseteq L \cup {k} /\ k \in M
    BY <2>1, <2>4
  <2> HIDE DEF k
  <2>7. G = H \cup {stack[1].obj}
    BY <1>f, <2>5, <2>6
  <2>8. \A j \in L : j.o # k.o
    BY <1>b, <1>f, <2>3, <2>6
  <2> QED
    BY <1>b, <2>1, <2>3, <2>6, <2>7, <2>8
<1>5. CASE Erases
  <2>1. PICK l \in L :
          /\ L = M \cup {l}
          /\ stack # <<>> => /\ top.fn \in {"create", "dispatch", "erase", "destroyed"}
                             /\ l.src = top.oid /\ (top.fn = "destroyed" => l.dest = top.peer)
          /\ \/ l.o = Null /\ Touched
             \/ /\ l.o # Null /\ ~Held(M, l.dest)
                /\ Len(stack') = Len(stack) + 1
                /\ LET f == stack'[Len(stack) + 1]
                   IN  f.fn = "destroy" /\ f.obj = l.o /\ f.at = 0
    BY <1>5 DEF Erases, L, M
  <2>2. heap' = heap
    BY <1>5 DEF Erases
  <2>3. CASE l.o = Null
    <3>1. G = H
      BY <1>f, <2>1, <2>3
    <3>2. Making(stack') = Making(stack)
      BY <1>d, <2>1, <2>3
    <3> QED
      BY <1>b, <2>1, <2>2, <3>1, <3>2
  <2>4. CASE l.o # Null
    <3>1. stack # <<>> => top.fn \in {"dispatch", "erase"}
      BY <2>1, <2>4, ErasesNone DEF L
    <3>2. Making(stack) = {}
      BY <1>0, <3>1, MakingFacts
    <3>3. Making(stack') = {l.o}
      <4>1. Len(stack') > 0
        BY <1>0, <2>1, <2>4
      <4> QED
        BY <1>a, <2>1, <2>4, <4>1, MakingFacts
    <3>4. \A k \in M : k.o # l.o
      BY <1>b, <2>1, <2>4 DEF Held
    <3>5. H = G \cup {l.o} /\ l.o \notin G
      BY <1>f, <2>1, <2>4, <3>4
    <3> QED
      BY <1>b, <2>1, <2>2, <3>2, <3>3, <3>5
  <2> QED
    BY <2>3, <2>4
<1>6. CASE Sweeps
  <2>1. M = L /\ heap' = heap
    BY <1>6 DEF Sweeps, L, M
  <2>2. Len(stack) = 0 /\ Len(stack') = 1 /\ stack'[1].at \in DOMAIN omap
    BY <1>0, <1>6 DEF Sweeps
  <2>3. stack'[1].at # 0
    <3>1. DOMAIN omap = 1 .. Len(omap) /\ Len(omap) \in Nat
      BY StackFacts
    <3> QED
      BY <2>2, <3>1
  <2>4. Making(stack) = {} /\ Making(stack') = {}
    BY <1>0, <1>a, <2>2, <2>3, MakingFacts
  <2> QED
    BY <1>b, <1>f, <2>1, <2>4
<1>7. CASE Frees
  <2>1. /\ stack # <<>> /\ top.fn = "destroy" /\ heap' = heap \ {top.obj} /\ top.obj # Null
        /\ Len(stack') = Len(stack) /\ stack'[Len(stack)].fn = "notify"
        /\ Len(stack) > 0 /\ top = stack[Len(stack)]
    BY <1>0, <1>7 DEF Frees
  <2>2. Making(stack') = {}
    BY <1>a, <2>1, MakingFacts
  <2>3. CASE top.at = 0
    <3>1. M = L
      BY <1>7, <2>3 DEF Frees, L, M
    <3>2. Making(stack) = {top.obj}
      BY <1>0, <2>1, <2>3, MakingFacts
    <3> QED
      BY <1>b, <1>f, <2>1, <2>2, <3>1, <3>2
  <2>4. CASE top.at # 0
    <3>1. Making(stack) = {}
      BY <1>0, <2>1, <2>4, MakingFacts
    <3>2. PICK l \in L : /\ l.dest = top.oid /\ l.o = top.obj
                         /\ M = (L \ {l}) \cup {[src |-> l.src, dest |-> l.dest, o |-> Null]}
      BY <1>7, <2>4 DEF Frees, L, M
    <3>3. \A k \in L : k.o = top.obj => k = l
      BY <1>b, <1>c, <2>1, <3>2
    <3> DEFINE n == [src |-> l.src, dest |-> l.dest, o |-> Null]
    <3>4. n.o = Null /\ M = (L \ {l}) \cup {n}
      BY <3>2
    <3> HIDE DEF n
    <3>5. G = H \ {top.obj}
      BY <1>f, <2>1, <3>2, <3>3, <3>4
    <3>6. \A i, k \in M : i.o = k.o /\ i.o # Null => i.dest = k.dest
      BY <1>b, <3>4
    <3> QED
      BY <1>b, <2>1, <2>2, <3>1, <3>5, <3>6
  <2> QED
    BY <2>3, <2>4
<1>8. CASE Runs \/ Notified \/ Returns \/ Handled
  <2>1. M = L /\ heap' = heap
    BY <1>8 DEF Runs, Notified, Returns, Handled, L, M
  <2>2. Making(stack) = {}
    <3>1. Len(stack) > 0 => top.fn \in {"notify", "forward", "destroyed", "failed", "erase", "dispatch"}
      BY <1>0, <1>8 DEF Runs, Notified, Returns, Handled
    <3> QED
      BY <1>0, <3>1, MakingFacts
  <2>3. Making(stack') = {}
    <3>1. CASE Runs
      <4>1. /\ Len(stack') = Len(stack) + 1
            /\ stack'[Len(stack) + 1].fn \in {"dispatch", "destroyed", "failed"}
        BY <3>1 DEF Runs
      <4> QED
        BY <1>a, <4>1, MakingFacts
    <3>2. CASE Notified
      <4>1. Len(stack') = Len(stack) /\ stack'[Len(stack)].fn = "erase"
        BY <3>2 DEF Notified
      <4> QED
        BY <1>a, <4>1, MakingFacts
    <3>3. CASE Returns
      <4>1. Len(stack') = Len(stack) - 1 /\ Below(Len(stack) - 1)
        BY <3>3 DEF Returns
      <4>2. ASSUME Len(stack') > 0
            PROVE  stack'[Len(stack')].fn \notin {"create", "destroy"}
        <5>1. /\ Len(stack') \in 1 .. Len(stack) /\ Len(stack') # Len(stack)
              /\ Len(stack') \in 1 .. Len(stack) - 1
          BY <1>0, <1>a, <4>1, <4>2
        <5>2. stack[Len(stack')].fn \notin {"create", "destroy"}
          BY <1>0, <5>1 DEF Shape
        <5> QED
          BY <4>1, <5>1, <5>2 DEF Below, Alike
      <4> QED
        BY <1>a, <4>2, MakingFacts
    <3>4. CASE Handled
      BY <1>a, <3>4, MakingFacts DEF Handled
    <3> QED
      BY <1>8, <3>1, <3>2, <3>3, <3>4
  <2> QED
    BY <1>b, <1>f, <2>1, <2>2, <2>3
<1> QED
  BY <1>1, <1>2, <1>3, <1>4, <1>5, <1>6, <1>7, <1>8 DEF Moves

-----------------------------------------------------------------------------
(* Sources and destinations *)

\* A method runs on an object.
LEMMA ObjectsThere ==
    ASSUME LifeInv, NEW k \in 1 .. Len(stack), stack[k].fn \in {"dispatch", "destroyed", "failed"}
    PROVE  /\ stack[k].obj # Null
           /\ \E l \in Links(omap) : l.dest = stack[k].oid /\ l.o = stack[k].obj /\ l.o # Null
<1>1. FrameOK(stack[k], inq)
  BY StackFacts DEF LifeInv, IInv, StackOK
<1>2. stack[k].obj # Null
  BY <1>1 DEF FrameOK, OnObject
<1> QED
  BY <1>2 DEF LifeInv, Framed

\* Nothing is made or destroyed below a method that a message or an error calls.
LEMMA NoneBelow ==
    ASSUME LifeInv, stack # <<>>, top.fn \in {"dispatch", "forward", "failed"}
    PROVE  \A k \in 1 .. Len(stack) : stack[k].fn \notin {"create"} \cup Destroying
<1>1. /\ Len(stack) \in 1 .. Len(stack) /\ top = stack[Len(stack)] /\ Shape(stack)
      /\ Len(stack) \in Nat
  BY StackFacts DEF LifeInv
<1>2. CASE top.fn \in {"dispatch", "forward"}
  <2>1. Len(stack) = 1
    BY <1>1, <1>2 DEF Shape
  <2>2. \A k \in 1 .. Len(stack) : stack[k] = top
    BY <1>1, <2>1
  <2> QED
    BY <1>2, <2>2 DEF Destroying
<1>3. CASE top.fn = "failed"
  <2>1. Len(stack) = 2 /\ stack[1].fn = "forward"
    BY <1>1, <1>3 DEF Shape
  <2>2. \A k \in 1 .. Len(stack) : stack[k] = top \/ stack[k].fn = "forward"
    BY <1>1, <2>1
  <2> QED
    BY <1>3, <2>2 DEF Destroying
<1> QED
  BY <1>2, <1>3

LEMMA SourcedStep ==
    ASSUME LifeInv, Moves
    PROVE  Sourced(Links(omap'), stack')
<1> DEFINE L == Links(omap)
           M == Links(omap')
           Transit(s, d) == \E k \in 1 .. Len(s) : s[k].fn \in {"create"} \cup Destroying /\ s[k].oid = d
<1>0. /\ Shape(stack) /\ Len(stack) \in Nat
      /\ stack = <<>> => Len(stack) = 0
      /\ stack # <<>> => Len(stack) > 0 /\ Len(stack) \in 1 .. Len(stack) /\ top = stack[Len(stack)]
  BY StackFacts DEF LifeInv
<1>a. \A l \in L : /\ l.dest # oid_Broadcast
                   /\ l.src = oid_Broadcast \/ Held(L, l.src) \/ Transit(stack, l.src)
  BY DEF LifeInv, Sourced
<1>b. SUFFICES \A l \in M : /\ l.dest # oid_Broadcast
                            /\ l.src = oid_Broadcast \/ Held(M, l.src) \/ Transit(stack', l.src)
  BY DEF Sourced
<1>c. ASSUME NEW k \in 1 .. Len(stack'), k \in 1 .. Len(stack), Alike(stack[k], stack'[k]),
             stack[k].fn \in {"create"} \cup Destroying
      PROVE  stack'[k].fn \in {"create"} \cup Destroying /\ stack'[k].oid = stack[k].oid
  BY <1>c DEF Alike, Destroying
<1>d. Touched => \A d : Transit(stack, d) => Transit(stack', d)
  BY <1>c DEF Touched, Below
<1>e. \A d : (Held(L, d) <=> \E l \in L : l.dest = d /\ l.o # Null)
          /\ (Held(M, d) <=> \E l \in M : l.dest = d /\ l.o # Null)
  BY DEF Held
<1> HIDE DEF L, M
<1>1. CASE Stays
  <2>1. M = L /\ Touched
    BY <1>1 DEF Stays, L, M
  <2> QED
    BY <1>a, <1>d, <2>1
<1>2. CASE Linked
  <2>1. PICK d \in Nat \ {top.oid, 0} : M = L \cup {[src |-> top.oid, dest |-> d, o |-> Null]}
    BY <1>2 DEF Linked, L, M
  <2>2. Touched /\ stack # <<>> /\ top.fn \in {"create", "dispatch"}
    BY <1>2 DEF Linked
  <2>3. Held(L, top.oid) \/ Transit(stack, top.oid)
    <3>1. CASE top.fn = "create"
      BY <1>0, <2>2, <3>1
    <3>2. CASE top.fn = "dispatch"
      BY <1>0, <1>e, <2>2, <3>2, ObjectsThere DEF L
    <3> QED
      BY <2>2, <3>1, <3>2
  <2>4. \A l \in M : l \in L \/ (l.src = top.oid /\ l.dest # oid_Broadcast)
    BY <2>1 DEF oid_Broadcast
  <2>5. \A e : Held(L, e) => Held(M, e)
    BY <1>e, <2>1
  <2> HIDE DEF Transit
  <2> QED
    BY <1>a, <1>d, <2>2, <2>3, <2>4, <2>5
<1>3. CASE Begins \/ Sweeps
  <2>1. M = L /\ Len(stack) = 0
    BY <1>0, <1>3 DEF Begins, Sweeps, L, M
  <2>2. \A d : ~Transit(stack, d)
    BY <2>1
  <2> QED
    BY <1>a, <2>1, <2>2
<1>4. CASE Made
  <2>1. Len(stack) = 1 /\ stack[1].obj # Null
    BY <1>4 DEF Made
  <2>2. PICK l \in L : /\ l.dest = stack[1].oid
                       /\ LET k == [src |-> l.src, dest |-> l.dest, o |-> stack[1].obj]
                          IN  M \subseteq L \cup {k} /\ k \in M
                       /\ \A k \in L : k.o # Null => k \in M
    BY <1>4 DEF Made, L, M
  <2>3. \A d : Transit(stack, d) => d = stack[1].oid
    BY <2>1
  <2>4. Held(M, stack[1].oid)
    BY <1>e, <2>1, <2>2
  <2>5. \A e : Held(L, e) => Held(M, e)
    BY <1>e, <2>2
  <2>6. \A j \in M : \E i \in L : j.src = i.src /\ j.dest = i.dest
    BY <2>2
  <2> HIDE DEF Transit
  <2> QED
    BY <1>a, <2>3, <2>4, <2>5, <2>6
<1>5. CASE Runs
  <2>1. M = L /\ Len(stack') = Len(stack) + 1 /\ Below(Len(stack))
    BY <1>5 DEF Runs, L, M
  <2>2. \A k \in 1 .. Len(stack) : k \in 1 .. Len(stack') /\ Alike(stack[k], stack'[k])
    BY <1>0, <2>1 DEF Below
  <2>3. \A d : Transit(stack, d) => Transit(stack', d)
    BY <1>c, <2>2
  <2> QED
    BY <1>a, <2>1, <2>3
<1>6. CASE Erases
  <2>1. PICK l \in L :
          /\ L = M \cup {l}
          /\ \/ l.o = Null /\ Touched
             \/ /\ l.o # Null /\ Len(stack') = Len(stack) + 1 /\ Below(Len(stack))
                /\ LET f == stack'[Len(stack) + 1]
                   IN  f.fn = "destroy" /\ f.oid = l.dest
    BY <1>6 DEF Erases, L, M
  <2>2. CASE l.o = Null
    <3>1. \A e : Held(L, e) => Held(M, e)
      BY <1>e, <2>1, <2>2
    <3>2. Touched /\ M \subseteq L
      BY <2>1, <2>2
    <3> HIDE DEF Transit
    <3> QED
      BY <1>a, <1>d, <3>1, <3>2
  <2>3. CASE l.o # Null
    <3>1. \A k \in 1 .. Len(stack) : k \in 1 .. Len(stack') /\ Alike(stack[k], stack'[k])
      BY <1>0, <2>1, <2>3 DEF Below
    <3>2. \A d : Transit(stack, d) => Transit(stack', d)
      BY <1>c, <3>1
    <3>3. Transit(stack', l.dest)
      <4>1. Len(stack) + 1 \in 1 .. Len(stack')
        BY <1>0, <2>1, <2>3
      <4> QED
        BY <2>1, <2>3, <4>1 DEF Destroying
    <3>4. \A e : Held(L, e) => Held(M, e) \/ e = l.dest
      BY <1>e, <2>1
    <3> HIDE DEF Transit
    <3> QED
      BY <1>a, <2>1, <3>2, <3>3, <3>4
  <2> QED
    BY <2>2, <2>3
<1>7. CASE Frees \/ Notified
  <2>1. /\ Len(stack') = Len(stack) /\ Below(Len(stack) - 1)
        /\ Len(stack) > 0 /\ stack[Len(stack)].fn \in {"destroy", "notify"} /\ top = stack[Len(stack)]
        /\ stack'[Len(stack)].fn \in {"notify", "erase"} /\ stack'[Len(stack)].oid = top.oid
    BY <1>0, <1>7 DEF Frees, Notified
  <2>2. Transit(stack', top.oid)
    BY <1>0, <2>1 DEF Destroying
  <2>3. \A k \in 1 .. Len(stack) : k # Len(stack) =>
          k \in 1 .. Len(stack') /\ Alike(stack[k], stack'[k])
    <3>1. \A k \in 1 .. Len(stack) : k # Len(stack) => k \in 1 .. Len(stack) - 1
      BY <1>0
    <3> QED
      BY <2>1, <3>1 DEF Below
  <2>4. \A d : Transit(stack, d) => Transit(stack', d)
    BY <1>c, <2>1, <2>2, <2>3
  <2>5. /\ \A j \in M : \E i \in L : j.src = i.src /\ j.dest = i.dest
        /\ \A e : Held(L, e) => Held(M, e) \/ e = top.oid
    <3>1. CASE M = L
      BY <3>1
    <3>2. CASE M # L
      <4>1. PICK l \in L : /\ l.dest = top.oid
                           /\ M = (L \ {l}) \cup {[src |-> l.src, dest |-> l.dest, o |-> Null]}
        BY <1>7, <3>2 DEF Frees, Notified, L, M
      <4> QED
        BY <1>e, <4>1
    <3> QED
      BY <3>1, <3>2
  <2> HIDE DEF Transit
  <2> QED
    BY <1>a, <2>2, <2>4, <2>5
<1>8. CASE Returns
  <2>1. /\ M = L /\ stack # <<>> /\ Len(stack') = Len(stack) - 1 /\ Below(Len(stack) - 1)
        /\ top.fn \in {"destroyed", "failed"} \/ \A l \in L : l.src # top.oid
    BY <1>8 DEF Returns, L, M
  <2>2. \A k \in 1 .. Len(stack) : k = Len(stack) \/ (k \in 1 .. Len(stack') /\ Alike(stack[k], stack'[k]))
    <3>1. \A k \in 1 .. Len(stack) : k = Len(stack) \/ k \in 1 .. Len(stack) - 1
      BY <1>0
    <3> QED
      BY <2>1, <3>1 DEF Below
  <2>3. ASSUME NEW l \in L, Transit(stack, l.src) PROVE Transit(stack', l.src)
    <3>1. PICK k \in 1 .. Len(stack) : stack[k].fn \in {"create"} \cup Destroying /\ stack[k].oid = l.src
      BY <2>3
    <3>2. k # Len(stack)
      BY <1>0, <2>1, <3>1 DEF Destroying
    <3> QED
      BY <1>c, <2>2, <3>1, <3>2
  <2> HIDE DEF Transit
  <2> QED
    BY <1>a, <2>1, <2>3
<1>9. CASE Handled
  <2>1. M = L
    BY <1>9 DEF Handled, L, M
  <2>2. \A d : ~Transit(stack, d)
    BY <1>9, NoneBelow DEF Handled
  <2> HIDE DEF Transit
  <2> QED
    BY <1>a, <2>1, <2>2
<1> QED
  BY <1>1, <1>2, <1>3, <1>4, <1>5, <1>6, <1>7, <1>8, <1>9 DEF Moves

-----------------------------------------------------------------------------
(* What runs, and what is destroyed *)

\* The creators of what is being destroyed under a message handler lead up to
\* its object: a link that erase drops does not hold that.
LEMMA HandlerStays ==
    ASSUME LifeInv, stack # <<>>, stack[1].fn = "dispatch", top.fn \in {"dispatch", "erase"},
           NEW l \in Links(omap), l.o # Null, l.src = top.oid
    PROVE  l.dest # stack[1].oid
<1> SUFFICES ASSUME l.dest = stack[1].oid PROVE FALSE
  OBVIOUS
<1> DEFINE n == Len(stack)
           E == Creators(Links(omap), stack)
           last == <<top.oid, stack[1].oid>>
           S == {<<stack[j].oid, stack[j + 1].oid>> : j \in 1 .. n - 1} \cup {last}
<1>1. /\ n \in Nat /\ n > 0 /\ n \in 1 .. n /\ top = stack[n] /\ Shape(stack)
  BY StackFacts DEF LifeInv
<1>2. ASSUME NEW j \in 1 .. n - 1 PROVE stack[j + 1].fn \in Destroying
  <2>1. j + 1 \in 1 .. n /\ j + 1 # 1
    BY <1>1
  <2>2. /\ stack[j + 1].fn \notin {"create", "dispatch", "forward", "failed"}
        /\ stack[j + 1].fn = "destroyed" => j + 1 = n
    BY <2>1, <1>1 DEF Shape
  <2>3. stack[j + 1].fn # "destroyed"
    BY <1>1, <2>2
  <2>4. stack[j + 1] \in Frame
    BY <2>1, StackFacts
  <2> QED
    BY <2>2, <2>3, <2>4 DEF Frame, Destroying
<1>3. last \in E
  BY DEF Creators
<1>4. \A j \in 1 .. n - 1 : <<stack[j].oid, stack[j + 1].oid>> \in E
  BY <1>2 DEF Creators
<1>5. Acyclic(E)
  BY DEF LifeInv
<1> DEFINE edge(j) == <<stack[j].oid, stack[j + 1].oid>>
<1>6. S = {edge(j) : j \in 1 .. n - 1} \cup {last}
  OBVIOUS
<1> HIDE DEF S, E
<1>7. S \subseteq E
  BY <1>3, <1>4, <1>6
<1>8. PICK e \in S : \A f \in S : e[1] # f[2]
  <2>1. S # {}
    BY <1>6
  <2> QED
    BY <1>5, <1>7, <2>1 DEF Acyclic
<1>9. ASSUME e[1] = stack[1].oid PROVE FALSE
  <2>1. last \in S /\ last[2] = stack[1].oid
    BY <1>6
  <2> QED
    BY <1>8, <1>9, <2>1
<1>10. ASSUME NEW j \in 1 .. n - 1, e[1] = stack[j + 1].oid PROVE FALSE
  <2>1. edge(j) \in S /\ edge(j)[2] = stack[j + 1].oid
    BY <1>6
  <2> QED
    BY <1>8, <1>10, <2>1
<1>11. ASSUME NEW k \in 1 .. n, e[1] = stack[k].oid PROVE FALSE
  <2>1. CASE k = 1
    BY <1>9, <1>11, <2>1
  <2>2. CASE k # 1
    <3>1. k - 1 \in 1 .. n - 1 /\ (k - 1) + 1 = k
      BY <1>1, <2>2
    <3> QED
      BY <1>10, <1>11, <3>1
  <2> QED
    BY <2>1, <2>2
<1>12. CASE e = last
  BY <1>1, <1>11, <1>12
<1>13. CASE e # last
  <2>1. PICK j \in 1 .. n - 1 : e = edge(j)
    BY <1>6, <1>13
  <2>2. j \in 1 .. n /\ e[1] = stack[j].oid
    BY <1>1, <2>1
  <2> QED
    BY <1>11, <2>2
<1> QED
  BY <1>12, <1>13

\* What Framed says of one function in progress.
FramedAt(L, f) ==
    /\ f.fn \in Destroying /\ f.at = 0 => ~Held(L, f.oid)
    /\ f.fn \in {"dispatch", "destroyed", "failed"} => \E l \in L : l.dest = f.oid /\ l.o = f.obj
    /\ f.fn = "create" =>
          /\ \E l \in L : l.dest = f.oid
          /\ \A l \in L : /\ l.dest = f.oid => l.o = Null
                          /\ l.src = f.oid => l.o = Null /\ l.dest # f.oid

LEMMA FramedStep ==
    ASSUME LifeInv, Moves
    PROVE  Framed(Links(omap'), stack')
<1> DEFINE L == Links(omap)
           M == Links(omap')
<1>0. /\ Shape(stack) /\ Len(stack) \in Nat
      /\ stack = <<>> => Len(stack) = 0
      /\ stack # <<>> => Len(stack) > 0 /\ Len(stack) \in 1 .. Len(stack) /\ top = stack[Len(stack)]
  BY StackFacts DEF LifeInv
<1>a. \A k \in 1 .. Len(stack) : FramedAt(L, stack[k])
  BY DEF LifeInv, Framed, FramedAt
<1>b. SUFFICES ASSUME NEW k \in 1 .. Len(stack')
               PROVE  FramedAt(M, stack'[k])
  BY DEF Framed, FramedAt
<1>c. \A X, f, g : FramedAt(X, f) /\ Alike(f, g) => FramedAt(X, g)
  <2> SUFFICES ASSUME NEW X, NEW f, NEW g, FramedAt(X, f), Alike(f, g)
               PROVE  FramedAt(X, g)
    OBVIOUS
  <2>1. CASE f.fn = "forward"
    BY <2>1 DEF FramedAt, Alike, Destroying
  <2>2. CASE f.fn # "forward"
    BY <2>2 DEF FramedAt, Alike
  <2> QED
    BY <2>1, <2>2
<1>d. \A X, d : Held(X, d) <=> \E l \in X : l.dest = d /\ l.o # Null
  BY DEF Held
<1>e. Touched => k \in 1 .. Len(stack) /\ Alike(stack[k], stack'[k])
  BY DEF Touched, Below
<1> HIDE DEF L, M
<1>1. CASE Stays
  <2>1. M = L /\ Touched
    BY <1>1 DEF Stays, L, M
  <2> QED
    BY <1>a, <1>c, <1>e, <2>1
<1>2. CASE Linked
  <2>1. PICK d \in Nat \ {top.oid, 0} : M = L \cup {[src |-> top.oid, dest |-> d, o |-> Null]}
    BY <1>2 DEF Linked, L, M
  <2>2. Touched /\ stack # <<>>
    BY <1>2 DEF Linked
  <2> DEFINE n == [src |-> top.oid, dest |-> d, o |-> Null]
  <2>3. M = L \cup {n} /\ n.o = Null /\ n.dest # top.oid
    BY <2>1
  <2> HIDE DEF n
  <2>4. \A e : Held(M, e) <=> Held(L, e)
    BY <1>d, <2>3
  <2>5. k \in 1 .. Len(stack) /\ FramedAt(L, stack[k])
    BY <1>a, <1>e, <2>2
  <2>6. stack[k].fn = "create" => stack[k] = top
    BY <1>0, <2>2, <2>5 DEF Shape
  <2>7. FramedAt(M, stack[k])
    BY <2>3, <2>4, <2>5, <2>6 DEF FramedAt
  <2> QED
    BY <1>c, <1>e, <2>2, <2>7
<1>3. CASE Begins
  <2>1. /\ M = L /\ Len(stack) = 0 /\ Len(stack') = 1 /\ stack'[1].fn = "create"
        /\ stack'[1].oid # oid_Broadcast /\ ~Held(L, stack'[1].oid)
        /\ \E l \in L : l.dest = stack'[1].oid
    BY <1>0, <1>3 DEF Begins, L, M
  <2>2. \A l \in L : l.src # stack'[1].oid
    BY <2>1 DEF LifeInv, Sourced, L
  <2>3. FramedAt(L, stack'[1])
    BY <1>d, <2>1, <2>2 DEF FramedAt, Destroying
  <2>4. k = 1
    BY <2>1
  <2> QED
    BY <2>1, <2>3, <2>4
<1>4. CASE Made
  BY <1>4 DEF Made
<1>5. CASE Runs
  <2>1. M = L /\ Len(stack') = Len(stack) + 1 /\ Below(Len(stack))
    BY <1>5 DEF Runs, L, M
  <2>2. CASE k = Len(stack) + 1
    <3>1. /\ stack'[k].fn \in {"dispatch", "destroyed", "failed"}
          /\ \E l \in L : l.dest = stack'[k].oid /\ l.o = stack'[k].obj
      BY <1>5, <2>2 DEF Runs, L
    <3> QED
      BY <2>1, <3>1 DEF FramedAt, Destroying
  <2>3. CASE k # Len(stack) + 1
    <3>1. k \in 1 .. Len(stack)
      BY <1>0, <2>1, <2>3
    <3> QED
      BY <1>a, <1>c, <2>1, <3>1 DEF Below
  <2> QED
    BY <2>2, <2>3
<1>6. CASE Erases
  <2>1. PICK l \in L :
          /\ L = M \cup {l}
          /\ stack # <<>> => /\ top.fn \in {"create", "dispatch", "erase", "destroyed"}
                             /\ l.src = top.oid /\ (top.fn = "destroyed" => l.dest = top.peer)
          /\ \/ l.o = Null /\ Touched
             \/ /\ l.o # Null /\ ~Held(M, l.dest)
                /\ Len(stack') = Len(stack) + 1 /\ Below(Len(stack))
                /\ LET f == stack'[Len(stack) + 1]
                   IN  f.fn = "destroy" /\ f.oid = l.dest
    BY <1>6 DEF Erases, L, M
  <2>2. CASE k \in 1 .. Len(stack)
    <3>0. stack # <<>> /\ FramedAt(L, stack[k]) /\ Alike(stack[k], stack'[k])
      <4>1. stack # <<>> /\ FramedAt(L, stack[k])
        BY <1>0, <1>a, <2>2
      <4>2. Below(Len(stack))
        BY <2>1 DEF Touched
      <4> QED
        BY <2>2, <4>1, <4>2 DEF Below
    <3>1. stack[k].fn \in Destroying /\ stack[k].at = 0 => ~Held(M, stack[k].oid)
      BY <1>d, <2>1, <3>0 DEF FramedAt
    <3>2. ASSUME stack[k].fn \in {"dispatch", "destroyed", "failed"}
          PROVE  \E j \in M : j.dest = stack[k].oid /\ j.o = stack[k].obj
      <4>1. PICK j \in L : j.dest = stack[k].oid /\ j.o = stack[k].obj /\ j.o # Null
        BY <2>2, <3>2, ObjectsThere DEF L
      <4>2. j # l
        <5> SUFFICES ASSUME j = l PROVE FALSE
          OBVIOUS
        <5>1. top.fn \in {"dispatch", "erase"}
          BY <2>1, <3>0, <4>1, ErasesNone DEF L
        <5>2. k = 1 /\ stack[k].fn = "dispatch"
          <6>1. stack[k].fn \in {"destroyed", "failed"} => stack[k] = top
            BY <1>0, <2>2, <3>0 DEF Shape
          <6>2. stack[k].fn = "dispatch"
            BY <3>2, <5>1, <6>1
          <6> QED
            BY <1>0, <2>2, <6>2 DEF Shape
        <5> QED
          BY <2>1, <3>0, <4>1, <5>1, <5>2, HandlerStays DEF L
      <4> QED
        BY <2>1, <4>1, <4>2
    <3>3. ASSUME stack[k].fn = "create"
          PROVE  /\ \E j \in M : j.dest = stack[k].oid
                 /\ \A j \in M : /\ j.dest = stack[k].oid => j.o = Null
                                 /\ j.src = stack[k].oid => j.o = Null /\ j.dest # stack[k].oid
      <4>1. stack[k] = top
        BY <1>0, <2>2, <3>0, <3>3 DEF Shape
      <4>2. l.dest # stack[k].oid
        BY <2>1, <3>0, <3>3, <4>1 DEF FramedAt
      <4> QED
        BY <2>1, <3>0, <3>3, <4>2 DEF FramedAt
    <3>4. FramedAt(M, stack[k])
      BY <3>1, <3>2, <3>3 DEF FramedAt
    <3> QED
      BY <1>c, <3>0, <3>4
  <2>3. CASE k \notin 1 .. Len(stack)
    <3>1. ~Touched
      BY <1>e, <2>3
    <3>2. k = Len(stack) + 1
      BY <1>0, <2>1, <2>3, <3>1
    <3>3. stack'[k].fn = "destroy" /\ ~Held(M, stack'[k].oid)
      BY <2>1, <3>1, <3>2
    <3> QED
      BY <3>3 DEF FramedAt
  <2> QED
    BY <2>2, <2>3
<1>7. CASE Sweeps
  <2>1. Len(stack') = 1 /\ stack'[1].fn = "destroy" /\ stack'[1].at \in DOMAIN omap
    BY <1>7 DEF Sweeps
  <2>2. stack'[1].at # 0
    <3>1. DOMAIN omap = 1 .. Len(omap) /\ Len(omap) \in Nat
      BY StackFacts
    <3> QED
      BY <2>1, <3>1
  <2>3. k = 1
    BY <2>1
  <2> QED
    BY <2>1, <2>2, <2>3 DEF FramedAt
<1>8. CASE Frees \/ Notified
  <2>1. /\ Len(stack') = Len(stack) /\ Below(Len(stack) - 1)
        /\ Len(stack) > 0 /\ stack[Len(stack)].fn \in {"destroy", "notify"} /\ top = stack[Len(stack)]
        /\ stack'[Len(stack)].fn \in {"notify", "erase"} /\ stack'[Len(stack)].oid = top.oid
        /\ Len(stack) \in 1 .. Len(stack)
    BY <1>0, <1>8 DEF Frees, Notified
  <2>2. \/ M = L /\ top.at = 0
        \/ /\ top.at # 0 /\ top.obj # Null
           /\ \E l \in L : /\ l.dest = top.oid /\ l.o = top.obj
                           /\ M = (L \ {l}) \cup {[src |-> l.src, dest |-> l.dest, o |-> Null]}
    <3>1. Notified => top.at = 0
      BY <1>0, <2>1 DEF Shape, Notified
    <3>2. Notified => M = L
      BY DEF Notified, L, M
    <3>3. Frees => \/ M = L /\ top.at = 0
                   \/ /\ top.at # 0 /\ top.obj # Null
                      /\ \E l \in L : /\ l.dest = top.oid /\ l.o = top.obj
                                      /\ M = (L \ {l}) \cup {[src |-> l.src, dest |-> l.dest, o |-> Null]}
      BY DEF Frees, L, M
    <3> QED
      BY <1>8, <3>1, <3>2, <3>3
  <2>3. ~Held(M, top.oid)
    <3>1. CASE M = L /\ top.at = 0
      BY <1>a, <2>1, <3>1 DEF FramedAt, Destroying
    <3>2. CASE top.at # 0 /\ top.obj # Null
      <4>1. PICK l \in L : /\ l.dest = top.oid /\ l.o = top.obj
                           /\ M = (L \ {l}) \cup {[src |-> l.src, dest |-> l.dest, o |-> Null]}
        BY <2>2, <3>2
      <4>2. \A j \in L : j.dest = top.oid /\ j.o # Null => j = l
        BY <3>2, <4>1, HolderUnique DEF LifeInv, L
      <4> QED
        BY <1>d, <4>1, <4>2
    <3> QED
      BY <2>2, <3>1, <3>2
  <2>4. CASE k = Len(stack)
    BY <2>1, <2>3, <2>4 DEF FramedAt
  <2>5. CASE k # Len(stack)
    <3>1. k \in 1 .. Len(stack) - 1 /\ k \in 1 .. Len(stack) /\ Len(stack) # 1
      BY <1>0, <2>1, <2>5
    <3>2. top.at = 0
      BY <1>0, <2>1, <3>1 DEF Shape
    <3>3. M = L
      BY <2>2, <3>2
    <3> QED
      BY <1>a, <1>c, <2>1, <3>1, <3>3 DEF Below
  <2> QED
    BY <2>4, <2>5
<1>9. CASE Returns
  <2>1. M = L /\ Len(stack') = Len(stack) - 1 /\ Below(Len(stack) - 1)
    BY <1>9 DEF Returns, L, M
  <2>2. k \in 1 .. Len(stack) - 1 /\ k \in 1 .. Len(stack)
    BY <1>0, <2>1
  <2> QED
    BY <1>a, <1>c, <2>1, <2>2 DEF Below
<1>10. CASE Handled
  <2>1. stack' = <<>> \/ (Len(stack') = 1 /\ stack'[1].fn = "forward")
    BY <1>10 DEF Handled
  <2>2. stack' # <<>>
    OBVIOUS
  <2>3. k = 1 /\ stack'[1].fn = "forward"
    <3>1. Len(stack') = 1 /\ stack'[1].fn = "forward"
      BY <2>1, <2>2, Zenon
    <3>2. \A n : n = 1 /\ k \in 1 .. n => k = 1
      OBVIOUS
    <3> QED
      BY <3>1, <3>2
  <2> QED
    BY <2>3 DEF FramedAt, Destroying
<1> QED
  BY <1>1, <1>2, <1>3, <1>4, <1>5, <1>6, <1>7, <1>8, <1>9, <1>10 DEF Moves

-----------------------------------------------------------------------------
(* Creators *)

LEMMA AcyclicSubset ==
    ASSUME NEW E, NEW F, Acyclic(E), F \subseteq E
    PROVE  Acyclic(F)
  BY DEF Acyclic

\* A creator that nobody was created by can have another object.
LEMMA AcyclicLeaf ==
    ASSUME NEW E, Acyclic(E), NEW a, NEW d, a # d, \A e \in E : e[1] # d
    PROVE  Acyclic(E \cup {<<a, d>>})
<1> SUFFICES ASSUME NEW S \in SUBSET (E \cup {<<a, d>>}), S # {}
             PROVE  \E e \in S : \A f \in S : e[1] # f[2]
  BY DEF Acyclic
<1>1. CASE S \subseteq E
  BY <1>1 DEF Acyclic
<1>2. CASE <<a, d>> \in S /\ S \ {<<a, d>>} # {}
  <2>1. PICK e \in S \ {<<a, d>>} : \A f \in S \ {<<a, d>>} : e[1] # f[2]
    <3>1. S \ {<<a, d>>} \in SUBSET E
      OBVIOUS
    <3> QED
      BY <1>2, <3>1 DEF Acyclic
  <2>2. e[1] # d
    BY <2>1
  <2> QED
    BY <2>1, <2>2
<1>3. CASE S = {<<a, d>>}
  BY <1>3
<1> QED
  BY <1>1, <1>2, <1>3

LEMMA CreatorsStep ==
    ASSUME LifeInv, Moves
    PROVE  Acyclic(Creators(Links(omap'), stack'))
<1> DEFINE L == Links(omap)
           M == Links(omap')
           C == Creators(L, stack)
           D == Creators(M, stack')
           edge(s, j) == <<s[j].oid, s[j + 1].oid>>
<1>0. /\ Shape(stack) /\ Len(stack) \in Nat
      /\ stack = <<>> => Len(stack) = 0
      /\ stack # <<>> => Len(stack) > 0 /\ Len(stack) \in 1 .. Len(stack) /\ top = stack[Len(stack)]
  BY StackFacts DEF LifeInv
<1>a. Acyclic(C)
  BY DEF LifeInv
<1>b. \A e : e \in C <=> \/ \E l \in L : l.o # Null /\ e = <<l.src, l.dest>>
                         \/ \E j \in 1 .. Len(stack) - 1 :
                               stack[j + 1].fn \in Destroying /\ e = edge(stack, j)
  BY DEF Creators
<1>c. \A e : e \in D <=> \/ \E l \in M : l.o # Null /\ e = <<l.src, l.dest>>
                         \/ \E j \in 1 .. Len(stack') - 1 :
                               stack'[j + 1].fn \in Destroying /\ e = edge(stack', j)
  BY DEF Creators
<1>d. SUFFICES Acyclic(D)
  OBVIOUS
<1> HIDE DEF C, D, L, M
<1>e. ASSUME \A l \in M : l.o # Null => l \in L,
             \A j \in 1 .. Len(stack') - 1 : stack'[j + 1].fn \in Destroying => edge(stack', j) \in C
      PROVE  Acyclic(D)
  <2>1. D \subseteq C
    BY <1>b, <1>c, <1>e
  <2> QED
    BY <1>a, <2>1, AcyclicSubset
<1>f. ASSUME NEW j \in 1 .. Len(stack) - 1, Alike(stack[j], stack'[j]),
             Alike(stack[j + 1], stack'[j + 1]), stack'[j + 1].fn \in Destroying
      PROVE  edge(stack', j) \in C
  <2>1. stack[j + 1].fn \in Destroying
    BY <1>f DEF Alike
  <2>2. stack[j].fn # "forward" /\ stack[j + 1].fn # "forward"
    <3>1. j \in 1 .. Len(stack) /\ j < Len(stack)
      BY <1>0
    <3>2. stack[j].fn = "forward" => stack[j + 1].fn = "failed"
      BY <1>0, <3>1 DEF Shape
    <3> QED
      BY <2>1, <3>2 DEF Destroying
  <2>3. edge(stack', j) = edge(stack, j)
    BY <1>f, <2>2 DEF Alike
  <2> QED
    BY <1>b, <2>1, <2>3
<1>g. ASSUME NEW n \in Nat, n <= Len(stack), Below(n), NEW j \in 1 .. n - 1,
             stack'[j + 1].fn \in Destroying
      PROVE  edge(stack', j) \in C
  <2>1. j \in 1 .. Len(stack) - 1 /\ j \in 1 .. n /\ j + 1 \in 1 .. n
    BY <1>0, <1>g
  <2> QED
    BY <1>f, <1>g, <2>1 DEF Below
<1>1. CASE Stays \/ Linked
  <2>1. Touched /\ \A l \in M : l.o # Null => l \in L
    <3>1. Stays => M = L /\ Touched
      BY DEF Stays, L, M
    <3>2. ASSUME Linked PROVE Touched /\ \A l \in M : l.o # Null => l \in L
      <4>1. PICK d : M = L \cup {[src |-> top.oid, dest |-> d, o |-> Null]}
        BY <3>2 DEF Linked, L, M
      <4> QED
        BY <3>2, <4>1 DEF Linked
    <3> QED
      BY <1>1, <3>1, <3>2
  <2>2. Len(stack') = Len(stack) /\ Below(Len(stack))
    BY <2>1 DEF Touched
  <2> QED
    BY <1>0, <1>e, <1>g, <2>1, <2>2
<1>2. CASE Begins \/ Sweeps
  <2>1. M = L /\ Len(stack') = 1
    BY <1>2 DEF Begins, Sweeps, L, M
  <2>2. \A j \in 1 .. Len(stack') - 1 : FALSE
    BY <2>1
  <2> QED
    BY <1>e, <2>1, <2>2
<1>3. CASE Made
  <2>1. Len(stack) = 1 /\ stack[1].fn = "create" /\ stack' = <<>>
    BY <1>3 DEF Made
  <2>2. PICK l \in L :
          /\ l.dest = stack[1].oid
          /\ M \subseteq L \cup {[src |-> l.src, dest |-> l.dest, o |-> stack[1].obj]}
    BY <1>3 DEF Made, L, M
  <2>3. /\ \A k \in L : k.src = stack[1].oid => k.o = Null /\ k.dest # stack[1].oid
    BY <2>1 DEF LifeInv, Framed, L
  <2>4. \A e \in C : e[1] # stack[1].oid
    <3>1. \A j \in 1 .. Len(stack) - 1 : FALSE
      BY <2>1
    <3>2. \A e \in C : \E k \in L : k.o # Null /\ e = <<k.src, k.dest>>
      BY <1>b, <3>1
    <3> QED
      BY <2>3, <3>2
  <2>5. l.src # stack[1].oid
    BY <2>2, <2>3
  <2>6. Acyclic(C \cup {<<l.src, stack[1].oid>>})
    BY <1>a, <2>4, <2>5, AcyclicLeaf
  <2>7. D \subseteq C \cup {<<l.src, stack[1].oid>>}
    <3>1. \A j \in 1 .. Len(stack') - 1 : FALSE
      BY <2>1
    <3>2. ASSUME NEW k \in M, k.o # Null PROVE <<k.src, k.dest>> \in C \cup {<<l.src, stack[1].oid>>}
      BY <1>b, <2>2, <3>2
    <3> QED
      BY <1>c, <3>1, <3>2
  <2> QED
    BY <2>6, <2>7, AcyclicSubset
<1>4. CASE Runs
  <2>1. M = L /\ Len(stack') = Len(stack) + 1 /\ Below(Len(stack))
        /\ stack'[Len(stack) + 1].fn \notin Destroying
    BY <1>4 DEF Runs, Destroying, L, M
  <2>2. ASSUME NEW j \in 1 .. Len(stack') - 1, stack'[j + 1].fn \in Destroying
        PROVE  edge(stack', j) \in C
    <3>1. j # Len(stack)
      BY <2>1, <2>2
    <3>2. j \in 1 .. Len(stack) - 1
      BY <1>0, <2>1, <3>1
    <3> QED
      BY <1>0, <1>g, <2>1, <2>2, <3>2
  <2> QED
    BY <1>e, <2>1, <2>2
<1>5. CASE Erases
  <2>1. PICK l \in L :
          /\ L = M \cup {l}
          /\ stack # <<>> => /\ top.fn \in {"create", "dispatch", "erase", "destroyed"}
                             /\ l.src = top.oid /\ (top.fn = "destroyed" => l.dest = top.peer)
          /\ \/ l.o = Null /\ Touched
             \/ /\ l.o # Null /\ Len(stack') = Len(stack) + 1 /\ Below(Len(stack))
                /\ LET f == stack'[Len(stack) + 1]
                   IN  f.fn = "destroy" /\ f.oid = l.dest
    BY <1>5 DEF Erases, L, M
  <2>2. CASE l.o = Null
    <3>1. Len(stack') = Len(stack) /\ Below(Len(stack))
      BY <2>1, <2>2 DEF Touched
    <3> QED
      BY <1>0, <1>e, <1>g, <2>1, <3>1
  <2>3. CASE l.o # Null
    <3>1. ASSUME NEW j \in 1 .. Len(stack') - 1, stack'[j + 1].fn \in Destroying
          PROVE  edge(stack', j) \in C
      <4>1. CASE j = Len(stack)
        <5>1. stack # <<>>
          BY <1>0, <4>1
        <5>2. top.fn \in {"dispatch", "erase"} /\ l.src = top.oid
          BY <2>1, <2>3, <5>1, ErasesNone DEF L
        <5>3. stack'[j].oid = top.oid
          BY <1>0, <2>1, <2>3, <4>1, <5>1, <5>2 DEF Below, Alike
        <5>4. edge(stack', j) = <<l.src, l.dest>>
          BY <2>1, <2>3, <4>1, <5>2, <5>3
        <5> QED
          BY <1>b, <2>3, <5>4
      <4>2. CASE j # Len(stack)
        <5>1. j \in 1 .. Len(stack) - 1
          BY <1>0, <2>1, <2>3, <4>2
        <5> QED
          BY <1>0, <1>g, <2>1, <2>3, <3>1, <5>1
      <4> QED
        BY <4>1, <4>2
    <3> QED
      BY <1>e, <2>1, <3>1
  <2> QED
    BY <2>2, <2>3
<1>6. CASE Frees \/ Notified
  <2>1. /\ Len(stack') = Len(stack) /\ Below(Len(stack) - 1)
        /\ Len(stack) > 0 /\ stack[Len(stack)].fn \in Destroying /\ top = stack[Len(stack)]
        /\ stack'[Len(stack)].oid = top.oid
    BY <1>0, <1>6 DEF Frees, Notified, Destroying
  <2>2. \A l \in M : l.o # Null => l \in L
    <3>1. CASE M = L
      BY <3>1
    <3>2. CASE M # L
      <4>1. PICK l \in L : M = (L \ {l}) \cup {[src |-> l.src, dest |-> l.dest, o |-> Null]}
        BY <1>6, <3>2 DEF Frees, Notified, L, M
      <4> QED
        BY <4>1
    <3> QED
      BY <3>1, <3>2
  <2>3. ASSUME NEW j \in 1 .. Len(stack') - 1, stack'[j + 1].fn \in Destroying
        PROVE  edge(stack', j) \in C
    <3>1. CASE j = Len(stack) - 1
      <4>1. j \in 1 .. Len(stack) - 1 /\ j + 1 = Len(stack) /\ j \in 1 .. Len(stack) /\ j < Len(stack)
        BY <1>0, <2>1, <3>1
      <4>2. stack[j].fn # "forward"
        <5>1. stack[j].fn = "forward" => stack[j + 1].fn = "failed"
          BY <1>0, <4>1 DEF Shape
        <5> QED
          BY <2>1, <4>1, <5>1 DEF Destroying
      <4>3. stack'[j].oid = stack[j].oid
        BY <2>1, <4>1, <4>2 DEF Below, Alike
      <4>4. edge(stack', j) = edge(stack, j)
        BY <2>1, <4>1, <4>3
      <4> QED
        BY <1>b, <2>1, <4>1, <4>4
    <3>2. CASE j # Len(stack) - 1
      <4>1. j \in 1 .. (Len(stack) - 1) - 1 /\ Len(stack) - 1 \in Nat /\ Len(stack) - 1 <= Len(stack)
        BY <1>0, <2>1, <3>2
      <4> QED
        BY <1>g, <2>1, <2>3, <4>1
    <3> QED
      BY <3>1, <3>2
  <2> QED
    BY <1>e, <2>2, <2>3
<1>7. CASE Returns
  <2>1. /\ M = L /\ stack # <<>> /\ Len(stack') = Len(stack) - 1 /\ Below(Len(stack) - 1)
    BY <1>7 DEF Returns, L, M
  <2>2. Len(stack) - 1 \in Nat /\ Len(stack) - 1 <= Len(stack)
    BY <1>0, <2>1
  <2> QED
    BY <1>e, <1>g, <2>1, <2>2
<1>8. CASE Handled
  <2>1. M = L
    BY <1>8 DEF Handled, L, M
  <2>2. Len(stack') \in {0, 1}
    BY <1>8 DEF Handled
  <2>3. \A n : n \in {0, 1} => \A j \in 1 .. n - 1 : FALSE
    OBVIOUS
  <2>4. \A j \in 1 .. Len(stack') - 1 : FALSE
    BY <2>2, <2>3
  <2> QED
    BY <1>e, <2>1, <2>4
<1> QED
  BY <1>1, <1>2, <1>3, <1>4, <1>5, <1>6, <1>7, <1>8 DEF Moves

-----------------------------------------------------------------------------
(* The invariant *)

LEMMA LifeStep ==
    ASSUME ActiveDtor = {}, LifeInv, [Next]_vars
    PROVE  LifeInv'
<1>1. IInv'
  BY StepOK DEF LifeInv
<1>2. Moves
  BY StepMoves
<1>3. InPlace'
  BY <1>1, <1>2, InPlaceStep
<1> QED
  BY <1>1, <1>2, <1>3, ShapeStep, AccountedStep, SourcedStep, FramedStep, CreatorsStep DEF LifeInv

LEMMA LifeInit == Init => LifeInv
<1> SUFFICES ASSUME Init PROVE LifeInv
  OBVIOUS
<1> DEFINE l == NewLink(oid_Broadcast, oid_App, AppIface)
<1>1. IInv
  BY InitOK
<1>2. /\ omap = <<l>> /\ heap = {} /\ stack = <<>> /\ Len(stack) = 0
      /\ l.src = oid_Broadcast /\ l.dest = oid_App /\ l.o = Null
  BY DEF Init, NewLink
<1> HIDE DEF l
<1>3. DOMAIN omap = {1} /\ omap[1] = l
  BY <1>2
<1>4. Links(omap) = {Bare(l)}
  BY <1>3 DEF Links
<1> DEFINE k == Bare(l)
<1>5. k.src = oid_Broadcast /\ k.dest # oid_Broadcast /\ k.o = Null
  BY <1>2 DEF Bare, oid_Broadcast, oid_App
<1>6. Links(omap) = {k}
  BY <1>4
<1> HIDE DEF k
<1>7. Shape(stack) /\ InPlace
  BY <1>2 DEF Shape, InPlace
<1>8. Accounted(Links(omap), stack, heap)
  BY <1>2, <1>5, <1>6 DEF Accounted, HeldObjects, Making
<1>9. Sourced(Links(omap), stack) /\ Framed(Links(omap), stack)
  BY <1>2, <1>5, <1>6 DEF Sourced, Framed
<1>10. Acyclic(Creators(Links(omap), stack))
  <2>1. \A j \in 1 .. Len(stack) - 1 : FALSE
    BY <1>2
  <2>2. Creators(Links(omap), stack) = {}
    BY <1>5, <1>6, <2>1 DEF Creators
  <2> QED
    BY <2>2 DEF Acyclic
<1> QED
  BY <1>1, <1>7, <1>8, <1>9, <1>10 DEF LifeInv

-----------------------------------------------------------------------------
(* The event loop *)

\* What the loop needs to know of a frame that changes: its bottom one is of a
\* message, or of an object that is being destroyed.
SameRole(f, g) ==
    \/ g.fn = f.fn /\ (f.fn # "forward" => g.oid = f.oid)
    \/ f.fn \in Destroying /\ g.fn \in Destroying

\* While something runs, frames stay what they are, and calls are made that may be.
Goes ==
    /\ Len(stack') > 0
    /\ \A k \in 1 .. Len(stack') :
        \/ k \in 1 .. Len(stack) /\ SameRole(stack[k], stack'[k])
        \/ k = Len(stack) + 1 /\ stack'[k].fn \in {"destroy", "destroyed"}
        \/ k = 2 /\ stack[1].fn = "forward" /\ stack'[k].fn = "failed"

LEMMA LoopKept ==
    ASSUME IInv, LoopInv, NEW fns, Running(fns), Goes, Len(stack') \in Nat,
           loop' \in {loop, "crashed"}, quitting => quitting',
           error' = "delivery" /\ ~quitting' => loop = "queues",
           inq # <<>> => inq' # <<>> /\ Head(inq').dest = Head(inq).dest
    PROVE  LoopInv'
<1>1. /\ Len(stack) \in Nat /\ Len(stack) > 0 /\ stack # <<>> /\ loop # "crashed"
      /\ 1 \in 1 .. Len(stack)
  BY TopFacts DEF Running
<1>2. 1 \in 1 .. Len(stack') /\ stack' # <<>>
  BY DEF Goes
<1>3. SameRole(stack[1], stack'[1])
  <2>1. Len(stack) + 1 # 1
    BY <1>1
  <2> QED
    BY <1>2, <2>1 DEF Goes
<1>4. loop \in {"queues", "sweep", "reset"} /\ loop' \in {"queues", "sweep", "reset", "crashed"}
  BY <1>1 DEF LoopInv
<1>5. /\ loop' = "queues" => stack'[1].fn \in {"create", "dispatch", "forward"}
      /\ loop' \in {"sweep", "reset"} => stack'[1].fn \in Destroying
      /\ stack'[1].fn \in {"create", "dispatch"} => inq' # <<>> /\ stack'[1].oid = Head(inq').dest
  BY <1>1, <1>3, <1>4 DEF LoopInv, SameRole, Destroying
<1>6. \A k \in 1 .. Len(stack') : stack'[k].fn \in {"create", "dispatch", "forward"} => k = 1
  <2> SUFFICES ASSUME NEW k \in 1 .. Len(stack'), stack'[k].fn \in {"create", "dispatch", "forward"}
               PROVE  k = 1
    OBVIOUS
  <2>1. k \in 1 .. Len(stack) /\ SameRole(stack[k], stack'[k])
    BY DEF Goes
  <2>2. stack[k].fn \in {"create", "dispatch", "forward"}
    BY <2>1 DEF SameRole, Destroying
  <2> QED
    BY <2>1, <2>2 DEF LoopInv
<1>7. \A k \in 1 .. Len(stack') : stack'[k].fn = "failed" => k = 2 /\ stack'[1].fn = "forward"
  <2> SUFFICES ASSUME NEW k \in 1 .. Len(stack'), stack'[k].fn = "failed"
               PROVE  k = 2 /\ stack[1].fn = "forward"
    BY <1>3 DEF SameRole, Destroying
  <2>1. CASE k \in 1 .. Len(stack) /\ SameRole(stack[k], stack'[k])
    BY <2>1 DEF SameRole, Destroying, LoopInv
  <2> QED
    BY <2>1 DEF Goes
<1>8. /\ loop' \in {"reset", "done"} => quitting'
      /\ loop' # "done"
  BY <1>4 DEF LoopInv
<1>9. error' = "delivery" /\ ~quitting' => loop' \in {"queues", "crashed"}
  OBVIOUS
<1> QED
  BY <1>2, <1>4, <1>5, <1>6, <1>7, <1>8, <1>9 DEF LoopInv

\* The library calls spend a call of the running method, and one may destroy.
LEMMA CalledRole ==
    ASSUME IInv, NEW fns, Running(fns), NEW f, f.fn = top.fn, f.oid = top.oid
    PROVE  LET s == [stack EXCEPT ![Len(stack)] = f]
           IN  Len(s) = Len(stack) /\ \A k \in 1 .. Len(stack) : SameRole(stack[k], s[k])
<1> DEFINE s == [stack EXCEPT ![Len(stack)] = f]
<1>1. /\ Len(stack) \in Nat /\ Len(stack) \in DOMAIN stack /\ DOMAIN stack = 1 .. Len(stack)
      /\ stack[Len(stack)] = top
  BY TopFacts
<1>2. /\ DOMAIN s = 1 .. Len(stack) /\ s[Len(stack)] = f
      /\ \A k \in 1 .. Len(stack) : k # Len(stack) => s[k] = stack[k]
  BY <1>1
<1>3. Len(s) = Len(stack)
  <2>1. \A n \in Nat : DOMAIN s = 1 .. n => Len(s) = n
    OBVIOUS
  <2> QED
    BY <1>1, <1>2, <2>1
<1> HIDE DEF s
<1>4. Len(s) = Len(stack) /\ \A k \in 1 .. Len(stack) : SameRole(stack[k], s[k])
  BY <1>1, <1>2, <1>3 DEF SameRole
<1> QED
  BY <1>4 DEF s

LEMMA CalledGoes ==
    ASSUME IInv, NEW fns, MayCall(fns)
    PROVE  /\ Running(fns) /\ Len(Called) = Len(stack) /\ Called \in Seq(Frame)
           /\ \A k \in 1 .. Len(stack) : SameRole(stack[k], Called[k])
<1>1. Running(fns)
  BY DEF MayCall
<1>2. Called \in Seq(Frame)
  <2>1. StackOK(Called, inq)
    BY CalledOK DEF IInv
  <2> QED
    BY <2>1 DEF StackOK
<1> DEFINE f == [top EXCEPT !.calls = top.calls - 1]
<1>3. f.fn = top.fn /\ f.oid = top.oid
  <2>1. top \in Frame
    BY <1>1, TopFacts
  <2> QED
    BY <2>1 DEF Frame
<1>4. Called = [stack EXCEPT ![Len(stack)] = f]
  BY <1>1, TopFacts DEF Called
<1> HIDE DEF f
<1> QED
  BY <1>1, <1>2, <1>3, <1>4, CalledRole

\* A stack of the same frames, and perhaps one more for the destructor.
LEMMA EraseGoes ==
    ASSUME IInv, NEW fns, Running(fns), NEW p \in DOMAIN omap, NEW fs \in Seq(Frame),
           Len(fs) = Len(stack), \A k \in 1 .. Len(stack) : SameRole(stack[k], fs[k]),
           casycom_destroy_link_at(p, fs)
    PROVE  /\ Goes /\ Len(stack') \in Nat
           /\ inq # <<>> => inq' # <<>> /\ Head(inq').dest = Head(inq).dest
<1>1. /\ stack' = IF omap[p].o = Null THEN fs ELSE Append(fs, DestroyFrame(omap[p], 0))
      /\ inq' = Orphaned(inq, p)
  BY DEF casycom_destroy_link_at
<1>2. Len(stack) \in Nat /\ Len(stack) > 0
  BY TopFacts
<1>3. Goes /\ Len(stack') \in Nat
  <2>1. CASE omap[p].o = Null
    <3>1. stack' = fs
      BY <1>1, <2>1
    <3> QED
      BY <1>2, <3>1 DEF Goes
  <2>2. CASE omap[p].o # Null
    <3> DEFINE f == DestroyFrame(omap[p], 0)
    <3>1. f.fn = "destroy"
      BY DEF DestroyFrame, NewFrame
    <3>2. f \in Frame
      <4>1. FrameOK(f, inq)
        BY <2>2, DestroyFrameOK DEF IInv, MapOK
      <4> QED
        BY <4>1 DEF FrameOK
    <3> HIDE DEF f
    <3>3. stack' = Append(fs, f)
      BY <1>1, <2>2 DEF f
    <3>4. /\ Len(stack') = Len(stack) + 1 /\ stack'[Len(stack) + 1] = f
          /\ \A k \in 1 .. Len(stack) : stack'[k] = fs[k]
      BY <3>2, <3>3, PushFacts
    <3>5. \A k \in 1 .. Len(stack') : k \in 1 .. Len(stack) \/ k = Len(stack) + 1
      BY <1>2, <3>4
    <3> QED
      BY <1>2, <3>1, <3>4, <3>5 DEF Goes
  <2> QED
    BY <2>1, <2>2
<1>4. inq # <<>> => inq' # <<>> /\ Head(inq').dest = Head(inq).dest
  <2> SUFFICES ASSUME inq # <<>> PROVE inq' # <<>> /\ Head(inq').dest = Head(inq).dest
    OBVIOUS
  <2>1. inq \in Seq(Msg) /\ 1 \in DOMAIN inq /\ Head(inq) = inq[1] /\ inq[1] \in Msg
    BY DEF IInv
  <2>2. inq' \in Seq(Msg) /\ inq' # <<>>
    BY <1>1, <2>1, OrphanedOK
  <2>3. inq'[1].dest = inq[1].dest
    <3>1. PICK b : inq'[1] = [inq[1] EXCEPT !.stale = b]
      BY <1>1, <2>1 DEF Orphaned
    <3> QED
      BY <2>1, <3>1 DEF Msg
  <2> QED
    BY <2>1, <2>2, <2>3
<1> QED
  BY <1>3, <1>4

\* A library call keeps the invariant: an error is one of a delivery only if it
\* is set while messages are delivered, or was such a one before.
LEMMA LoopLibrary ==
    ASSUME IInv, LoopInv, LibraryCall
    PROVE  LoopInv'
<1>a. ASSUME NEW fns, MayCall(fns), stack' = Called, inq' = inq, loop' = loop,
             quitting => quitting', error' = "delivery" /\ ~quitting' => loop = "queues"
      PROVE  LoopInv'
  <2>1. /\ Running(fns) /\ Len(stack') = Len(stack)
        /\ \A k \in 1 .. Len(stack) : SameRole(stack[k], stack'[k])
    BY <1>a, CalledGoes
  <2>2. Len(stack) \in Nat /\ Len(stack) > 0
    BY <2>1, TopFacts
  <2>3. Goes
    BY <2>1, <2>2 DEF Goes
  <2> QED
    BY <1>a, <2>1, <2>2, <2>3, LoopKept
<1>b. ASSUME NEW fns, MayCall(fns), error = "delivery", ~quitting PROVE loop = "queues"
  <2>1. Running(fns)
    BY <1>b DEF MayCall
  <2>2. loop # "crashed" /\ stack # <<>>
    BY <2>1 DEF Running
  <2> QED
    BY <1>b, <2>2 DEF LoopInv
<1>c. ASSUME NEW fns, MayCall(fns), CalledInserting, inq' = inq, loop' = loop,
             error' = error, quitting' = quitting
      PROVE  LoopInv'
  <2>1. PICK at : stack' = [stack EXCEPT ![Len(stack)].calls = @ - 1, ![Len(stack)].at = at]
    BY <1>c DEF CalledInserting
  <2>2. Running(fns)
    BY <1>c DEF MayCall
  <2>3. /\ Len(stack) \in Nat /\ Len(stack) > 0 /\ top \in Frame /\ top = stack[Len(stack)]
        /\ Len(stack) \in DOMAIN stack
    BY <2>2, TopFacts
  <2> DEFINE f == [top EXCEPT !.calls = top.calls - 1, !.at = at]
  <2>4. f.fn = top.fn /\ f.oid = top.oid
    BY <2>3 DEF Frame
  <2>5. stack' = [stack EXCEPT ![Len(stack)] = f]
    BY <2>1, <2>3
  <2> HIDE DEF f
  <2>6. Len(stack') = Len(stack) /\ \A k \in 1 .. Len(stack) : SameRole(stack[k], stack'[k])
    BY <2>2, <2>4, <2>5, CalledRole
  <2>7. Goes /\ Len(stack') \in Nat
    BY <2>3, <2>6 DEF Goes
  <2> QED
    BY <1>b, <1>c, <2>2, <2>7, LoopKept
<1>1. CASE CreateProxy
  <2>1. /\ MayCall({"create", "dispatch", "destroy"}) /\ CalledInserting
        /\ inq' = inq /\ loop' = loop /\ error' = error /\ quitting' = quitting
    BY <1>1 DEF CreateProxy
  <2> QED
    BY <1>c, <2>1
<1>2. CASE CreateProxyTo
  <2>1. /\ MayCall({"create", "dispatch", "destroy"}) /\ CalledInserting
        /\ inq' = inq /\ loop' = loop /\ error' = error /\ quitting' = quitting
    BY <1>2 DEF CreateProxyTo
  <2> QED
    BY <1>c, <2>1
<1>3. CASE casycom_destroy_proxy
  <2>1. /\ MayCall({"create", "dispatch", "destroyed"}) /\ loop' = loop
        /\ error' = error /\ quitting' = quitting
    BY <1>3 DEF casycom_destroy_proxy
  <2>2. PICK p \in DOMAIN omap : casycom_destroy_link_at(p, Called)
    BY <1>3 DEF casycom_destroy_proxy
  <2>3. /\ Running({"create", "dispatch", "destroyed"}) /\ Len(Called) = Len(stack)
        /\ Called \in Seq(Frame) /\ \A k \in 1 .. Len(stack) : SameRole(stack[k], Called[k])
    BY <2>1, CalledGoes
  <2>4. /\ Goes /\ Len(stack') \in Nat
        /\ inq # <<>> => inq' # <<>> /\ Head(inq').dest = Head(inq).dest
    BY <2>2, <2>3, EraseGoes
  <2> QED
    BY <1>b, <2>1, <2>3, <2>4, LoopKept
<1>4. CASE casycom_queue_message
  <2>1. /\ MayCall({"create", "dispatch", "destroy", "destroyed", "failed"}) /\ stack' = Called
        /\ inq' = inq /\ loop' = loop /\ error' = error /\ quitting' = quitting
    BY <1>4 DEF casycom_queue_message
  <2> QED
    BY <1>a, <1>b, <2>1
<1>5. CASE casycom_mark_unused
  <2>1. /\ MayCall({"create", "dispatch", "destroy", "destroyed", "failed"}) /\ stack' = Called
        /\ inq' = inq /\ loop' = loop /\ error' = error /\ quitting' = quitting
    BY <1>5 DEF casycom_mark_unused
  <2> QED
    BY <1>a, <1>b, <2>1
<1>6. CASE casycom_error
  <2>1. /\ MayCall({"create", "dispatch", "destroy", "failed"}) /\ stack' = Called
        /\ inq' = inq /\ loop' = loop /\ quitting' = quitting
        /\ error' = IF loop = "queues" THEN "delivery"
                    ELSE IF error = "none" THEN "idle" ELSE error
    BY <1>6 DEF casycom_error
  <2>2. error' = "delivery" /\ ~quitting' => loop = "queues"
    BY <1>b, <2>1
  <2> QED
    BY <1>a, <2>1, <2>2
<1>7. CASE casycom_quit
  <2>1. /\ MayCall({"dispatch"}) /\ stack' = Called /\ inq' = inq /\ loop' = loop
        /\ quitting' = TRUE
    BY <1>7 DEF casycom_quit
  <2> QED
    BY <1>a, <2>1
<1> QED
  BY <1>1, <1>2, <1>3, <1>4, <1>5, <1>6, <1>7 DEF LibraryCall

\* The message in delivery is to an object that is there, once it has been made.
LEMMA LoopMessage ==
    ASSUME IInv, IInv', LoopInv, MessageStep
    PROVE  LoopInv'
<1>0. omap \in Seq(MsgLink) /\ omap' \in Seq(MsgLink)
  BY DEF IInv, MapOK
<1>1. CASE DropMessage
  <2>1. /\ loop = "queues" /\ stack = <<>> /\ inq # <<>> /\ Head(inq).dest \notin Dests(omap)
        /\ omap' = omap /\ stack' = stack /\ loop' = loop /\ error' = error /\ quitting' = quitting
    BY <1>1 DEF DropMessage, Delivering
  <2>2. ~Held(Links(omap), Head(inq).dest)
    <3> SUFFICES ASSUME NEW l \in Links(omap), l.dest = Head(inq).dest PROVE FALSE
      BY DEF Held
    <3>1. PICK p \in DOMAIN omap : l.dest = omap[p].dest
      BY <1>0, LinksFacts
    <3> QED
      BY <2>1, <3>1 DEF Dests
  <2>3. ~(error = "delivery" /\ ~quitting)
    BY <2>1, <2>2 DEF LoopInv
  <2> QED
    BY <2>1, <2>3 DEF LoopInv
<1>a. ASSUME NEW f, stack' = <<f>>, loop' = "queues", f.fn \in {"create", "dispatch", "forward"},
             f.fn \in {"create", "dispatch"} => inq' # <<>> /\ f.oid = Head(inq').dest
      PROVE  LoopInv'
  <2>1. stack' # <<>> /\ stack'[1] = f /\ \A k \in 1 .. Len(stack') : k = 1
    BY <1>a
  <2> QED
    BY <1>a, <2>1 DEF LoopInv
<1>2. CASE casycom_create_link_object
  <2>1. /\ loop' = "queues" /\ inq' = inq /\ inq # <<>>
        /\ \E n : stack' = <<NewFrame("create", Head(inq).dest, n, Head(inq).src, 0, <<>>, MaxCalls)>>
    BY <1>2 DEF casycom_create_link_object, Delivering
  <2> QED
    BY <1>a, <2>1, FrameFields
<1>b. ASSUME NEW fn \in {"create", "dispatch"}, Running({fn})
      PROVE  /\ Len(stack) = 1 /\ top = stack[1] /\ loop = "queues" /\ top.fn = fn
             /\ inq # <<>> /\ top.oid = Head(inq).dest
  <2>1. /\ loop # "crashed" /\ stack # <<>> /\ Len(stack) \in 1 .. Len(stack)
        /\ top = stack[Len(stack)] /\ top.fn = fn
    <3>1. loop # "crashed"
      BY <1>b DEF Running
    <3>2. /\ Len(stack) \in Nat /\ Len(stack) > 0 /\ stack # <<>>
          /\ top = stack[Len(stack)] /\ top.fn \in {fn}
      BY <1>b, TopFacts
    <3>3. Len(stack) \in 1 .. Len(stack)
      BY <3>2
    <3> QED
      BY <3>1, <3>2, <3>3
  <2>2. Len(stack) = 1
    BY <1>b, <2>1 DEF LoopInv
  <2> QED
    BY <1>b, <2>1, <2>2 DEF LoopInv, Destroying
<1>3. CASE CreateReturns
  <2>1. /\ Running({"create"}) /\ stack' = Pop(stack)
        /\ inq' = inq /\ loop' = loop /\ error' = error /\ quitting' = quitting
    BY <1>3 DEF CreateReturns
  <2>2. /\ Len(stack) = 1 /\ loop = "queues" /\ top.fn = "create"
        /\ inq # <<>> /\ top.oid = Head(inq).dest
    BY <1>b, <2>1
  <2>3. stack' = <<>>
    <3>1. stack \in Seq(Frame) /\ stack # <<>>
      BY <2>1, TopFacts
    <3>2. stack' \in Seq(Frame) /\ Len(stack') = 0
      BY <2>1, <2>2, <3>1, PopFacts
    <3> QED
      BY <3>2
  <2>4. PICK p \in DOMAIN omap :
          /\ IsDestination(omap, top.oid, p)
          /\ omap' = [omap EXCEPT ![p].o = top.obj]
    BY <1>3 DEF CreateReturns
  <2>5. top.obj # Null
    BY <2>1, <2>2, TopOK DEF IInv, FrameOK, OnObject
  <2>6. p \in DOMAIN omap' /\ omap'[p].o # Null /\ omap'[p].dest = Head(inq).dest
    <3>1. omap[p] \in MsgLink /\ omap[p].dest = top.oid
      BY <1>0, <2>4 DEF IsDestination
    <3>2. omap'[p] = [omap[p] EXCEPT !.o = top.obj] /\ p \in DOMAIN omap'
      BY <2>4
    <3> QED
      BY <2>2, <2>5, <3>1, <3>2 DEF MsgLink
  <2>7. Held(Links(omap'), Head(inq').dest)
    <3>1. /\ Bare(omap'[p]) \in Links(omap') /\ Bare(omap'[p]).o = omap'[p].o
          /\ Bare(omap'[p]).dest = omap'[p].dest
      BY <1>0, <2>6, LinksFacts
    <3> QED
      BY <2>1, <2>6, <3>1 DEF Held
  <2>8. \A k \in 1 .. Len(stack') : FALSE
    BY <2>3
  <2> QED
    BY <2>1, <2>2, <2>3, <2>7, <2>8 DEF LoopInv
<1>4. CASE Dispatch
  <2>1. /\ loop = "queues" /\ stack = <<>> /\ inq # <<>> /\ inq' = inq
        /\ omap' = omap /\ error' = error /\ quitting' = quitting
    BY <1>4 DEF Dispatch, Delivering
  <2>2. \/ stack' = stack /\ loop' = "crashed"
        \/ /\ loop' = loop
           /\ \E o : stack' = <<NewFrame("dispatch", Head(inq).dest, o, Head(inq).src, 0, <<>>, MaxCalls)>>
    BY <1>4 DEF Dispatch
  <2>3. CASE stack' = stack /\ loop' = "crashed"
    BY <2>1, <2>3 DEF LoopInv
  <2>4. CASE /\ loop' = loop
             /\ \E o : stack' = <<NewFrame("dispatch", Head(inq).dest, o, Head(inq).src, 0, <<>>, MaxCalls)>>
    BY <1>a, <2>1, <2>4, FrameFields
  <2> QED
    BY <2>2, <2>3, <2>4
<1>5. CASE DispatchReturns
  <2>1. Running({"dispatch"}) /\ loop' = loop /\ error' = error /\ quitting' = quitting
    BY <1>5 DEF DispatchReturns
  <2>2. loop = "queues"
    BY <1>b, <2>1
  <2>3. CASE error # "none"
    <3>1. stack' = <<NewFrame("forward", Head(inq).dest, 0, Head(inq).dest, 0, <<>>, 0)>>
      BY <1>5, <2>3 DEF DispatchReturns
    <3> QED
      BY <1>a, <2>1, <2>2, <3>1, FrameFields
  <2>4. CASE error = "none"
    <3>1. stack' = <<>>
      BY <1>5, <2>4 DEF DispatchReturns
    <3>2. \A k \in 1 .. Len(stack') : FALSE
      BY <3>1
    <3> QED
      BY <2>1, <2>2, <2>4, <3>1, <3>2 DEF LoopInv
  <2> QED
    BY <2>3, <2>4
<1>6. CASE SwapQueues
  <2>1. /\ loop = "queues" /\ stack = <<>> /\ inq = <<>> /\ loop' = "idle"
        /\ omap' = omap /\ stack' = stack /\ error' = error /\ quitting' = quitting
    BY <1>6 DEF SwapQueues
  <2>2. ~(error = "delivery" /\ ~quitting)
    BY <2>1 DEF LoopInv
  <2> QED
    BY <2>1, <2>2 DEF LoopInv
<1> QED
  BY <1>1, <1>2, <1>3, <1>4, <1>5, <1>6 DEF MessageStep

\* What a running function tells of the loop.
LEMMA RunningLoop ==
    ASSUME IInv, LoopInv, NEW fns, Running(fns)
    PROVE  /\ loop \in {"queues", "sweep", "reset"} /\ stack # <<>>
           /\ error = "delivery" /\ ~quitting => loop = "queues"
           /\ Len(stack) \in Nat /\ Len(stack) > 0 /\ Len(stack) \in 1 .. Len(stack)
           /\ top = stack[Len(stack)] /\ top.fn \in fns /\ top \in Frame
           /\ stack \in Seq(Frame) /\ DOMAIN stack = 1 .. Len(stack)
           /\ 1 \in 1 .. Len(stack) /\ SameRole(stack[1], stack[1])
<1>1. loop # "crashed"
  BY DEF Running
<1>2. /\ Len(stack) \in Nat /\ Len(stack) > 0 /\ stack # <<>> /\ top \in Frame
      /\ top = stack[Len(stack)] /\ top.fn \in fns /\ stack \in Seq(Frame)
      /\ DOMAIN stack = 1 .. Len(stack)
  BY TopFacts
<1>3. Len(stack) \in 1 .. Len(stack) /\ 1 \in 1 .. Len(stack)
  BY <1>2
<1> QED
  BY <1>1, <1>2, <1>3 DEF LoopInv, SameRole

LEMMA LoopError ==
    ASSUME IInv, LoopInv, ErrorStep
    PROVE  LoopInv'
<1>a. ASSUME NEW fns, Running(fns), stack' = <<>>, loop' = loop, ~(error' = "delivery" /\ ~quitting'),
             quitting => quitting'
      PROVE  LoopInv'
  <2>1. loop \in {"queues", "sweep", "reset"}
    BY <1>a, RunningLoop
  <2>2. \A k \in 1 .. Len(stack') : FALSE
    BY <1>a
  <2> QED
    BY <1>a, <2>1, <2>2 DEF LoopInv
<1>1. CASE ErrorUnhandled
  BY <1>1, <1>a DEF ErrorUnhandled
<1>2. CASE ErrorHandled
  BY <1>2, <1>a DEF ErrorHandled
<1>3. CASE casycom_forward_error
  <2>1. /\ Running({"forward"}) /\ inq' = inq /\ loop' = loop /\ error' = error
        /\ quitting' = quitting
    BY <1>3 DEF casycom_forward_error
  <2>2. PICK p \in DOMAIN omap :
          \/ stack' = Append(stack, NewFrame("failed", top.oid, omap[p].o, top.peer,
                                             0, <<>>, MaxCalls))
          \/ stack' = Forwarded(stack, p)
    BY <1>3 DEF casycom_forward_error
  <2>3. /\ Len(stack) \in 1 .. Len(stack) /\ top = stack[Len(stack)] /\ top.fn = "forward"
        /\ top \in Frame /\ stack \in Seq(Frame) /\ DOMAIN stack = 1 .. Len(stack)
        /\ (error = "delivery" /\ ~quitting => loop = "queues") /\ SameRole(stack[1], stack[1])
    BY <2>1, RunningLoop
  <2>4. Len(stack) = 1
    BY <2>3 DEF LoopInv
  <2>5. CASE stack' = Forwarded(stack, p)
    <3> DEFINE f == [top EXCEPT !.peer = top.oid, !.oid = omap[p].src]
    <3>1. f.fn = "forward"
      BY <2>3 DEF Frame
    <3>2. stack' = [stack EXCEPT ![1] = f]
      BY <2>3, <2>4, <2>5 DEF Forwarded
    <3> HIDE DEF f
    <3>3. Len(stack') = 1 /\ stack'[1] = f
      BY <2>3, <2>4, <3>2
    <3>4. Goes
      BY <2>3, <2>4, <3>1, <3>3 DEF Goes, SameRole
    <3> QED
      BY <2>1, <2>3, <3>3, <3>4, LoopKept
  <2>6. CASE stack' = Append(stack, NewFrame("failed", top.oid, omap[p].o, top.peer,
                                             0, <<>>, MaxCalls))
    <3> DEFINE f == NewFrame("failed", top.oid, omap[p].o, top.peer, 0, <<>>, MaxCalls)
    <3>1. f.fn = "failed"
      BY FrameFields
    <3>2. f \in Frame
      <4>1. top.oid \in Nat /\ top.peer \in Nat
        BY <2>3 DEF Frame, Oid
      <4>2. omap[p].o \in Nat
        BY LinkFields DEF IInv, MapOK, MsgLink
      <4> QED
        BY <4>1, <4>2, CasycomAssumption DEF NewFrame, Frame, Oid
    <3> HIDE DEF f
    <3>3. stack' = Append(stack, f)
      BY <2>6 DEF f
    <3>4. Len(stack') = Len(stack) + 1 /\ stack'[Len(stack) + 1] = f
          /\ \A k \in 1 .. Len(stack) : stack'[k] = stack[k]
      BY <2>3, <3>2, <3>3, PushFacts
    <3>5. Len(stack') = 2 /\ stack'[2] = f /\ stack'[1] = stack[1]
      BY <2>4, <3>4
    <3>6. \A k \in 1 .. Len(stack') : k = 1 \/ k = 2
      BY <3>5
    <3>7. Goes
      BY <2>3, <2>4, <3>1, <3>5, <3>6 DEF Goes
    <3> QED
      BY <2>1, <2>3, <3>5, <3>7, LoopKept
  <2> QED
    BY <2>2, <2>5, <2>6
<1>4. CASE ErrorDeclined
  <2>1. /\ Running({"failed"}) /\ inq' = inq /\ loop' = loop /\ error' = error
        /\ quitting' = quitting
    BY <1>4 DEF ErrorDeclined
  <2>2. PICK p \in DOMAIN omap : stack' = Forwarded(Pop(stack), p)
    BY <1>4 DEF ErrorDeclined
  <2>3. /\ Len(stack) \in 1 .. Len(stack) /\ top = stack[Len(stack)] /\ top.fn = "failed"
        /\ stack \in Seq(Frame) /\ stack # <<>> /\ DOMAIN stack = 1 .. Len(stack)
        /\ (error = "delivery" /\ ~quitting => loop = "queues") /\ SameRole(stack[1], stack[1])
    BY <2>1, RunningLoop
  <2>4. Len(stack) = 2 /\ stack[1].fn = "forward"
    BY <2>3 DEF LoopInv
  <2>5. Pop(stack) \in Seq(Frame) /\ Len(Pop(stack)) = 1 /\ Pop(stack)[1] = stack[1]
    <3>1. Len(stack) - 1 = 1 /\ 1 \in 1 .. 1
      BY <2>4
    <3>2. /\ Pop(stack) \in Seq(Frame) /\ Len(Pop(stack)) = Len(stack) - 1
          /\ \A k \in 1 .. Len(stack) - 1 : Pop(stack)[k] = stack[k]
      BY <2>3, PopFacts
    <3> QED
      BY <3>1, <3>2
  <2> DEFINE f == [stack[1] EXCEPT !.peer = stack[1].oid, !.oid = omap[p].src]
  <2>6. f.fn = "forward"
    <3>1. stack[1] \in Frame
      BY <2>3, <2>4
    <3> QED
      BY <2>4, <3>1 DEF Frame
  <2>7. stack' = [Pop(stack) EXCEPT ![1] = f]
    BY <2>2, <2>5 DEF Forwarded
  <2> HIDE DEF f
  <2>8. Len(stack') = 1 /\ stack'[1] = f /\ 1 \in 1 .. Len(stack)
    BY <2>4, <2>5, <2>7
  <2>9. Goes
    BY <2>4, <2>6, <2>8 DEF Goes, SameRole
  <2> QED
    BY <2>1, <2>3, <2>8, <2>9, LoopKept
<1> QED
  BY <1>1, <1>2, <1>3, <1>4 DEF ErrorStep

LEMMA LoopDestroy ==
    ASSUME IInv, LoopInv, DestroyStep
    PROVE  LoopInv'
<1>a. ASSUME NEW fns, Running(fns), fns \subseteq Destroying, NEW f, f.fn \in Destroying,
             stack' = [stack EXCEPT ![Len(stack)] = f],
             inq' = inq, loop' = loop, error' = error, quitting' = quitting
      PROVE  LoopInv'
  <2>1. /\ Len(stack) \in Nat /\ Len(stack) > 0 /\ DOMAIN stack = 1 .. Len(stack)
        /\ stack[Len(stack)].fn \in Destroying /\ Len(stack) \in DOMAIN stack
        /\ (error = "delivery" /\ ~quitting => loop = "queues")
    BY <1>a, RunningLoop
  <2>2. /\ DOMAIN stack' = 1 .. Len(stack) /\ stack'[Len(stack)] = f
        /\ \A k \in 1 .. Len(stack) : k # Len(stack) => stack'[k] = stack[k]
    BY <1>a, <2>1
  <2>3. Len(stack') = Len(stack)
    <3>1. \A n \in Nat : DOMAIN stack' = 1 .. n => Len(stack') = n
      BY <1>a
    <3> QED
      BY <2>1, <2>2, <3>1
  <2>4. Goes
    BY <1>a, <2>1, <2>2, <2>3 DEF Goes, SameRole
  <2> QED
    BY <1>a, <2>1, <2>3, <2>4, LoopKept
<1>1. CASE DestroyReturns
  <2>1. /\ Running({"destroy"}) /\ inq' = inq /\ loop' = loop /\ error' = error
        /\ quitting' = quitting
    BY <1>1 DEF DestroyReturns
  <2>2. PICK oid, list : stack' = [stack EXCEPT ![Len(stack)] =
                                      NewFrame("notify", oid, 0, 0, 0, list, 0)]
    BY <1>1 DEF DestroyReturns
  <2> DEFINE f == NewFrame("notify", oid, 0, 0, 0, list, 0)
  <2>3. f.fn = "notify" /\ stack' = [stack EXCEPT ![Len(stack)] = f]
    BY <2>2, FrameFields
  <2>4. {"destroy"} \subseteq Destroying /\ "notify" \in Destroying
    BY DEF Destroying
  <2> HIDE DEF f
  <2>5. f.fn \in Destroying
    BY <2>3, <2>4
  <2> QED
    BY <1>a, <2>1, <2>3, <2>4, <2>5
<1>2. CASE NotifyCaller
  <2>1. /\ Running({"notify"}) /\ inq' = inq /\ error' = error /\ quitting' = quitting
    BY <1>2 DEF NotifyCaller
  <2>2. /\ Len(stack) \in Nat /\ Len(stack) > 0 /\ DOMAIN stack = 1 .. Len(stack)
        /\ top = stack[Len(stack)] /\ top.fn = "notify" /\ top \in Frame
        /\ stack \in Seq(Frame) /\ Len(stack) \in DOMAIN stack
        /\ (error = "delivery" /\ ~quitting => loop = "queues")
    BY <2>1, RunningLoop
  <2>3. PICK k \in DOMAIN top.list :
          LET rest == [stack EXCEPT ![Len(stack)].list[k] = 0]
          IN  \/ stack' = rest /\ loop' = loop
              \/ /\ loop' = loop
                 /\ \E p \in DOMAIN omap :
                      stack' = Append(rest, NewFrame("destroyed", top.list[k], omap[p].o,
                                                     top.oid, 0, <<>>, MaxCalls))
              \/ stack' = stack /\ loop' = "crashed"
    BY <1>2 DEF NotifyCaller
  <2> DEFINE f == [top EXCEPT !.list = [top.list EXCEPT ![k] = 0]]
             rest == [stack EXCEPT ![Len(stack)] = f]
  <2>4. [stack EXCEPT ![Len(stack)].list[k] = 0] = rest
    BY <2>2
  <2>5. f.fn = top.fn /\ f.oid = top.oid /\ f \in Frame
    <3>1. [top.list EXCEPT ![k] = 0] \in Seq(Nat)
      <4>1. top.list \in Seq(Nat)
        BY <2>2 DEF Frame, Oid
      <4> QED
        BY <2>3, <4>1, ReplaceElement
    <3> QED
      BY <2>2, <3>1 DEF Frame, Oid
  <2> HIDE DEF f
  <2>6. /\ Len(rest) = Len(stack)
        /\ \A j \in 1 .. Len(stack) : SameRole(stack[j], rest[j])
    BY <2>1, <2>5, CalledRole
  <2>7. rest \in Seq(Frame)
    BY <2>2, <2>5
  <2> HIDE DEF rest
  <2>8. CASE stack' = rest /\ loop' = loop
    <3>1. Goes
      BY <2>2, <2>6, <2>8 DEF Goes
    <3> QED
      BY <2>1, <2>2, <2>6, <2>8, <3>1, LoopKept
  <2>9. CASE stack' = stack /\ loop' = "crashed"
    <3>1. Goes
      BY <2>2, <2>9 DEF Goes, SameRole
    <3> QED
      BY <2>1, <2>2, <2>9, <3>1, LoopKept
  <2>10. ASSUME loop' = loop, NEW p \in DOMAIN omap,
                stack' = Append(rest, NewFrame("destroyed", top.list[k], omap[p].o,
                                               top.oid, 0, <<>>, MaxCalls))
         PROVE  LoopInv'
    <3> DEFINE g == NewFrame("destroyed", top.list[k], omap[p].o, top.oid, 0, <<>>, MaxCalls)
    <3>1. g.fn = "destroyed"
      BY FrameFields
    <3>2. g \in Frame
      <4>1. top.oid \in Nat /\ top.list \in Seq(Nat)
        BY <2>2 DEF Frame, Oid
      <4>2. top.list[k] \in Nat
        BY <2>3, <4>1
      <4>3. omap[p].o \in Nat
        BY LinkFields DEF IInv, MapOK, MsgLink
      <4> QED
        BY <4>1, <4>2, <4>3, CasycomAssumption DEF NewFrame, Frame, Oid
    <3> HIDE DEF g
    <3>3. stack' = Append(rest, g)
      BY <2>10 DEF g
    <3>4. /\ Len(stack') = Len(stack) + 1 /\ stack'[Len(stack) + 1] = g
          /\ \A j \in 1 .. Len(stack) : stack'[j] = rest[j]
      BY <2>6, <2>7, <3>2, <3>3, PushFacts
    <3>5. \A j \in 1 .. Len(stack') : j \in 1 .. Len(stack) \/ j = Len(stack) + 1
      BY <2>2, <3>4
    <3>6. Goes
      BY <2>2, <2>6, <3>1, <3>4, <3>5 DEF Goes
    <3> QED
      BY <2>1, <2>2, <2>10, <3>4, <3>6, LoopKept
  <2> QED
    BY <2>3, <2>4, <2>8, <2>9, <2>10
<1>3. CASE AllNotified
  <2>1. /\ Running({"notify"}) /\ inq' = inq /\ loop' = loop /\ error' = error
        /\ quitting' = quitting
    BY <1>3 DEF AllNotified
  <2>2. top = stack[Len(stack)] /\ top \in Frame /\ Len(stack) \in DOMAIN stack
    BY <2>1, RunningLoop
  <2> DEFINE f == [top EXCEPT !.fn = "erase", !.list = <<>>]
  <2>3. stack' = [stack EXCEPT ![Len(stack)] = f]
    BY <1>3, <2>2 DEF AllNotified
  <2>4. f.fn \in Destroying
    BY <2>2 DEF Frame, Destroying
  <2>5. {"notify"} \subseteq Destroying
    BY DEF Destroying
  <2> HIDE DEF f
  <2> QED
    BY <1>a, <2>1, <2>3, <2>4, <2>5
<1>b. ASSUME NEW fns, Running(fns), stack' = Pop(stack), Len(stack) # 1,
             inq' = inq, loop' = loop, error' = error, quitting' = quitting
      PROVE  LoopInv'
  <2>1. /\ Len(stack) \in Nat /\ Len(stack) > 0 /\ stack \in Seq(Frame) /\ stack # <<>>
        /\ (error = "delivery" /\ ~quitting => loop = "queues")
    BY <1>b, RunningLoop
  <2>2. /\ Len(stack') = Len(stack) - 1
        /\ \A k \in 1 .. Len(stack) - 1 : stack'[k] = stack[k]
    BY <1>b, <2>1, PopFacts
  <2>3. /\ Len(stack') \in Nat /\ Len(stack') > 0
        /\ \A k \in 1 .. Len(stack') : k \in 1 .. Len(stack) /\ k \in 1 .. Len(stack) - 1
    BY <1>b, <2>1, <2>2
  <2>4. Goes
    BY <2>2, <2>3 DEF Goes, SameRole
  <2> QED
    BY <1>b, <2>1, <2>3, <2>4, LoopKept
<1>4. CASE DestroyedReturns
  <2>1. /\ Running({"destroyed"}) /\ stack' = Pop(stack)
        /\ inq' = inq /\ loop' = loop /\ error' = error /\ quitting' = quitting
    BY <1>4 DEF DestroyedReturns
  <2>2. /\ top = stack[Len(stack)] /\ top.fn = "destroyed" /\ stack # <<>>
        /\ loop \in {"queues", "sweep", "reset"}
    BY <2>1, RunningLoop
  <2>3. Len(stack) # 1
    BY <2>2 DEF LoopInv, Destroying
  <2> QED
    BY <1>b, <2>1, <2>3
<1>5. CASE EraseLink
  <2>1. /\ Running({"erase"}) /\ loop' = loop /\ error' = error /\ quitting' = quitting
    BY <1>5 DEF EraseLink
  <2>2. PICK p \in DOMAIN omap : casycom_destroy_link_at(p, stack)
    BY <1>5 DEF EraseLink
  <2>3. stack \in Seq(Frame) /\ (error = "delivery" /\ ~quitting => loop = "queues")
    BY <2>1, RunningLoop
  <2>4. \A k \in 1 .. Len(stack) : SameRole(stack[k], stack[k])
    BY DEF SameRole
  <2>5. /\ Goes /\ Len(stack') \in Nat
        /\ inq # <<>> => inq' # <<>> /\ Head(inq').dest = Head(inq).dest
    BY <2>1, <2>2, <2>3, <2>4, EraseGoes
  <2> QED
    BY <2>1, <2>3, <2>5, LoopKept
<1>6. CASE AllErased
  <2>1. /\ Running({"erase"}) /\ stack' = Pop(stack)
        /\ inq' = inq /\ loop' = loop /\ error' = error /\ quitting' = quitting /\ omap' = omap
    BY <1>6 DEF AllErased
  <2>2. CASE Len(stack) # 1
    BY <1>b, <2>1, <2>2
  <2>3. CASE Len(stack) = 1
    <3>1. /\ top = stack[Len(stack)] /\ top.fn = "erase" /\ stack # <<>> /\ stack \in Seq(Frame)
          /\ loop \in {"queues", "sweep", "reset"} /\ (error = "delivery" /\ ~quitting => loop = "queues")
      BY <2>1, RunningLoop
    <3>2. loop # "queues"
      BY <2>3, <3>1 DEF LoopInv
    <3>3. stack' = <<>>
      <4>1. stack' \in Seq(Frame) /\ Len(stack') = 0
        BY <2>1, <2>3, <3>1, PopFacts
      <4> QED
        BY <4>1
    <3>4. \A k \in 1 .. Len(stack') : FALSE
      BY <3>3
    <3> QED
      BY <2>1, <3>1, <3>2, <3>3, <3>4 DEF LoopInv
  <2> QED
    BY <2>2, <2>3
<1> QED
  BY <1>1, <1>2, <1>3, <1>4, <1>5, <1>6 DEF DestroyStep

LEMMA LoopLoop ==
    ASSUME IInv, LoopInv, LoopStep
    PROVE  LoopInv'
<1>a. ASSUME stack = <<>>, stack' = <<>>, ~(error' = "delivery" /\ ~quitting'),
             loop' \in {"reset", "done"} => quitting', loop' = "done" => omap' = <<>>
      PROVE  LoopInv'
  <2>1. \A k \in 1 .. Len(stack') : FALSE
    BY <1>a
  <2> QED
    BY <1>a, <2>1 DEF LoopInv
<1>b. ASSUME NEW p \in DOMAIN omap, stack' = <<DestroyFrame(omap[p], 0)>> \/ stack' = <<DestroyFrame(omap[p], p)>>,
             loop \in {"sweep", "reset"}, loop' = loop, error' = error, quitting' = quitting
      PROVE  LoopInv'
  <2>1. PICK f : f.fn = "destroy" /\ stack' = <<f>>
    <3>1. DestroyFrame(omap[p], 0).fn = "destroy" /\ DestroyFrame(omap[p], p).fn = "destroy"
      BY DEF DestroyFrame, NewFrame
    <3> QED
      BY <1>b, <3>1
  <2>2. stack'[1].fn = "destroy" /\ \A k \in 1 .. Len(stack') : k = 1
    BY <2>1
  <2>3. ~(error' = "delivery" /\ ~quitting')
    BY <1>b DEF LoopInv
  <2> QED
    BY <1>b, <2>2, <2>3 DEF LoopInv, Destroying
<1>c. /\ loop = "idle" => stack = <<>>
      /\ loop \in {"idle", "sweep", "reset"} => ~(error = "delivery" /\ ~quitting)
      /\ loop = "reset" => quitting
  BY DEF LoopInv
<1>1. CASE casycom_send_signal_message
  <2>1. /\ loop = "idle" /\ loop' = "sweep" /\ stack' = stack
        /\ error' = error /\ quitting' = quitting
    BY <1>1 DEF casycom_send_signal_message
  <2> QED
    BY <1>a, <1>c, <2>1
<1>2. CASE casycom_destroy_unused_objects
  <2>1. /\ loop = "sweep" /\ stack = <<>> /\ loop' = loop /\ error' = error /\ quitting' = quitting
    BY <1>2 DEF casycom_destroy_unused_objects
  <2>2. PICK p \in DOMAIN omap : stack' = stack \/ stack' = <<DestroyFrame(omap[p], p)>>
    BY <1>2 DEF casycom_destroy_unused_objects
  <2> QED
    BY <1>a, <1>b, <1>c, <2>1, <2>2
<1>3. CASE casycom_idle
  <2>1. /\ loop = "sweep" /\ stack = <<>> /\ stack' = stack /\ error' = error
    BY <1>3 DEF casycom_idle
  <2>2. PICK b \in BOOLEAN : quitting' = (quitting \/ b)
    <3>1. PICK h \in BOOLEAN : quitting' = (quitting \/ (~h /\ inq = <<>> /\ outq = <<>>))
      BY <1>3 DEF casycom_idle
    <3>2. (~h /\ inq = <<>> /\ outq = <<>>) \in BOOLEAN
      OBVIOUS
    <3> QED
      BY <3>1, <3>2
  <2>3. loop' = IF quitting' THEN "reset" ELSE "queues"
    BY <1>3 DEF casycom_idle
  <2> QED
    BY <1>a, <1>c, <2>1, <2>2, <2>3
<1>4. CASE ResetLink
  <2>1. /\ loop = "reset" /\ stack = <<>> /\ loop' = loop /\ error' = error /\ quitting' = quitting
        /\ casycom_destroy_link_at(Len(omap), stack) /\ omap # <<>>
    BY <1>4 DEF ResetLink
  <2>2. Len(omap) \in DOMAIN omap
    BY <2>1 DEF IInv, MapOK
  <2>3. stack' = stack \/ stack' = Append(stack, DestroyFrame(omap[Len(omap)], 0))
    BY <2>1 DEF casycom_destroy_link_at
  <2>4. stack' = <<>> \/ stack' = <<DestroyFrame(omap[Len(omap)], 0)>>
    BY <2>1, <2>3
  <2> QED
    BY <1>a, <1>b, <1>c, <2>1, <2>2, <2>4
<1>5. CASE ResetQueues
  <2>1. /\ loop = "reset" /\ stack = <<>> /\ stack' = stack /\ loop' = "done" /\ error' = "none"
        /\ quitting' = quitting /\ omap = <<>> /\ omap' = omap
    BY <1>5 DEF ResetQueues
  <2> QED
    BY <1>a, <1>c, <2>1
<1> QED
  BY <1>1, <1>2, <1>3, <1>4, <1>5 DEF LoopStep

LEMMA LoopInvStep == IInv /\ LoopInv /\ [Next]_vars => LoopInv'
<1> SUFFICES ASSUME IInv, LoopInv, [Next]_vars PROVE LoopInv'
  OBVIOUS
<1>1. CASE Step
  <2>1. IInv'
    BY StepOK
  <2> QED
    BY <1>1, <2>1, LoopLibrary, LoopMessage, LoopError, LoopDestroy, LoopLoop DEF Step
<1>2. CASE UNCHANGED vars
  BY <1>2 DEF vars, LoopInv
<1> QED
  BY <1>1, <1>2 DEF Next, Ended

LEMMA LoopInit == Init => LoopInv
<1> SUFFICES ASSUME Init PROVE LoopInv
  OBVIOUS
<1>1. stack = <<>> /\ loop = "queues" /\ error = "none" /\ \A k \in 1 .. Len(stack) : FALSE
  BY DEF Init
<1> QED
  BY <1>1 DEF LoopInv

-----------------------------------------------------------------------------
(* What the invariant says of the properties *)

\* A link to d that holds its object is the one that the searches find.
LEMMA HolderFound ==
    ASSUME IInv, NEW l \in Links(omap), l.o # Null
    PROVE  Live(l.dest) /\ Holds(l.dest, l.o)
<1>1. omap \in Seq(MsgLink) /\ FirstHolds(omap)
  BY DEF IInv, MapOK
<1>2. PICK p \in DOMAIN omap : l.dest = omap[p].dest /\ l.o = omap[p].o
  BY <1>1, LinksFacts
<1>3. IsDestination(omap, l.dest, p)
  BY <1>1, <1>2 DEF FirstHolds
<1> QED
  BY <1>2, <1>3 DEF Live, Holds

\* There is a first link to a number that there is a link to.
LEMMA FirstFound ==
    ASSUME IInv, NEW l \in Links(omap)
    PROVE  \E p \in DOMAIN omap : IsDestination(omap, l.dest, p)
<1>1. /\ omap \in Seq(MsgLink) /\ FirstHolds(omap) /\ DOMAIN omap = 1 .. Len(omap)
      /\ Len(omap) \in Nat /\ \A i \in DOMAIN omap : omap[i].dest \in Nat
  BY LinkFields DEF IInv, MapOK
<1> DEFINE T == {p \in DOMAIN omap : omap[p].dest = l.dest}
<1>2. PICK p \in T : \A q \in T : p <= q
  <2>1. PICK q \in DOMAIN omap : l.dest = omap[q].dest
    BY <1>1, LinksFacts
  <2>2. q \in T
    BY <2>1
  <2>3. T # {}
    BY <2>2
  <2>4. T \in SUBSET Nat
    BY <1>1
  <2> QED
    BY <2>3, <2>4, LeastMember
<1>3. p \in DOMAIN omap /\ omap[p].dest = l.dest
  OBVIOUS
<1>4. ASSUME NEW i \in DOMAIN omap
      PROVE  IF i < p THEN omap[i].dest < l.dest ELSE l.dest <= omap[i].dest
  <2>1. i < p => omap[i].dest <= l.dest /\ omap[i].dest # l.dest
    <3>1. i < p => i \notin T
      BY <1>1, <1>2
    <3> QED
      BY <1>1, <1>3, <3>1 DEF FirstHolds, IsSorted
  <2>2. ~(i < p) => l.dest <= omap[i].dest
    BY <1>1, <1>3 DEF FirstHolds, IsSorted
  <2>3. omap[i].dest \in Nat /\ l.dest \in Nat
    BY <1>1, <1>3
  <2> QED
    BY <2>1, <2>2, <2>3
<1>5. p \in 1 .. Len(omap) + 1
  BY <1>1, <1>3
<1> QED
  BY <1>3, <1>4, <1>5 DEF IsDestination, IsLowerBound

LEMMA LifeAccounts == LifeInv => HeapAccounted
<1> SUFFICES ASSUME LifeInv PROVE HeapAccounted
  OBVIOUS
<1>1. /\ omap \in Seq(MsgLink) /\ FirstHolds(omap) /\ DOMAIN stack = 1 .. Len(stack)
  BY DEF LifeInv, IInv, MapOK, StackOK
<1> DEFINE held == {omap[p].o : p \in DOMAIN omap} \ {Null}
           making == {k \in DOMAIN stack : stack[k].fn \in {"create", "destroy"} /\ stack[k].at = 0}
           inPlace == {k \in DOMAIN stack : stack[k].fn = "destroy" /\ stack[k].at # 0}
<1>2. held = HeldObjects(Links(omap))
  <2>1. \A x : (\E p \in DOMAIN omap : x = omap[p].o) <=> (\E l \in Links(omap) : x = l.o)
    BY <1>1, LinksFacts
  <2> QED
    BY <2>1 DEF HeldObjects
<1>3. {stack[k].obj : k \in making} = Making(stack)
  BY <1>1 DEF Making
<1>4. heap = held \cup {stack[k].obj : k \in making}
  BY <1>2, <1>3 DEF LifeInv, Accounted
<1>5. \A k \in making : stack[k].obj \notin held
  <2>1. held \cap {stack[k].obj : k \in making} = {}
    BY <1>2, <1>3 DEF LifeInv, Accounted
  <2> QED
    BY <2>1
<1>6. \A k \in inPlace : stack[k].obj \in held
  <2> SUFFICES ASSUME NEW k \in inPlace PROVE stack[k].obj \in held
    OBVIOUS
  <2>1. stack[k].at \in DOMAIN omap /\ omap[stack[k].at].o = stack[k].obj
    BY <1>1 DEF LifeInv, InPlace
  <2>2. stack[k].obj # Null
    <3>1. FrameOK(stack[k], inq) /\ stack[k].fn = "destroy"
      BY <1>1 DEF LifeInv, IInv, StackOK
    <3> QED
      BY <3>1 DEF FrameOK, OnObject
  <2> QED
    BY <2>1, <2>2
<1>7. \A p, q \in DOMAIN omap : p # q /\ omap[p].o = omap[q].o => omap[p].o = Null
  <2> SUFFICES ASSUME NEW p \in DOMAIN omap, NEW q \in DOMAIN omap,
                      omap[p].o = omap[q].o, omap[p].o # Null
               PROVE  p = q
    OBVIOUS
  <2>1. /\ Bare(omap[p]) \in Links(omap) /\ Bare(omap[p]).o = omap[p].o
        /\ Bare(omap[q]) \in Links(omap) /\ Bare(omap[q]).o = omap[q].o
        /\ Bare(omap[p]).dest = omap[p].dest /\ Bare(omap[q]).dest = omap[q].dest
    BY <1>1, LinksFacts
  <2>2. \A l, k \in Links(omap) : l.o = k.o /\ l.o # Null => l.dest = k.dest
    BY DEF LifeInv, Accounted
  <2>3. omap[p].dest = omap[q].dest
    BY <2>1, <2>2
  <2> QED
    BY <1>1, <2>3, OneHolder
<1> QED
  BY <1>4, <1>5, <1>6, <1>7 DEF HeapAccounted

LEMMA LifeLinks == LifeInv => LinksLive
<1> SUFFICES ASSUME LifeInv PROVE LinksLive
  OBVIOUS
<1>1. /\ IInv /\ omap \in Seq(MsgLink) /\ FirstHolds(omap) /\ DOMAIN stack = 1 .. Len(stack)
  BY DEF LifeInv, IInv, MapOK, StackOK
<1>2. SourcesLive
  <2> SUFFICES ASSUME NEW p \in DOMAIN omap, omap[p].src # oid_Broadcast, ~InTransit(omap[p].src)
               PROVE  Live(omap[p].src)
    BY DEF SourcesLive
  <2>1. PICK l \in Links(omap) : l.src = omap[p].src
    BY <1>1, LinksFacts
  <2>2. ~\E k \in 1 .. Len(stack) : stack[k].fn \in {"create"} \cup Destroying /\ stack[k].oid = l.src
    BY <1>1, <2>1 DEF InTransit, Destroying
  <2>3. Held(Links(omap), l.src)
    BY <2>1, <2>2 DEF LifeInv, Sourced
  <2> QED
    BY <1>1, <2>1, <2>3, HolderFound DEF Held
<1>3. CreatorsAcyclic
  <2> SUFFICES ASSUME NEW S \in SUBSET {p \in DOMAIN omap : omap[p].o # Null}, S # {}
               PROVE  \E p \in S : \A q \in S : omap[p].src # omap[q].dest
    BY DEF CreatorsAcyclic
  <2> DEFINE edge(p) == <<omap[p].src, omap[p].dest>>
             F == {edge(p) : p \in S}
  <2>1. F \subseteq Creators(Links(omap), stack)
    <3>1. ASSUME NEW p \in S PROVE edge(p) \in Creators(Links(omap), stack)
      <4>1. PICK l \in Links(omap) : l.src = omap[p].src /\ l.dest = omap[p].dest /\ l.o # Null
        BY <1>1, LinksFacts
      <4> QED
        BY <4>1 DEF Creators
    <3> QED
      BY <3>1
  <2>2. PICK e \in F : \A f \in F : e[1] # f[2]
    <3>1. F # {}
      OBVIOUS
    <3> QED
      BY <2>1, <3>1 DEF LifeInv, Acyclic
  <2>3. PICK p \in S : e = edge(p)
    OBVIOUS
  <2>4. ASSUME NEW q \in S PROVE omap[p].src # omap[q].dest
    <3>1. edge(q) \in F
      OBVIOUS
    <3> QED
      BY <2>2, <2>3, <3>1
  <2> QED
    BY <2>4
<1>4. RunningLive
  <2> SUFFICES ASSUME NEW k \in DOMAIN stack
               PROVE  /\ stack[k].fn \in {"dispatch", "destroyed", "failed"} =>
                            stack[k].obj # Null /\ Holds(stack[k].oid, stack[k].obj)
                      /\ stack[k].fn = "create" => Holds(stack[k].oid, Null)
                      /\ stack[k].fn \in {"create", "destroy"} => stack[k].obj \in heap
                      /\ stack[k].fn \in {"dispatch", "forward", "failed"} => inq # <<>>
    BY DEF RunningLive
  <2>1. FrameOK(stack[k], inq)
    BY <1>1 DEF IInv, StackOK
  <2>2. stack[k].fn \in {"dispatch", "destroyed", "failed"} =>
            stack[k].obj # Null /\ Holds(stack[k].oid, stack[k].obj)
    BY <1>1, ObjectsThere, HolderFound
  <2>3. stack[k].fn = "create" => Holds(stack[k].oid, Null)
    <3> SUFFICES ASSUME stack[k].fn = "create" PROVE Holds(stack[k].oid, Null)
      OBVIOUS
    <3>1. PICK l \in Links(omap) : l.dest = stack[k].oid
      BY <1>1 DEF LifeInv, Framed
    <3>2. PICK p \in DOMAIN omap : IsDestination(omap, stack[k].oid, p)
      BY <1>1, <3>1, FirstFound
    <3>3. /\ Bare(omap[p]) \in Links(omap) /\ Bare(omap[p]).o = omap[p].o
          /\ Bare(omap[p]).dest = omap[p].dest /\ omap[p].dest = stack[k].oid
      BY <1>1, <3>2, LinksFacts DEF IsDestination
    <3>4. omap[p].o = Null
      BY <1>1, <3>3 DEF LifeInv, Framed
    <3> QED
      BY <3>2, <3>4 DEF Holds
  <2>4. stack[k].fn \in {"create", "destroy"} => stack[k].obj \in heap
    <3> SUFFICES ASSUME stack[k].fn \in {"create", "destroy"} PROVE stack[k].obj \in heap
      OBVIOUS
    <3>1. CASE stack[k].at = 0
      <4>1. stack[k].obj \in Making(stack)
        BY <1>1, <3>1 DEF Making
      <4> QED
        BY <4>1 DEF LifeInv, Accounted
    <3>2. CASE stack[k].at # 0
      <4>1. stack[k].fn = "destroy"
        BY <1>1, <3>2 DEF LifeInv, Shape
      <4>2. stack[k].at \in DOMAIN omap /\ omap[stack[k].at].o = stack[k].obj
        BY <1>1, <3>2, <4>1 DEF LifeInv, InPlace
      <4>3. stack[k].obj # Null
        BY <2>1, <4>1 DEF FrameOK, OnObject
      <4>4. stack[k].obj \in HeldObjects(Links(omap))
        BY <1>1, <4>2, <4>3, LinksFacts DEF HeldObjects
      <4> QED
        BY <4>4 DEF LifeInv, Accounted
    <3> QED
      BY <3>1, <3>2
  <2>5. stack[k].fn \in {"dispatch", "forward", "failed"} => inq # <<>>
    BY <2>1 DEF FrameOK, OnMessage
  <2> QED
    BY <2>2, <2>3, <2>4, <2>5
<1> QED
  BY <1>2, <1>3, <1>4 DEF LinksLive

LEMMA LifeFrees == LifeInv /\ LoopInv => ResetFrees
<1> SUFFICES ASSUME LifeInv, LoopInv, loop = "done" PROVE heap = {} /\ omap = <<>>
  BY DEF ResetFrees
<1>1. omap = <<>> /\ stack = <<>>
  BY DEF LoopInv
<1>2. DOMAIN omap = {} /\ \A k \in 1 .. Len(stack) : FALSE
  BY <1>1
<1>3. HeldObjects(Links(omap)) = {} /\ Making(stack) = {}
  BY <1>2 DEF HeldObjects, Links, Making
<1> QED
  BY <1>1, <1>3 DEF LifeInv, Accounted

-----------------------------------------------------------------------------
(* The theorems *)

\* An error set while a message is delivered does not outlast the round of
\* messages, unless the loop quits; and a message whose delivery has begun leaves
\* the queue with no error left, or with all the others because nobody handled
\* it.  So it is whatever destructors do, and if they set errors themselves: one
\* that is set in idle is handled, or ends the loop, with the next message that
\* is delivered.
THEOREM ErrorsHandled == Spec => []ErrorKept /\ DeliverySettles
<1>1. LoopInv => ErrorKept
  BY DEF LoopInv, ErrorKept
<1>2. IInv /\ [Next]_vars =>
        [loop = "queues" /\ stack # <<>> /\ Len(inq') < Len(inq)
            => error' = "none" \/ (quitting' /\ inq' = <<>>)]_vars
  <2> SUFFICES ASSUME IInv, [Next]_vars, loop = "queues", stack # <<>>, Len(inq') < Len(inq)
               PROVE  error' = "none" \/ (quitting' /\ inq' = <<>>)
    OBVIOUS
  <2>1. inq \in Seq(Msg) /\ Len(inq) \in Nat /\ inq' # inq
    BY DEF IInv
  <2>2. ASSUME NEW p, NEW fs, casycom_destroy_link_at(p, fs) PROVE FALSE
    BY <2>1, <2>2, OrphanedOK DEF casycom_destroy_link_at
  <2>3. CASE LibraryCall
    BY <2>1, <2>2, <2>3 DEF LibraryCall, CreateProxy, CreateProxyTo, casycom_destroy_proxy,
       casycom_queue_message, casycom_mark_unused, casycom_error, casycom_quit
  <2>4. CASE MessageStep
    BY <2>1, <2>4 DEF MessageStep, DropMessage, casycom_create_link_object, CreateReturns,
       Dispatch, DispatchReturns, SwapQueues, Delivering
  <2>5. CASE ErrorStep
    BY <2>1, <2>5 DEF ErrorStep, ErrorUnhandled, casycom_forward_error, ErrorHandled,
       ErrorDeclined
  <2>6. CASE DestroyStep
    BY <2>1, <2>2, <2>6 DEF DestroyStep, DestroyReturns, NotifyCaller, AllNotified,
       DestroyedReturns, EraseLink, AllErased
  <2>7. CASE LoopStep
    BY <2>7 DEF LoopStep, casycom_send_signal_message, casycom_destroy_unused_objects,
       casycom_idle, ResetLink, ResetQueues
  <2> QED
    BY <2>1, <2>3, <2>4, <2>5, <2>6, <2>7 DEF Next, Step, Ended, vars
<1> QED
  BY <1>1, <1>2, LoopInit, LoopInvStep, Invariance, PTL DEF Spec, DeliverySettles

\* The strengthened invariant holds throughout, if no destructor calls the
\* library.
THEOREM LifeInvariance ==
    ASSUME ActiveDtor = {}
    PROVE  Spec => [](LifeInv /\ LoopInv)
<1>1. LifeInv /\ [Next]_vars => LifeInv'
  BY LifeStep
<1> QED
  BY <1>1, LifeInit, LoopInit, LoopInvStep, Invariance, PTL DEF Spec

\* Every object in memory is on one link, or made or destroyed by a function in
\* progress: none leaks, and none is destroyed twice.
THEOREM ObjectsAccounted ==
    ASSUME ActiveDtor = {}
    PROVE  Spec => []HeapAccounted
  BY LifeInvariance, LifeAccounts, PTL

\* No link outlives its source, creators form no circle, and no object is
\* destroyed under a method of its own that runs.
THEOREM NothingDangles ==
    ASSUME ActiveDtor = {}
    PROVE  Spec => []LinksLive
  BY LifeInvariance, LifeLinks, PTL

\* When casycom_reset is through, every object has been destroyed.
THEOREM ResetIsComplete ==
    ASSUME ActiveDtor = {}
    PROVE  Spec => []ResetFrees
  BY LifeInvariance, LifeFrees, PTL
=============================================================================
