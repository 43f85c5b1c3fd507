------------------------- MODULE ExternStream_proofs -------------------------
(***************************************************************************)
(* The stream between two Externs, for any messages, sizes, capacity and   *)
(* cuts: the reader takes every message for valid, and passes on what was  *)
(* queued, in order, each once and with its fd.                            *)
(*                                                                         *)
(* That is so of messages that have a body, whose whole headers are of one *)
(* size, and of which only one passes an fd (Uniform).  Of others it is    *)
(* false: MCExternStream_nobody, MCExternStream_names, MCExternStream_fds. *)
(***************************************************************************)
EXTENDS ExternStream, SeqLemmas, FiniteSetTheorems

\* What is asked of the messages.
Uniform ==
    /\ \A k, l \in Kinds : k.hsz = l.hsz
    /\ \A k \in Kinds : k.sz > 0
    /\ MaxFds <= 1

-----------------------------------------------------------------------------
(* The inductive invariant *)

\* The bytes of message m, and the byte that follows byte p[2] of message p[1].
Total(q, m) == q[m].hsz + q[m].sz
Follows(q, p) == IF p[2] < Total(q, p[1]) THEN <<p[1], p[2] + 1>> ELSE <<p[1] + 1, 1>>

\* A byte of a queued message.  The fixed header says whether there is an fd,
\* and the fd comes with its first byte.
ByteOK(q, b) ==
    /\ b \in Bytes /\ b.m \in DOMAIN q /\ b.k \in 1 .. Total(q, b.m)
    /\ b.k <= Fixed => b.fd = q[b.m].fd
    /\ b.anc = IF b.k = 1 /\ q[b.m].fd THEN b.m ELSE NoFd

\* Place i of the bytes s, when byte to comes after them.
PlaceOf(s, to, i) == IF i <= Len(s) THEN <<s[i].m, s[i].k>> ELSE to

\* The bytes s are those from byte from on, and byte to comes next.
Stretch(q, s, from, to) ==
    /\ PlaceOf(s, to, 1) = from
    /\ \A i \in 1 .. Len(s) :
            ByteOK(q, s[i]) /\ PlaceOf(s, to, i + 1) = Follows(q, PlaceOf(s, to, i))

\* Where the writer and the reader are.
WriteAt == <<written + 1, outHWritten + outBWritten + 1>>
ReadAt == <<Len(received) + 1, inHRead + inBRead + 1>>

OneFd(q) == \A i, j \in DOMAIN q : q[i].fd /\ q[j].fd => i = j

WriterOK ==
    /\ queued \in Seq(Kinds) /\ written \in 0 .. Len(queued)
    /\ outHWritten \in Nat /\ outBWritten \in Nat /\ fdpassed \in BOOLEAN
    /\ IF written < Len(queued)
       THEN LET k == queued[written + 1] IN
            /\ outHWritten <= k.hsz /\ outBWritten < k.sz
            /\ outBWritten > 0 => outHWritten = k.hsz
            /\ fdpassed <=> k.fd /\ outHWritten > 0
            /\ fdpassed => outHWritten >= Fixed
       ELSE outHWritten = 0 /\ outBWritten = 0 /\ ~fdpassed

\* The first n bytes of the header of message m are in h.
HeaderOf(q, h, m, n) ==
    \A k \in 1 .. n : h[k].m = m /\ h[k].k = k /\ h[k].fd = q[m].fd

ReaderOK ==
    LET r == Len(received) + 1 IN
    /\ received \in Seq([m : Nat, fd : Nat]) /\ r <= Len(queued) + 1
    /\ \A i \in 1 .. Len(received) : received[i] = Sent[i]
    /\ inHRead \in Nat /\ inBRead \in Nat /\ hbuf \in [1 .. Fixed -> Bytes]
    /\ inHRead > 0 => r \in DOMAIN queued
    /\ inLastFd = IF inHRead > 0 /\ queued[r].fd THEN r ELSE NoFd
    /\ IF inHRead < Fixed
       THEN inMsg = NoMsg /\ inBRead = 0 /\ HeaderOf(queued, hbuf, r, inHRead)
       ELSE /\ inMsg = [m |-> r, sz |-> queued[r].sz, fd |-> queued[r].fd, good |-> TRUE]
            /\ inHRead <= queued[r].hsz /\ inBRead < queued[r].sz
            /\ inBRead > 0 => inHRead = queued[r].hsz
            /\ HeaderOf(queued, hbuf, r, Fixed)

\* StreamSound is not inductive: that the reader takes the rest of a message for
\* its rest rests on what is in the socket, and on where the writer is.
StreamInv ==
    /\ WriterOK /\ ReaderOK /\ OneFd(queued)
    /\ socket \in Seq(Bytes) /\ Len(socket) <= Capacity
    /\ Stretch(queued, socket, ReadAt, WriteAt)
    /\ open \in {{"writer", "reader"}, {"reader"}, {}} /\ broken = FALSE
    /\ open = {} => socket = <<>>

-----------------------------------------------------------------------------
(* Messages and bytes *)

\* What StreamAssumption and Uniform say of the messages of a queue.
LEMMA KindFacts ==
    ASSUME Uniform, NEW q \in Seq(Kinds)
    PROVE  /\ Fixed \in Nat /\ Fixed > 1 /\ DOMAIN q = 1 .. Len(q) /\ Len(q) \in Nat
           /\ \A m \in DOMAIN q :
                /\ q[m].hsz \in Nat /\ q[m].sz \in Nat /\ q[m].fd \in BOOLEAN
                /\ q[m].hsz > Fixed /\ q[m].sz > 0
                /\ Total(q, m) \in Nat /\ Total(q, m) > Fixed
           /\ \A m, l \in DOMAIN q : q[m].hsz = q[l].hsz
<1>1. \A m \in DOMAIN q : q[m] \in Kinds
  OBVIOUS
<1>2. Fixed \in Nat /\ Fixed > 1
  BY StreamAssumption
<1>3. \A k \in Kinds : /\ k.hsz \in Nat /\ k.sz \in Nat /\ k.fd \in BOOLEAN
                       /\ k.hsz > Fixed /\ k.sz > 0
  <2> SUFFICES ASSUME NEW k \in Kinds
               PROVE  /\ k.hsz \in Nat /\ k.sz \in Nat /\ k.fd \in BOOLEAN
                      /\ k.hsz > Fixed /\ k.sz > 0
    OBVIOUS
  <2>1. k \in [hsz : Nat, sz : Nat, fd : BOOLEAN]
    BY StreamAssumption
  <2>2. k.hsz \in Nat /\ k.sz \in Nat /\ k.fd \in BOOLEAN
    BY <2>1
  <2> QED
    BY <2>2, StreamAssumption DEF Uniform
<1>4. \A k, l \in Kinds : k.hsz = l.hsz
  BY DEF Uniform
<1>5. \A m \in DOMAIN q : Total(q, m) \in Nat /\ Total(q, m) > Fixed
  BY <1>1, <1>2, <1>3 DEF Total
<1> QED
  BY <1>1, <1>2, <1>3, <1>4, <1>5

\* Min of the model chooses the lesser number.
LEMMA MinOfTwo ==
    ASSUME NEW a \in Nat, NEW b \in Nat
    PROVE  Min({a, b}) = IF a <= b THEN a ELSE b
<1> DEFINE x == IF a <= b THEN a ELSE b
<1>1. x \in {a, b} /\ \A y \in {a, b} : x <= y
  OBVIOUS
<1>2. \A z \in {a, b} : (\A y \in {a, b} : z <= y) => z = x
  OBVIOUS
<1> HIDE DEF x
<1>3. Min({a, b}) \in {a, b} /\ \A y \in {a, b} : Min({a, b}) <= y
  BY <1>1 DEF Min
<1> QED
  BY <1>2, <1>3 DEF x

\* Max of the model, where there is one fd.
LEMMA MaxOfOne ==
    ASSUME NEW a \in Nat
    PROVE  Max({a}) = a
  BY DEF Max

-----------------------------------------------------------------------------
(* Stretches of bytes *)

\* A message that is queued changes nothing about the bytes of others.
LEMMA StretchQueued ==
    ASSUME NEW q \in Seq(Kinds), NEW k \in Kinds, NEW s \in Seq(Bytes), NEW from, NEW to,
           Stretch(q, s, from, to)
    PROVE  Stretch(Append(q, k), s, from, to)
<1> DEFINE p == Append(q, k)
<1>1. \A m \in DOMAIN q : m \in DOMAIN p /\ p[m] = q[m]
  OBVIOUS
<1> HIDE DEF p
<1>2. \A m \in DOMAIN q : Total(p, m) = Total(q, m)
  BY <1>1 DEF Total
<1>3. ASSUME NEW i \in 1 .. Len(s)
      PROVE  ByteOK(p, s[i]) /\ PlaceOf(s, to, i + 1) = Follows(p, PlaceOf(s, to, i))
  <2>1. ByteOK(q, s[i]) /\ PlaceOf(s, to, i + 1) = Follows(q, PlaceOf(s, to, i))
    BY DEF Stretch
  <2>2. s[i].m \in DOMAIN q
    BY <2>1 DEF ByteOK
  <2>3. ByteOK(p, s[i])
    BY <1>1, <1>2, <2>1, <2>2 DEF ByteOK
  <2>4. PlaceOf(s, to, i) = <<s[i].m, s[i].k>>
    BY DEF PlaceOf
  <2>5. Follows(p, PlaceOf(s, to, i)) = Follows(q, PlaceOf(s, to, i))
    BY <1>2, <2>2, <2>4 DEF Follows
  <2> QED
    BY <2>1, <2>3, <2>5
<1> QED
  BY <1>3 DEF Stretch, p

\* Two stretches that meet are one.
LEMMA StretchJoined ==
    ASSUME NEW q, NEW s \in Seq(Bytes), NEW t \in Seq(Bytes), NEW from, NEW mid, NEW to,
           Stretch(q, s, from, mid), Stretch(q, t, mid, to)
    PROVE  Stretch(q, s \o t, from, to)
<1> DEFINE u == s \o t
<1>1. /\ Len(s) \in Nat /\ Len(t) \in Nat /\ Len(u) = Len(s) + Len(t)
      /\ \A i \in 1 .. Len(s) : u[i] = s[i]
      /\ \A i \in 1 .. Len(t) : u[Len(s) + i] = t[i]
  OBVIOUS
<1> HIDE DEF u
<1>2. \A i \in 1 .. Len(s) + 1 : PlaceOf(u, to, i) = PlaceOf(s, mid, i)
  <2> SUFFICES ASSUME NEW i \in 1 .. Len(s) + 1 PROVE PlaceOf(u, to, i) = PlaceOf(s, mid, i)
    OBVIOUS
  <2>1. CASE i <= Len(s)
    BY <1>1, <2>1 DEF PlaceOf
  <2>2. CASE i = Len(s) + 1
    <3>1. PlaceOf(s, mid, i) = mid /\ PlaceOf(t, to, 1) = mid
      BY <1>1, <2>2 DEF PlaceOf, Stretch
    <3>2. PlaceOf(u, to, i) = PlaceOf(t, to, 1)
      <4>1. i <= Len(u) <=> 1 <= Len(t)
        BY <1>1, <2>2
      <4>2. 1 <= Len(t) => u[i] = t[1]
        BY <1>1, <2>2
      <4> QED
        BY <4>1, <4>2 DEF PlaceOf
    <3> QED
      BY <3>1, <3>2
  <2> QED
    BY <1>1, <2>1, <2>2
<1>3. \A i \in 1 .. Len(t) + 1 : PlaceOf(u, to, Len(s) + i) = PlaceOf(t, to, i)
  <2> SUFFICES ASSUME NEW i \in 1 .. Len(t) + 1
               PROVE  PlaceOf(u, to, Len(s) + i) = PlaceOf(t, to, i)
    OBVIOUS
  <2>1. Len(s) + i <= Len(u) <=> i <= Len(t)
    BY <1>1
  <2>2. i <= Len(t) => u[Len(s) + i] = t[i]
    BY <1>1
  <2> QED
    BY <2>1, <2>2 DEF PlaceOf
<1>4. ASSUME NEW i \in 1 .. Len(u)
      PROVE  ByteOK(q, u[i]) /\ PlaceOf(u, to, i + 1) = Follows(q, PlaceOf(u, to, i))
  <2>1. CASE i <= Len(s)
    <3>1. i \in 1 .. Len(s) /\ i \in 1 .. Len(s) + 1 /\ i + 1 \in 1 .. Len(s) + 1
      BY <1>1, <2>1
    <3>2. ByteOK(q, s[i]) /\ PlaceOf(s, mid, i + 1) = Follows(q, PlaceOf(s, mid, i))
      BY <3>1 DEF Stretch
    <3> QED
      BY <1>1, <1>2, <3>1, <3>2
  <2>2. CASE i > Len(s)
    <3> DEFINE j == i - Len(s)
    <3>1. /\ j \in 1 .. Len(t) /\ j \in 1 .. Len(t) + 1 /\ j + 1 \in 1 .. Len(t) + 1
          /\ i = Len(s) + j /\ i + 1 = Len(s) + (j + 1)
      BY <1>1, <2>2
    <3> HIDE DEF j
    <3>2. ByteOK(q, t[j]) /\ PlaceOf(t, to, j + 1) = Follows(q, PlaceOf(t, to, j))
      BY <3>1 DEF Stretch
    <3>3. u[i] = t[j]
      BY <1>1, <3>1
    <3>4. PlaceOf(u, to, i) = PlaceOf(t, to, j) /\ PlaceOf(u, to, i + 1) = PlaceOf(t, to, j + 1)
      BY <1>3, <3>1
    <3> QED
      BY <3>2, <3>3, <3>4
  <2> QED
    BY <1>1, <2>1, <2>2
<1>5. PlaceOf(u, to, 1) = from
  <2>1. 1 \in 1 .. Len(s) + 1
    BY <1>1
  <2> QED
    BY <1>2, <2>1 DEF Stretch
<1> QED
  BY <1>4, <1>5 DEF Stretch, u

\* What is left of a stretch when n bytes have been taken.
LEMMA StretchTaken ==
    ASSUME NEW q, NEW s \in Seq(Bytes), NEW from, NEW to, NEW n \in 0 .. Len(s),
           Stretch(q, s, from, to)
    PROVE  /\ SubSeq(s, n + 1, Len(s)) \in Seq(Bytes)
           /\ Len(SubSeq(s, n + 1, Len(s))) = Len(s) - n
           /\ Stretch(q, SubSeq(s, n + 1, Len(s)), PlaceOf(s, to, n + 1), to)
<1> DEFINE u == SubSeq(s, n + 1, Len(s))
<1>1. /\ u \in Seq(Bytes) /\ Len(u) = Len(s) - n /\ Len(s) \in Nat
      /\ \A i \in 1 .. Len(s) - n : u[i] = s[n + i]
  OBVIOUS
<1> HIDE DEF u
<1>2. \A i \in 1 .. Len(u) + 1 : PlaceOf(u, to, i) = PlaceOf(s, to, n + i)
  <2> SUFFICES ASSUME NEW i \in 1 .. Len(u) + 1
               PROVE  PlaceOf(u, to, i) = PlaceOf(s, to, n + i)
    OBVIOUS
  <2>1. i <= Len(u) <=> n + i <= Len(s)
    BY <1>1
  <2>2. i <= Len(u) => u[i] = s[n + i]
    BY <1>1
  <2> QED
    BY <2>1, <2>2 DEF PlaceOf
<1>3. ASSUME NEW i \in 1 .. Len(u)
      PROVE  ByteOK(q, u[i]) /\ PlaceOf(u, to, i + 1) = Follows(q, PlaceOf(u, to, i))
  <2>1. /\ n + i \in 1 .. Len(s) /\ (n + i) + 1 = n + (i + 1) /\ u[i] = s[n + i]
        /\ i \in 1 .. Len(u) + 1 /\ i + 1 \in 1 .. Len(u) + 1
    BY <1>1
  <2>2. /\ ByteOK(q, s[n + i])
        /\ PlaceOf(s, to, n + (i + 1)) = Follows(q, PlaceOf(s, to, n + i))
    BY <2>1 DEF Stretch
  <2> QED
    BY <1>2, <2>1, <2>2
<1>4. PlaceOf(u, to, 1) = PlaceOf(s, to, n + 1)
  <2>1. 1 \in 1 .. Len(u) + 1
    BY <1>1
  <2> QED
    BY <1>2, <2>1
<1> QED
  BY <1>1, <1>3, <1>4 DEF Stretch, u

\* From place i on the bytes are those of one message, up to its end.
LEMMA StretchRuns ==
    ASSUME NEW q, NEW s \in Seq(Bytes), NEW from, NEW to, Stretch(q, s, from, to),
           NEW i \in 1 .. Len(s) + 1, NEW m, NEW k \in Nat, PlaceOf(s, to, i) = <<m, k>>,
           Total(q, m) \in Nat
    PROVE  \A j \in Nat : i + j <= Len(s) + 1 /\ k + j <= Total(q, m)
                            => PlaceOf(s, to, i + j) = <<m, k + j>>
<1> DEFINE T == {j \in Nat : i + j <= Len(s) + 1 /\ k + j <= Total(q, m)
                                => PlaceOf(s, to, i + j) = <<m, k + j>>}
<1>0. Len(s) \in Nat
  OBVIOUS
<1>1. 0 \in T
  <2>1. i + 0 = i /\ k + 0 = k
    BY <1>0
  <2> QED
    BY <2>1
<1>2. ASSUME NEW j \in Nat, j \in T PROVE j + 1 \in T
  <2> SUFFICES ASSUME i + (j + 1) <= Len(s) + 1, k + (j + 1) <= Total(q, m)
               PROVE  PlaceOf(s, to, i + (j + 1)) = <<m, k + (j + 1)>>
    OBVIOUS
  <2>1. /\ i + j \in 1 .. Len(s) /\ (i + j) + 1 = i + (j + 1) /\ i + j <= Len(s) + 1
        /\ k + j < Total(q, m) /\ k + j <= Total(q, m) /\ (k + j) + 1 = k + (j + 1)
    BY <1>0
  <2>2. PlaceOf(s, to, i + j) = <<m, k + j>>
    BY <1>2, <2>1
  <2>3. PlaceOf(s, to, i + (j + 1)) = Follows(q, <<m, k + j>>)
    BY <2>1, <2>2 DEF Stretch
  <2> QED
    BY <2>1, <2>3 DEF Follows
<1> HIDE DEF T
<1>3. \A j \in Nat : j \in T
  BY <1>1, <1>2, InductiveSet
<1> QED
  BY <1>3 DEF T

\* The first bytes of a stretch from byte k of message m on: the rest of that
\* message, and then at most a fixed header of the next.
LEMMA StretchHead ==
    ASSUME Uniform, NEW q \in Seq(Kinds), NEW s \in Seq(Bytes), NEW to,
           NEW m \in Nat, NEW k \in Nat \ {0}, Stretch(q, s, <<m, k>>, to),
           m \in DOMAIN q, k <= Total(q, m),
           NEW T \in Nat, k + T = Total(q, m) + 1,
           NEW n \in 0 .. Len(s), n <= T + Fixed
    PROVE  \A i \in 1 .. n + 1 :
             PlaceOf(s, to, i) = IF i <= T THEN <<m, k + i - 1>> ELSE <<m + 1, i - T>>
<1>0. /\ Len(s) \in Nat /\ T \in Nat /\ T >= 1 /\ Total(q, m) \in Nat
      /\ Fixed \in Nat /\ n \in Nat /\ n <= Len(s) /\ k \in Nat
      /\ k + T - 1 = Total(q, m)
  <2>1. Total(q, m) \in Nat /\ Fixed \in Nat
    BY KindFacts
  <2>2. Len(s) \in Nat /\ n \in Nat /\ n <= Len(s) /\ k \in Nat
    OBVIOUS
  <2>3. k <= Total(q, m) /\ k + T = Total(q, m) + 1
    OBVIOUS
  <2> QED
    BY <2>1, <2>2, <2>3
<1> DEFINE from == <<m, k>>
<1>1. PlaceOf(s, to, 1) = <<m, k>> /\ Stretch(q, s, from, to)
  BY DEF Stretch
<1> HIDE DEF from
<1>r. \A j \in Nat : 1 + j <= Len(s) + 1 /\ k + j <= Total(q, m)
                        => PlaceOf(s, to, 1 + j) = <<m, k + j>>
  <2> DEFINE one == 1
  <2>1. one \in 1 .. Len(s) + 1 /\ PlaceOf(s, to, one) = <<m, k>>
    BY <1>0, <1>1
  <2> HIDE DEF one
  <2>2. \A j \in Nat : one + j <= Len(s) + 1 /\ k + j <= Total(q, m)
                         => PlaceOf(s, to, one + j) = <<m, k + j>>
    BY <1>0, <1>1, <2>1, StretchRuns
  <2> QED
    BY <2>2 DEF one
<1>2. ASSUME NEW i \in 1 .. n + 1, i <= T PROVE PlaceOf(s, to, i) = <<m, k + i - 1>>
  <2> DEFINE j == i - 1
  <2>1. /\ j \in Nat /\ 1 + j = i /\ 1 + j <= Len(s) + 1
        /\ k + j <= Total(q, m) /\ k + j = k + i - 1
    BY <1>0, <1>2
  <2> HIDE DEF j
  <2> QED
    BY <1>r, <2>1
<1>3. ASSUME T <= n PROVE PlaceOf(s, to, T + 1) = <<m + 1, 1>>
  <2>1. T \in 1 .. n + 1 /\ T \in 1 .. Len(s) /\ T <= T
    BY <1>0, <1>3
  <2>2. PlaceOf(s, to, T) = <<m, Total(q, m)>>
    BY <1>0, <1>2, <2>1
  <2>3. PlaceOf(s, to, T + 1) = Follows(q, <<m, Total(q, m)>>)
    BY <2>1, <2>2 DEF Stretch
  <2>4. ~(Total(q, m) < Total(q, m))
    BY <1>0
  <2> QED
    BY <2>3, <2>4 DEF Follows
<1>4. ASSUME NEW i \in 1 .. n + 1, ~(i <= T) PROVE PlaceOf(s, to, i) = <<m + 1, i - T>>
  <2>1. T <= n /\ i \in Nat
    BY <1>0, <1>4
  <2>2. CASE i = T + 1
    <3>1. i - T = 1
      BY <1>0, <2>2
    <3> QED
      BY <1>3, <2>1, <2>2, <3>1
  <2>3. CASE i # T + 1
    <3> DEFINE j == i - (T + 1)
               a == T + 1
               b == m + 1
    <3>1. /\ a \in 1 .. Len(s) /\ a \in 1 .. Len(s) + 1 /\ j \in Nat
          /\ a + j = i /\ a + j <= Len(s) + 1 /\ 1 + j = i - T /\ 1 + j <= Fixed + 1
      <4>1. /\ i \in Nat /\ i > T + 1 /\ i <= n + 1
        BY <1>0, <1>4, <2>3
      <4>2. n <= T + Fixed
        OBVIOUS
      <4> QED
        BY <1>0, <4>1, <4>2
    <3>2. PlaceOf(s, to, a) = <<b, 1>>
      BY <1>3, <2>1
    <3> HIDE DEF j, a, b
    <3>3. ByteOK(q, s[a])
      BY <3>1 DEF Stretch
    <3>4. s[a].m = b
      <4>1. a <= Len(s)
        BY <1>0, <3>1
      <4>2. <<s[a].m, s[a].k>> = <<b, 1>>
        BY <3>2, <4>1 DEF PlaceOf
      <4> QED
        BY <4>2
    <3>5. b \in DOMAIN q
      BY <3>3, <3>4 DEF ByteOK
    <3>6. Total(q, b) \in Nat /\ Total(q, b) > Fixed
      BY <3>5, KindFacts
    <3>7. 1 + j <= Total(q, b)
      BY <1>0, <3>1, <3>6
    <3>8. \A x \in Nat : a + x <= Len(s) + 1 /\ 1 + x <= Total(q, b)
                            => PlaceOf(s, to, a + x) = <<b, 1 + x>>
      <4> DEFINE one == 1
      <4>1. one \in Nat /\ PlaceOf(s, to, a) = <<b, one>>
        BY <3>2
      <4> HIDE DEF one
      <4>2. \A x \in Nat : a + x <= Len(s) + 1 /\ one + x <= Total(q, b)
                              => PlaceOf(s, to, a + x) = <<b, one + x>>
        BY <1>1, <3>1, <3>6, <4>1, StretchRuns
      <4> QED
        BY <4>2 DEF one
    <3>9. PlaceOf(s, to, a + j) = <<b, 1 + j>>
      BY <3>1, <3>7, <3>8
    <3> QED
      BY <3>1, <3>9 DEF b
  <2> QED
    BY <2>2, <2>3
<1> QED
  BY <1>2, <1>4

-----------------------------------------------------------------------------
(* The sender *)

\* n bytes that Extern_writing sends from place p on, of a message that may have
\* an fd to pass.
Sending(m, p, n, fd) ==
    [i \in 1 .. n |-> Byte(m, p + i, fd, IF fd /\ i = 1 THEN m ELSE NoFd)]

\* They are a stretch of the message.
LEMMA SendingStretch ==
    ASSUME Uniform, NEW q \in Seq(Kinds), NEW m \in DOMAIN q, NEW p \in Nat, NEW n \in Nat \ {0},
           p + n <= Total(q, m), NEW fd \in BOOLEAN,
           fd => q[m].fd /\ p = 0, q[m].fd /\ ~fd => p >= Fixed,
           NEW to, to = Follows(q, <<m, p + n>>)
    PROVE  LET t == Sending(m, p, n, fd)
           IN  /\ t \in Seq(Bytes) /\ Len(t) = n
               /\ Stretch(q, t, <<m, p + 1>>, to)
<1> DEFINE t == Sending(m, p, n, fd)
<1>0. /\ m \in Nat /\ Total(q, m) \in Nat /\ Fixed \in Nat /\ Fixed > 1
      /\ q[m].fd \in BOOLEAN /\ p + n \in Nat /\ p + n <= Total(q, m)
  BY KindFacts
<1>1. ASSUME NEW i \in 1 .. n
      PROVE  /\ t[i] \in Bytes /\ t[i].m = m /\ t[i].k = p + i /\ t[i].fd = fd
             /\ t[i].anc = IF fd /\ i = 1 THEN m ELSE NoFd
  <2>1. t[i] = Byte(m, p + i, fd, IF fd /\ i = 1 THEN m ELSE NoFd)
    BY DEF Sending
  <2>2. p + i \in Nat /\ (IF fd /\ i = 1 THEN m ELSE NoFd) \in Nat
    BY <1>0 DEF NoFd
  <2> QED
    BY <1>0, <2>1, <2>2 DEF Byte, Bytes
<1>2. t \in Seq(Bytes) /\ Len(t) = n /\ DOMAIN t = 1 .. n
  <2>1. DOMAIN t = 1 .. n /\ t = [i \in 1 .. n |-> t[i]]
    BY DEF Sending
  <2> HIDE DEF t
  <2>2. t \in [1 .. n -> Bytes]
    BY <1>1, <2>1
  <2> QED
    BY <2>2
<1> HIDE DEF t
<1>3. ASSUME NEW i \in 1 .. n PROVE ByteOK(q, t[i])
  <2>1. t[i].k \in 1 .. Total(q, t[i].m)
    BY <1>0, <1>1
  <2>2. t[i].k <= Fixed => t[i].fd = q[t[i].m].fd
    <3>1. CASE fd
      BY <1>0, <1>1, <3>1
    <3>2. CASE ~fd
      <4>1. q[m].fd => ~(t[i].k <= Fixed)
        BY <1>0, <1>1, <3>2
      <4>2. t[i].fd = FALSE /\ t[i].m = m
        BY <1>1, <3>2
      <4> QED
        BY <1>0, <4>1, <4>2
    <3> QED
      BY <3>1, <3>2
  <2>3. t[i].anc = IF t[i].k = 1 /\ q[t[i].m].fd THEN t[i].m ELSE NoFd
    <3>1. fd /\ i = 1 <=> t[i].k = 1 /\ q[m].fd
      <4>1. fd => (i = 1 <=> t[i].k = 1)
        <5>1. fd => p = 0
          OBVIOUS
        <5>2. t[i].k = p + i /\ i \in Nat
          BY <1>1
        <5>3. p = 0 => p + i = i
          BY <5>2
        <5> QED
          BY <5>1, <5>2, <5>3
      <4>2. fd => q[m].fd
        OBVIOUS
      <4>3. ~fd /\ q[m].fd => t[i].k # 1
        BY <1>0, <1>1
      <4> QED
        BY <4>1, <4>2, <4>3
    <3> QED
      BY <1>1, <3>1
  <2> QED
    BY <1>1, <2>1, <2>2, <2>3 DEF ByteOK
<1>4. ASSUME NEW i \in 1 .. n PROVE PlaceOf(t, to, i + 1) = Follows(q, PlaceOf(t, to, i))
  <2>1. PlaceOf(t, to, i) = <<m, p + i>>
    BY <1>1, <1>2 DEF PlaceOf
  <2>2. CASE i = n
    <3>1. ~(i + 1 <= Len(t))
      BY <1>2, <2>2
    <3>2. PlaceOf(t, to, i + 1) = to
      BY <3>1 DEF PlaceOf
    <3>3. to = Follows(q, <<m, p + n>>)
      OBVIOUS
    <3> QED
      BY <2>1, <2>2, <3>2, <3>3
  <2>3. CASE i < n
    <3>1. i + 1 \in 1 .. n /\ p + i < Total(q, m) /\ (p + i) + 1 = p + (i + 1)
      BY <1>0, <2>3
    <3>2. PlaceOf(t, to, i + 1) = <<m, p + (i + 1)>>
      BY <1>1, <1>2, <3>1 DEF PlaceOf
    <3> QED
      <4>1. Follows(q, <<m, p + i>>) = <<m, (p + i) + 1>>
        BY <3>1 DEF Follows
      <4>2. Follows(q, <<m, p + i>>) = <<m, p + (i + 1)>>
        BY <3>1, <4>1
      <4> QED
        BY <2>1, <3>2, <4>2
  <2> QED
    BY <2>2, <2>3
<1>5. PlaceOf(t, to, 1) = <<m, p + 1>>
  BY <1>1, <1>2 DEF PlaceOf
<1> QED
  BY <1>2, <1>3, <1>4, <1>5 DEF Stretch, t

\* What WriterOK says of the message that is being written.
LEMMA WriterFacts ==
    ASSUME Uniform, StreamInv, written < Len(queued)
    PROVE  /\ written + 1 \in DOMAIN queued /\ written \in Nat /\ Len(queued) \in Nat
           /\ outHWritten \in Nat /\ outBWritten \in Nat /\ fdpassed \in BOOLEAN
           /\ queued[written + 1].hsz \in Nat /\ queued[written + 1].sz \in Nat
           /\ queued[written + 1].fd \in BOOLEAN
           /\ Fixed \in Nat /\ Fixed > 1 /\ queued[written + 1].hsz > Fixed
           /\ outHWritten <= queued[written + 1].hsz /\ outBWritten < queued[written + 1].sz
           /\ outBWritten > 0 => outHWritten = queued[written + 1].hsz
           /\ fdpassed <=> queued[written + 1].fd /\ outHWritten > 0
           /\ fdpassed => outHWritten >= Fixed
<1>1. WriterOK /\ queued \in Seq(Kinds) /\ written \in 0 .. Len(queued)
  BY DEF StreamInv, WriterOK
<1>2. written + 1 \in DOMAIN queued /\ written \in Nat /\ Len(queued) \in Nat
  BY <1>1
<1> QED
  BY <1>1, <1>2, KindFacts DEF WriterOK

\* What n bytes more, hb of them of the header, come to.
LEMMA WriteCounts ==
    ASSUME NEW hsz \in Nat, NEW sz \in Nat, NEW hw \in Nat, NEW bw \in Nat,
           hw <= hsz, bw < sz, bw > 0 => hw = hsz,
           NEW n \in 1 .. (hsz - hw) + (sz - bw)
    PROVE  LET hb == Min({n, hsz - hw})
           IN  /\ hb \in Nat /\ hb = IF n <= hsz - hw THEN n ELSE hsz - hw
               /\ hw + hb \in Nat /\ bw + n - hb \in Nat /\ hw + hb <= hsz /\ bw + n - hb <= sz
               /\ bw + n - hb > 0 => hw + hb = hsz
               /\ hsz > 0 => hw + hb > 0
               /\ (hw + hb) + (bw + n - hb) = (hw + bw) + n /\ (hw + bw) + n <= hsz + sz
               /\ (hw + bw) + n < hsz + sz <=> ~(bw + n - hb >= sz)
<1> DEFINE hleft == hsz - hw
           hb == Min({n, hleft})
<1>1. n \in Nat /\ n > 0 /\ hleft \in Nat /\ hleft + hw = hsz /\ n <= hleft + (sz - bw)
  OBVIOUS
<1>2. hb = IF n <= hleft THEN n ELSE hleft
  <2> HIDE DEF hleft
  <2> QED
    BY <1>1, MinOfTwo
<1> HIDE DEF hb
<1>3. CASE n <= hleft
  <2>1. hb = n /\ hb \in Nat
    BY <1>1, <1>2, <1>3
  <2>2. bw = 0 \/ hleft = 0
    BY <1>1
  <2>3. bw = 0
    BY <1>1, <1>3, <2>2
  <2> HIDE DEF hleft
  <2> QED
    BY <1>1, <1>2, <1>3, <2>1, <2>3 DEF hb, hleft
<1>4. CASE ~(n <= hleft)
  <2>1. hb = hleft /\ hb \in Nat /\ hw + hb = hsz
    BY <1>1, <1>2, <1>4
  <2> QED
    BY <1>1, <1>2, <1>4, <2>1 DEF hb
<1> QED
  BY <1>3, <1>4

\* Extern_writing sends the next bytes of the message, or all that are left of it.
LEMMA WritingOK ==
    ASSUME Uniform, StreamInv, Extern_writing
    PROVE  StreamInv'
<1>1. /\ written < Len(queued) /\ "writer" \in open
      /\ queued' = queued /\ open' = open /\ UNCHANGED inVars
  BY DEF Extern_writing
<1>2. PICK m \in DOMAIN queued, hsz \in Nat, sz \in Nat, hw \in Nat, bd \in Nat,
           fd \in BOOLEAN, passed \in BOOLEAN :
        /\ m = written + 1 /\ hsz = queued[m].hsz /\ sz = queued[m].sz
        /\ hw = outHWritten /\ bd = outBWritten
        /\ fd = (queued[m].fd /\ ~fdpassed) /\ passed = fdpassed
  <2>1. written + 1 \in DOMAIN queued
    BY <1>1, WriterFacts
  <2>2. /\ queued[written + 1].hsz \in Nat /\ queued[written + 1].sz \in Nat
        /\ outHWritten \in Nat /\ outBWritten \in Nat
    BY <1>1, WriterFacts
  <2>3. fdpassed \in BOOLEAN /\ (queued[written + 1].fd /\ ~fdpassed) \in BOOLEAN
    BY <1>1, WriterFacts
  <2> QED
    BY <2>1, <2>2, <2>3
<1>3. /\ m \in Nat \ {0} /\ written \in Nat /\ Len(queued) \in Nat /\ written = m - 1
      /\ m <= Len(queued)
      /\ Fixed \in Nat /\ Fixed > 1 /\ hsz > Fixed /\ hw <= hsz /\ bd < sz
      /\ bd > 0 => hw = hsz
  <2>1. /\ written \in Nat /\ Len(queued) \in Nat /\ Fixed \in Nat /\ Fixed > 1
    BY <1>1, WriterFacts
  <2>2. /\ queued[written + 1].hsz > Fixed
        /\ outHWritten <= queued[written + 1].hsz /\ outBWritten < queued[written + 1].sz
        /\ outBWritten > 0 => outHWritten = queued[written + 1].hsz
    BY <1>1, WriterFacts
  <2>3. hsz > Fixed /\ hw <= hsz /\ bd < sz /\ (bd > 0 => hw = hsz)
    BY <1>2, <2>2
  <2>4. m \in Nat \ {0} /\ written = m - 1 /\ m <= Len(queued)
    BY <1>1, <1>2, <2>1
  <2> QED
    BY <2>1, <2>3, <2>4
<1>4. /\ queued[m].fd \in BOOLEAN
      /\ passed <=> queued[m].fd /\ hw > 0
      /\ passed => hw >= Fixed
  <2>1. /\ queued[written + 1].fd \in BOOLEAN
        /\ fdpassed <=> queued[written + 1].fd /\ outHWritten > 0
        /\ fdpassed => outHWritten >= Fixed
    BY <1>1, WriterFacts
  <2> QED
    BY <1>2, <2>1
<1>5. queued \in Seq(Kinds) /\ Total(queued, m) = hsz + sz
  BY <1>2 DEF StreamInv, WriterOK, Total
<1>6. PICK bw \in 1 .. (hsz - hw) + (sz - bd) :
        /\ fd => bw >= Fixed
        /\ Len(socket) + bw <= Capacity
        /\ socket' = socket \o Sending(m, hw + bd, bw, fd)
        /\ AfterWrite(hw + Min({bw, hsz - hw}), bd + bw - Min({bw, hsz - hw}), passed \/ fd)
  BY <1>2 DEF Extern_writing, Sending
<1>7. PICK h \in Nat, b \in Nat :
        /\ h = hw + Min({bw, hsz - hw}) /\ b = bd + bw - Min({bw, hsz - hw})
        /\ h = IF bw <= hsz - hw THEN hw + bw ELSE hsz
        /\ h <= hsz /\ b <= sz /\ (b > 0 => h = hsz) /\ h > 0
        /\ h + b = (hw + bd) + bw /\ (hw + bd) + bw <= hsz + sz
        /\ (hw + bd) + bw < hsz + sz <=> ~(b >= sz)
  <2> DEFINE hb == Min({bw, hsz - hw})
  <2>1. /\ hb \in Nat /\ hb = IF bw <= hsz - hw THEN bw ELSE hsz - hw
        /\ hw + hb \in Nat /\ bd + bw - hb \in Nat /\ hw + hb <= hsz /\ bd + bw - hb <= sz
        /\ bd + bw - hb > 0 => hw + hb = hsz
        /\ hsz > 0 => hw + hb > 0
        /\ (hw + hb) + (bd + bw - hb) = (hw + bd) + bw /\ (hw + bd) + bw <= hsz + sz
        /\ (hw + bd) + bw < hsz + sz <=> ~(bd + bw - hb >= sz)
    BY <1>3, WriteCounts
  <2> HIDE DEF hb
  <2>2. hsz > 0
    BY <1>3
  <2>3. hw + hb = IF bw <= hsz - hw THEN hw + bw ELSE hsz
    BY <2>1
  <2> QED
    BY <2>1, <2>2, <2>3 DEF hb
<1>8. fd => hw + bd = 0 /\ bw >= Fixed /\ h >= Fixed
  <2> SUFFICES ASSUME fd PROVE hw + bd = 0 /\ bw >= Fixed /\ h >= Fixed
    OBVIOUS
  <2>1. queued[m].fd /\ ~passed
    BY <1>2
  <2>2. ~(hw > 0)
    BY <1>4, <2>1
  <2>3. hw = 0 /\ bd = 0 /\ hsz > Fixed /\ Fixed \in Nat
    BY <1>3, <2>2
  <2>4. bw >= Fixed /\ bw \in Nat
    BY <1>6
  <2>5. h = IF bw <= hsz - hw THEN hw + bw ELSE hsz
    BY <1>7
  <2> QED
    BY <2>3, <2>4, <2>5
<1> DEFINE isDone == b >= sz
           first == hw + bd
           to == Follows(queued, <<m, first + bw>>)
           t == Sending(m, first, bw, fd)
<1>9. /\ written' = IF isDone THEN m ELSE written
      /\ outHWritten' = IF isDone THEN 0 ELSE h
      /\ outBWritten' = IF isDone THEN 0 ELSE b
      /\ fdpassed' = (~isDone /\ (passed \/ fd))
  BY <1>2, <1>6, <1>7 DEF AfterWrite
<1>10. WriteAt' = to
  <2>1. to = IF first + bw < hsz + sz THEN <<m, first + bw + 1>> ELSE <<m + 1, 1>>
    BY <1>5 DEF Follows
  <2>2. CASE isDone
    <3>1. WriteAt' = <<m + 1, 0 + 0 + 1>>
      BY <1>9, <2>2 DEF WriteAt
    <3>2. ~(first + bw < hsz + sz)
      BY <1>7, <2>2
    <3> QED
      BY <2>1, <3>1, <3>2
  <2>3. CASE ~isDone
    <3>1. WriteAt' = <<written + 1, h + b + 1>>
      BY <1>9, <2>3 DEF WriteAt
    <3>2. first + bw < hsz + sz /\ h + b = first + bw
      BY <1>7, <2>3
    <3> HIDE DEF first
    <3> QED
      BY <1>2, <2>1, <3>1, <3>2
  <2> QED
    BY <2>2, <2>3
<1>11. t \in Seq(Bytes) /\ Len(t) = bw /\ Stretch(queued, t, <<m, first + 1>>, to)
  <2>1. first \in Nat /\ bw \in Nat \ {0} /\ first + bw <= Total(queued, m)
    BY <1>3, <1>5, <1>7
  <2>2. fd => queued[m].fd /\ first = 0
    BY <1>2, <1>8
  <2>3. queued[m].fd /\ ~fd => first >= Fixed
    <3>1. queued[m].fd /\ ~fd => passed
      BY <1>2
    <3>2. passed => first >= Fixed
      BY <1>3, <1>4
    <3> QED
      BY <3>1, <3>2
  <2> DEFINE q == queued
  <2>4. /\ q \in Seq(Kinds) /\ m \in DOMAIN q /\ first + bw <= Total(q, m)
        /\ fd => q[m].fd /\ first = 0
        /\ q[m].fd /\ ~fd => first >= Fixed
        /\ to = Follows(q, <<m, first + bw>>)
    BY <1>5, <2>1, <2>2, <2>3
  <2> HIDE DEF first, to, t, q
  <2>5. /\ Sending(m, first, bw, fd) \in Seq(Bytes) /\ Len(Sending(m, first, bw, fd)) = bw
        /\ Stretch(q, Sending(m, first, bw, fd), <<m, first + 1>>, to)
    BY <2>1, <2>4, SendingStretch
  <2> QED
    BY <2>5 DEF t, q
<1>12. /\ socket' \in Seq(Bytes) /\ Len(socket') <= Capacity
       /\ Stretch(queued', socket', ReadAt', WriteAt')
  <2> DEFINE mid == WriteAt
             from == ReadAt
  <2>1. mid = <<m, first + 1>>
    BY <1>2 DEF WriteAt
  <2>2. socket' = socket \o t
    BY <1>6
  <2>3. socket \in Seq(Bytes) /\ Stretch(queued, socket, from, mid)
    BY DEF StreamInv
  <2>4. ReadAt' = ReadAt
    BY <1>1 DEF inVars, ReadAt
  <2>5. Len(socket) + bw <= Capacity
    BY <1>6
  <2> HIDE DEF t, mid, to, from, first
  <2>6. t \in Seq(Bytes) /\ Len(t) = bw /\ Stretch(queued, t, mid, to)
    BY <1>11, <2>1
  <2>7. Stretch(queued, socket \o t, from, to)
    BY <2>3, <2>6, StretchJoined
  <2>8. socket \o t \in Seq(Bytes) /\ Len(socket \o t) = Len(socket) + Len(t)
    BY <2>3, <2>6
  <2> QED
    BY <1>1, <1>10, <2>2, <2>4, <2>5, <2>6, <2>7, <2>8 DEF from
<1>13. WriterOK'
  <2>1. /\ queued' \in Seq(Kinds) /\ written' \in 0 .. Len(queued')
        /\ outHWritten' \in Nat /\ outBWritten' \in Nat
    BY <1>1, <1>3, <1>5, <1>9
  <2>2. fdpassed' \in BOOLEAN
    BY <1>9
  <2>3. CASE isDone
    <3>1. outHWritten' = 0 /\ outBWritten' = 0 /\ fdpassed' = FALSE /\ written' = m
      BY <1>9, <2>3
    <3>2. m < Len(queued) => queued[m + 1].hsz \in Nat /\ queued[m + 1].sz > 0
      <4>1. m < Len(queued) => m + 1 \in DOMAIN queued
        BY <1>3, <1>5
      <4> QED
        BY <1>5, <4>1, KindFacts
    <3>3. \A x \in Nat : 0 <= x /\ ~(0 > 0)
      OBVIOUS
    <3> QED
      BY <1>1, <2>1, <2>2, <3>1, <3>2, <3>3 DEF WriterOK
  <2>4. CASE ~isDone
    <3>1. /\ outHWritten' = h /\ outBWritten' = b /\ written' = written
          /\ fdpassed' = (passed \/ fd)
      BY <1>9, <2>4
    <3>2. fdpassed' = queued[m].fd
      BY <1>2, <1>4, <3>1
    <3>3. fdpassed' => h >= Fixed
      <4>1. h >= hw
        <5>1. (h = hw + bw \/ h = hsz) /\ bw >= 0 /\ hw <= hsz
          BY <1>3, <1>7
        <5> QED
          BY <5>1
      <4>2. passed => h >= Fixed
        BY <1>3, <1>4, <4>1
      <4>3. fd => h >= Fixed
        BY <1>8
      <4>4. fdpassed' => passed \/ fd
        BY <3>1
      <4> QED
        BY <4>2, <4>3, <4>4
    <3>4. h <= hsz /\ b < sz /\ (b > 0 => h = hsz) /\ h > 0
      BY <1>7, <2>4
    <3> HIDE DEF isDone
    <3> QED
      BY <1>1, <1>2, <2>1, <2>2, <3>1, <3>2, <3>3, <3>4 DEF WriterOK
  <2> QED
    BY <2>3, <2>4
<1>14. ReaderOK' /\ OneFd(queued')
  BY <1>1 DEF StreamInv, ReaderOK, Sent, OneFd, HeaderOf, inVars
<1>15. /\ open' \in {{"writer", "reader"}, {"reader"}, {}} /\ broken' = FALSE
       /\ open' = {} => socket' = <<>>
  BY <1>1 DEF StreamInv, inVars
<1> QED
  BY <1>12, <1>13, <1>14, <1>15 DEF StreamInv

\* Only one message passes an fd.
LEMMA OneOfTwo ==
    ASSUME NEW S, IsFiniteSet(S), Cardinality(S) <= 1, NEW x \in S, NEW y \in S
    PROVE  x = y
<1> SUFFICES ASSUME x # y PROVE FALSE
  OBVIOUS
<1>1. /\ IsFiniteSet({x}) /\ Cardinality({x}) = 1
  BY FS_Singleton
<1>2. {x} \in SUBSET S
  OBVIOUS
<1>3. Cardinality({x}) <= Cardinality(S) /\ (Cardinality(S) = Cardinality({x}) => S = {x})
  BY <1>2, FS_Subset
<1>4. Cardinality(S) \in Nat
  BY FS_CardinalityType
<1>5. S = {x}
  BY <1>1, <1>3, <1>4
<1> QED
  BY <1>5

\* A message that is queued is behind all others.
LEMMA QueueOK ==
    ASSUME Uniform, StreamInv, Extern_queue_outgoing_message
    PROVE  StreamInv'
<1>1. PICK kind \in Kinds : queued' = Append(queued, kind)
  BY DEF Extern_queue_outgoing_message
<1>2. /\ Cardinality({m \in DOMAIN queued' : queued'[m].fd}) <= MaxFds
      /\ UNCHANGED <<written, outHWritten, outBWritten, fdpassed, inVars, socket, open>>
  BY DEF Extern_queue_outgoing_message
<1>3. /\ queued \in Seq(Kinds) /\ queued' \in Seq(Kinds)
      /\ Len(queued) \in Nat /\ Len(queued') = Len(queued) + 1
      /\ DOMAIN queued = 1 .. Len(queued) /\ DOMAIN queued' = 1 .. Len(queued')
      /\ \A i \in DOMAIN queued : queued'[i] = queued[i]
  BY <1>1 DEF StreamInv, WriterOK
<1>4. WriterOK'
  <2>1. /\ written' = written /\ outHWritten' = outHWritten /\ outBWritten' = outBWritten
        /\ fdpassed' = fdpassed
    BY <1>2
  <2>2. /\ written \in 0 .. Len(queued) /\ outHWritten \in Nat /\ outBWritten \in Nat
        /\ fdpassed \in BOOLEAN
    BY DEF StreamInv, WriterOK
  <2>3. CASE written < Len(queued)
    <3>1. written + 1 \in DOMAIN queued /\ written < Len(queued')
      BY <1>3, <2>2, <2>3
    <3>2. queued'[written + 1] = queued[written + 1]
      BY <1>3, <3>1
    <3>3. LET k == queued[written + 1]
          IN  /\ outHWritten <= k.hsz /\ outBWritten < k.sz
              /\ outBWritten > 0 => outHWritten = k.hsz
              /\ fdpassed <=> k.fd /\ outHWritten > 0
              /\ fdpassed => outHWritten >= Fixed
      BY <2>3 DEF StreamInv, WriterOK
    <3>4. written' \in 0 .. Len(queued')
      BY <1>3, <2>1, <2>2
    <3> QED
      BY <1>3, <2>1, <2>2, <3>1, <3>2, <3>3, <3>4 DEF WriterOK
  <2>4. CASE ~(written < Len(queued))
    <3>1. outHWritten = 0 /\ outBWritten = 0 /\ ~fdpassed
      BY <2>4 DEF StreamInv, WriterOK
    <3>2. written + 1 \in DOMAIN queued' /\ written < Len(queued') /\ written \in 0 .. Len(queued')
      BY <1>3, <2>2, <2>4
    <3>3. queued'[written + 1].hsz \in Nat /\ queued'[written + 1].sz > 0
      BY <1>3, <3>2, KindFacts
    <3>4. 0 <= queued'[written + 1].hsz /\ ~(0 > 0)
      BY <3>3
    <3> QED
      BY <1>3, <2>1, <2>2, <3>1, <3>2, <3>3, <3>4 DEF WriterOK
  <2> QED
    BY <2>3, <2>4
<1>5. ReaderOK'
  <2> DEFINE r == Len(received) + 1
  <2>1. /\ UNCHANGED <<inHRead, inBRead, inMsg, inLastFd, hbuf, received>>
    BY <1>2 DEF inVars
  <2>2. /\ received \in Seq([m : Nat, fd : Nat]) /\ r <= Len(queued) + 1
        /\ \A i \in 1 .. Len(received) : received[i] = Sent[i]
        /\ inHRead \in Nat /\ inBRead \in Nat /\ hbuf \in [1 .. Fixed -> Bytes]
        /\ inHRead > 0 => r \in DOMAIN queued
        /\ inLastFd = IF inHRead > 0 /\ queued[r].fd THEN r ELSE NoFd
    BY DEF StreamInv, ReaderOK
  <2>3. \A i \in 1 .. Len(received) : Sent'[i] = Sent[i]
    <3>1. \A i \in DOMAIN queued : Sent'[i] = Sent[i]
      <4>1. \A i \in DOMAIN queued : i \in DOMAIN queued'
        BY <1>3
      <4> QED
        BY <1>3, <4>1 DEF Sent
    <3>2. \A i \in 1 .. Len(received) : i \in DOMAIN queued
      BY <1>3, <2>2
    <3> QED
      BY <3>1, <3>2
  <2>4. inHRead > 0 => r \in DOMAIN queued' /\ queued'[r] = queued[r]
    BY <1>3, <2>2
  <2>5. r <= Len(queued') + 1
    BY <1>3, <2>2
  <2>6. CASE inHRead < Fixed
    <3>1. inMsg = NoMsg /\ inBRead = 0 /\ HeaderOf(queued, hbuf, r, inHRead)
      BY <2>6 DEF StreamInv, ReaderOK
    <3>2. HeaderOf(queued', hbuf, r, inHRead)
      <4>1. CASE inHRead > 0
        BY <2>4, <3>1, <4>1 DEF HeaderOf
      <4>2. CASE inHRead = 0
        BY <4>2 DEF HeaderOf
      <4> QED
        BY <2>2, <4>1, <4>2
    <3> HIDE DEF r
    <3>3. r' = r
      BY <2>1 DEF r
    <3> QED
      BY <2>1, <2>2, <2>3, <2>4, <2>5, <2>6, <3>1, <3>2, <3>3 DEF ReaderOK, r
  <2>7. CASE ~(inHRead < Fixed)
    <3>1. inHRead > 0
      BY <2>2, <2>7, StreamAssumption
    <3>2. /\ inMsg = [m |-> r, sz |-> queued[r].sz, fd |-> queued[r].fd, good |-> TRUE]
          /\ inHRead <= queued[r].hsz /\ inBRead < queued[r].sz
          /\ inBRead > 0 => inHRead = queued[r].hsz
          /\ HeaderOf(queued, hbuf, r, Fixed)
      BY <2>7 DEF StreamInv, ReaderOK
    <3>3. queued'[r] = queued[r] /\ HeaderOf(queued', hbuf, r, Fixed)
      BY <2>4, <3>1, <3>2 DEF HeaderOf
    <3> QED
      BY <2>1, <2>2, <2>3, <2>4, <2>5, <2>7, <3>2, <3>3 DEF ReaderOK
  <2> QED
    BY <2>6, <2>7
<1>6. OneFd(queued')
  <2> DEFINE S == {m \in DOMAIN queued' : queued'[m].fd}
  <2>1. IsFiniteSet(S) /\ Cardinality(S) \in Nat
    <3>1. IsFiniteSet(1 .. Len(queued')) /\ S \in SUBSET (1 .. Len(queued'))
      BY <1>3, FS_Interval
    <3> HIDE DEF S
    <3> QED
      BY <3>1, FS_Subset, FS_CardinalityType
  <2>2. Cardinality(S) <= 1
    <3>1. MaxFds \in Nat /\ MaxFds <= 1 /\ Cardinality(S) <= MaxFds
      BY <1>2, StreamAssumption DEF Uniform
    <3> HIDE DEF S
    <3> QED
      BY <2>1, <3>1
  <2>3. \A x, y \in S : x = y
    <3> HIDE DEF S
    <3> QED
      BY <2>1, <2>2, OneOfTwo
  <2> QED
    BY <2>3 DEF OneFd
<1>7. Stretch(queued', socket', ReadAt', WriteAt')
  <2>1. ReadAt' = ReadAt /\ WriteAt' = WriteAt /\ socket' = socket
    BY <1>2 DEF inVars, ReadAt, WriteAt
  <2> DEFINE from == ReadAt
             to == WriteAt
  <2>2. socket \in Seq(Bytes) /\ Stretch(queued, socket, from, to)
    BY DEF StreamInv
  <2> HIDE DEF from, to
  <2>3. Stretch(Append(queued, kind), socket, from, to)
    BY <1>3, <2>2, StretchQueued
  <2> QED
    BY <1>1, <2>1, <2>3 DEF from, to
<1> QED
  BY <1>2, <1>4, <1>5, <1>6, <1>7 DEF StreamInv, inVars

-----------------------------------------------------------------------------
(* The receiver *)

\* How n bytes are shared out when hlen and blen are still to come.
LEMMA ReadCounts ==
    ASSUME NEW n \in Nat \ {0}, NEW hlen \in Nat, NEW blen \in Nat
    PROVE  LET hbr == Min({n, hlen})
               bbr == Min({n - hbr, blen})
           IN  /\ hbr \in Nat /\ bbr \in Nat /\ n - hbr - bbr \in Nat
               /\ n >= hlen + blen => /\ hbr = hlen /\ bbr = blen
                                      /\ n - hbr - bbr = n - (hlen + blen)
               /\ n < hlen + blen =>
                    /\ hbr <= hlen /\ (blen > 0 => bbr < blen) /\ hbr + bbr = n /\ n - hbr - bbr = 0
                    /\ bbr > 0 => hbr = hlen
<1> DEFINE hbr == Min({n, hlen})
           left == n - hbr
           bbr == Min({left, blen})
<1>1. hbr = IF n <= hlen THEN n ELSE hlen
  BY MinOfTwo
<1> HIDE DEF hbr
<1>2. hbr \in Nat /\ left \in Nat /\ left = (IF n <= hlen THEN 0 ELSE n - hlen)
  BY <1>1
<1> HIDE DEF left
<1>3. bbr = IF left <= blen THEN left ELSE blen
  BY <1>2, MinOfTwo
<1> HIDE DEF bbr
<1>4. /\ hbr \in Nat /\ bbr \in Nat /\ n - hbr - bbr \in Nat
      /\ n >= hlen + blen => hbr = hlen /\ bbr = blen /\ n - hbr - bbr = n - (hlen + blen)
      /\ n < hlen + blen => /\ hbr <= hlen /\ (blen > 0 => bbr < blen) /\ hbr + bbr = n
                            /\ n - hbr - bbr = 0
                            /\ bbr > 0 => hbr = hlen
  <2>1. CASE n <= hlen
    BY <1>1, <1>2, <1>3, <2>1
  <2>2. CASE ~(n <= hlen)
    BY <1>1, <1>2, <1>3, <2>2
  <2> QED
    BY <2>1, <2>2
<1> QED
  BY <1>4 DEF hbr, bbr, left

\* Where neither length asks for anything, all n bytes are left over.
LEMMA ReadNothing ==
    ASSUME NEW n \in Nat \ {0}, NEW z \in Nat, z <= 0
    PROVE  LET hbr == Min({n, z})
               bbr == Min({n - hbr, z})
           IN  hbr = z /\ bbr = z /\ n - hbr - bbr = n
<1> DEFINE hbr == Min({n, z})
           bbr == Min({n - hbr, z})
<1>1. hbr = IF n <= z THEN n ELSE z
  BY MinOfTwo
<1> HIDE DEF hbr
<1>2. hbr = z
  BY <1>1
<1>3. n - hbr \in Nat
  BY <1>2
<1>4. bbr = IF n - hbr <= z THEN n - hbr ELSE z
  BY <1>3, MinOfTwo
<1> HIDE DEF bbr
<1>5. bbr = z /\ n - hbr - bbr = n
  BY <1>2, <1>4
<1> QED
  BY <1>2, <1>5 DEF hbr, bbr

\* The header buffer after bytes x + 1 to n of s have been put at place at.
LEMMA FillFacts ==
    ASSUME hbuf \in [1 .. Fixed -> Bytes], NEW s \in Seq(Bytes), NEW n \in 0 .. Len(s),
           NEW x \in 0 .. n, NEW at \in Nat, at + (n - x) <= Fixed
    PROVE  LET f == Fill(at, SubSeq(SubSeq(s, 1, n), x + 1, n))
           IN  /\ f \in [1 .. Fixed -> Bytes]
               /\ \A k \in 1 .. Fixed :
                    f[k] = IF k > at /\ k <= at + (n - x) THEN s[x + (k - at)] ELSE hbuf[k]
<1> DEFINE b == SubSeq(s, 1, n)
           c == SubSeq(b, x + 1, n)
           f == Fill(at, c)
<1>0. Fixed \in Nat /\ n \in Nat /\ x \in Nat /\ x <= n /\ Len(s) \in Nat /\ n <= Len(s)
  BY StreamAssumption
<1>1. b \in Seq(Bytes) /\ Len(b) = n /\ \A i \in 1 .. n : b[i] = s[i]
  BY <1>0
<1> HIDE DEF b
<1>2. /\ c \in Seq(Bytes) /\ DOMAIN c = 1 .. n - x
      /\ \A i \in 1 .. n - x : c[i] = b[x + i]
  BY <1>0, <1>1
<1> HIDE DEF c
<1>3. \A i \in 1 .. n - x : c[i] = s[x + i] /\ c[i] \in Bytes
  <2> SUFFICES ASSUME NEW i \in 1 .. n - x PROVE c[i] = s[x + i] /\ c[i] \in Bytes
    OBVIOUS
  <2>1. x + i \in 1 .. n
    BY <1>0
  <2> QED
    BY <1>1, <1>2, <2>1
<1>4. ASSUME NEW k \in 1 .. Fixed
      PROVE  /\ f[k] = IF k > at /\ k <= at + (n - x) THEN s[x + (k - at)] ELSE hbuf[k]
             /\ f[k] \in Bytes
  <2>1. f[k] = IF k - at \in DOMAIN c THEN c[k - at] ELSE hbuf[k]
    BY DEF Fill
  <2>2. k - at \in DOMAIN c <=> k > at /\ k <= at + (n - x)
    BY <1>0, <1>2
  <2>3. CASE k - at \in DOMAIN c
    <3>1. k - at \in 1 .. n - x
      BY <1>2, <2>3
    <3>2. c[k - at] = s[x + (k - at)] /\ c[k - at] \in Bytes
      BY <1>3, <3>1
    <3> QED
      BY <2>1, <2>2, <2>3, <3>2
  <2>4. CASE k - at \notin DOMAIN c
    BY <2>1, <2>2, <2>4
  <2> QED
    BY <2>3, <2>4
<1>5. f = [k \in 1 .. Fixed |-> f[k]]
  BY DEF Fill
<1> HIDE DEF f
<1>6. f \in [1 .. Fixed -> Bytes]
  BY <1>4, <1>5
<1> QED
  BY <1>4, <1>6 DEF f, c, b

\* The fds that come with n bytes.
FdsOf(n) == {SubSeq(socket, 1, n)[i].anc : i \in 1 .. n} \ {NoFd}

\* What Extern_reading makes of n bytes: hbr and bbr of them are of the message
\* that has been started, complete with them or not, and br of the next.
Result(n, started, hbr, bbr, br, complete) ==
    LET bs == SubSeq(socket, 1, n)
        fds == FdsOf(n)
        lastFd == IF fds = {} THEN inLastFd ELSE Max(fds)
        h == Fill(IF started THEN 0 ELSE inHRead, SubSeq(bs, hbr + bbr + 1, n))
        msg == [inMsg EXCEPT !.good =
                    @ /\ AreBytesOf(inMsg.m, inHRead + inBRead + 1, SubSeq(bs, 1, hbr + bbr))]
        hread == br + IF complete THEN 0 ELSE inHRead + hbr
        begun == HeaderRead(br, hread)
    IN  IF \/ fds # {} /\ inLastFd # NoFd
           \/ complete /\ ~Extern_validate_message(msg, inHRead + hbr, h)
           \/ begun /\ ~IsHeader(h)
        THEN Fail
        ELSE /\ received' = IF complete
                            THEN Append(received, [m |-> msg.m,
                                     fd |-> IF msg.fd THEN lastFd ELSE NoFd])
                            ELSE received
             /\ inLastFd' = IF complete /\ msg.fd THEN NoFd ELSE lastFd
             /\ inHRead' = hread
             /\ inBRead' = IF complete THEN 0 ELSE inBRead + bbr
             /\ inMsg' = IF begun
                         THEN [m |-> h[1].m, sz |-> queued[h[1].m].sz,
                               fd |-> h[Fixed].fd, good |-> TRUE]
                         ELSE IF complete THEN NoMsg ELSE msg
             /\ hbuf' = h
             /\ UNCHANGED <<broken, open>>

\* The same when hlen and blen are still to come.
Outcome(n, started, hlen, blen) ==
    LET hbr == Min({n, hlen})
        bbr == Min({n - hbr, blen})
    IN  Result(n, started, hbr, bbr, n - hbr - bbr, MessageRead(started, bbr, blen))

\* The reader is at message r, of which hr bytes of hsz and bd of sz have come,
\* and more are still to come.
AtMessage(r, hr, bd, hsz, sz, more) ==
    /\ r = Len(received) + 1 /\ r \in DOMAIN queued
    /\ hr = inHRead /\ bd = inBRead /\ hsz = queued[r].hsz /\ sz = queued[r].sz
    /\ more = (hsz - hr) + (sz - bd) /\ more > 0
    /\ hsz > Fixed /\ bd < sz /\ hr <= hsz /\ (bd > 0 => hr = hsz)

\* n bytes have been taken from the socket: those of message r after done, and
\* then those of the next.
Came(n, r, done, more) ==
    /\ n <= Len(socket)
    /\ \A i \in 1 .. n :
        /\ ByteOK(queued, socket[i])
        /\ socket[i].m = IF i <= more THEN r ELSE r + 1
        /\ socket[i].k = IF i <= more THEN done + i ELSE i - more
    /\ socket' \in Seq(Bytes) /\ Len(socket') <= Capacity
    /\ Stretch(queued, socket',
               IF n < more THEN <<r, done + n + 1>> ELSE <<r + 1, n - more + 1>>, WriteAt)

StartedMsg(r) == [m |-> r, sz |-> queued[r].sz, fd |-> queued[r].fd, good |-> TRUE]

\* The first n bytes of the socket are those that the reader waits for.
LEMMA CameFacts ==
    ASSUME Uniform, StreamInv, NEW r \in Nat, NEW hr \in Nat, NEW bd \in Nat, NEW hsz \in Nat,
           NEW sz \in Nat, NEW more \in Nat, AtMessage(r, hr, bd, hsz, sz, more),
           NEW n \in Nat \ {0}, n <= Len(socket), n <= more + Fixed,
           socket' = SubSeq(socket, n + 1, Len(socket))
    PROVE  Came(n, r, hr + bd, more)
<1> DEFINE k == hr + bd + 1
           from == <<r, k>>
           to == WriteAt
           s == socket
           q == queued
<1>1. /\ s \in Seq(Bytes) /\ q \in Seq(Kinds) /\ Len(s) \in Nat /\ Len(s) <= Capacity
      /\ Capacity \in Nat
  BY StreamAssumption DEF StreamInv, WriterOK
<1>2. Stretch(q, s, from, to)
  <2>1. ReadAt = from
    BY DEF AtMessage, ReadAt
  <2> QED
    BY <2>1 DEF StreamInv
<1>3. r \in DOMAIN q /\ Total(q, r) = hsz + sz /\ Fixed \in Nat
  BY StreamAssumption DEF AtMessage, Total
<1>4. k \in Nat \ {0} /\ k <= Total(q, r) /\ k + more = Total(q, r) + 1
  <2>1. more = (hsz - hr) + (sz - bd) /\ more > 0 /\ hr <= hsz /\ bd < sz
    BY DEF AtMessage
  <2>2. k \in Nat \ {0} /\ k <= hsz + sz /\ k + more = (hsz + sz) + 1
    BY <2>1
  <2> QED
    BY <1>3, <2>2
<1>5. n \in 0 .. Len(s) /\ n <= Len(s) /\ n <= more + Fixed /\ s' = SubSeq(s, n + 1, Len(s))
  BY <1>1
<1> HIDE DEF k, from, to, s, q
<1>6. \A i \in 1 .. n + 1 :
        PlaceOf(s, to, i) = IF i <= more THEN <<r, k + i - 1>> ELSE <<r + 1, i - more>>
  <2>1. Stretch(q, s, <<r, k>>, to)
    BY <1>2 DEF from
  <2> SUFFICES ASSUME NEW i \in 1 .. n + 1
               PROVE  PlaceOf(s, to, i) =
                        IF i <= more THEN <<r, k + i - 1>> ELSE <<r + 1, i - more>>
    OBVIOUS
  <2>2. PICK x \in Seq(Kinds), y \in Seq(Bytes), l \in Nat \ {0} : x = q /\ y = s /\ l = k
    BY <1>1, <1>4
  <2>5. PICK z : z = to
    OBVIOUS
  <2>3. /\ r \in DOMAIN x /\ l <= Total(x, r) /\ l + more = Total(x, r) + 1
        /\ n \in 0 .. Len(y) /\ n <= more + Fixed /\ Stretch(x, y, <<r, l>>, z)
    BY <1>3, <1>4, <1>5, <2>1, <2>2, <2>5
  <2>4. PlaceOf(y, z, i) = IF i <= more THEN <<r, l + i - 1>> ELSE <<r + 1, i - more>>
    BY <2>3, StretchHead
  <2> QED
    BY <2>2, <2>5, <2>4
<1>7. ASSUME NEW i \in 1 .. n
      PROVE  /\ ByteOK(q, s[i])
             /\ s[i].m = IF i <= more THEN r ELSE r + 1
             /\ s[i].k = IF i <= more THEN k + i - 1 ELSE i - more
  <2>1. i \in 1 .. Len(s) /\ i \in 1 .. n + 1 /\ i <= Len(s)
    BY <1>1, <1>5
  <2>2. ByteOK(q, s[i])
    BY <1>2, <2>1 DEF Stretch
  <2>3. PlaceOf(s, to, i) = <<s[i].m, s[i].k>>
    BY <2>1 DEF PlaceOf
  <2>4. PlaceOf(s, to, i) = IF i <= more THEN <<r, k + i - 1>> ELSE <<r + 1, i - more>>
    BY <1>6, <2>1
  <2> QED
    BY <2>2, <2>3, <2>4
<1>8. \A i \in Nat : k + i - 1 = hr + bd + i
  BY DEF k
<1>9. /\ s' \in Seq(Bytes) /\ Len(s') <= Capacity
      /\ Stretch(q, s', PlaceOf(s, to, n + 1), to)
  <2>1. /\ SubSeq(s, n + 1, Len(s)) \in Seq(Bytes)
        /\ Len(SubSeq(s, n + 1, Len(s))) = Len(s) - n
        /\ Stretch(q, SubSeq(s, n + 1, Len(s)), PlaceOf(s, to, n + 1), to)
    BY <1>1, <1>2, <1>5, StretchTaken
  <2>2. Len(s) - n <= Capacity
    BY <1>1
  <2> QED
    BY <1>5, <2>1, <2>2
<1>10. PlaceOf(s, to, n + 1) =
            IF n < more THEN <<r, (hr + bd) + n + 1>> ELSE <<r + 1, n - more + 1>>
  <2>1. n + 1 \in 1 .. n + 1 /\ (n + 1 <= more <=> n < more)
    OBVIOUS
  <2>2. PlaceOf(s, to, n + 1) =
            IF n < more THEN <<r, k + (n + 1) - 1>> ELSE <<r + 1, (n + 1) - more>>
    BY <1>6, <2>1
  <2>3. k + (n + 1) - 1 = (hr + bd) + n + 1 /\ (n + 1) - more = n - more + 1
    BY DEF k
  <2> QED
    BY <2>2, <2>3
<1>11. \A i \in 1 .. n :
        /\ ByteOK(q, s[i])
        /\ s[i].m = IF i <= more THEN r ELSE r + 1
        /\ s[i].k = IF i <= more THEN hr + bd + i ELSE i - more
  BY <1>7, <1>8
<1> QED
  BY <1>5, <1>9, <1>10, <1>11 DEF Came, q, s, to

\* Extern_reading takes bytes of the message that it waits for: of its fixed header
\* while there is no message yet, and otherwise of its rest and of the next.
LEMMA ReadingStart ==
    ASSUME Uniform, StreamInv, Extern_reading
    PROVE  \E r, hr, bd, hsz, sz, more \in Nat, n \in Nat \ {0} :
            /\ AtMessage(r, hr, bd, hsz, sz, more) /\ Came(n, r, hr + bd, more)
            /\ \/ /\ hr < Fixed /\ bd = 0 /\ inMsg = NoMsg /\ hr + n <= Fixed
                  /\ Outcome(n, FALSE, 0, 0)
               \/ /\ hr >= Fixed /\ inMsg = StartedMsg(r) /\ n <= more + Fixed
                  /\ Outcome(n, TRUE, hsz - hr, sz - bd)
<1> DEFINE started == inMsg # NoMsg
           hlen == IF started THEN queued[inMsg.m].hsz - inHRead ELSE 0
           blen == IF started THEN inMsg.sz - inBRead ELSE 0
           flen == IF started THEN Fixed ELSE Fixed - inHRead
<1>1. PICK n \in 1 .. Min({Len(socket), hlen + blen + flen}) :
        /\ socket' = SubSeq(socket, n + 1, Len(socket))
        /\ Outcome(n, started, hlen, blen)
  BY DEF Extern_reading, Outcome, Result, FdsOf
<1> HIDE DEF started, hlen, blen, flen
<1>2. /\ queued \in Seq(Kinds) /\ socket \in Seq(Bytes) /\ Len(socket) \in Nat
      /\ Fixed \in Nat /\ Fixed > 1 /\ received \in Seq([m : Nat, fd : Nat])
      /\ Len(received) \in Nat /\ inHRead \in Nat /\ inBRead \in Nat
      /\ inHRead > 0 => Len(received) + 1 \in DOMAIN queued
  <2>1. queued \in Seq(Kinds) /\ socket \in Seq(Bytes)
    BY DEF StreamInv, WriterOK
  <2>2. /\ received \in Seq([m : Nat, fd : Nat]) /\ inHRead \in Nat /\ inBRead \in Nat
        /\ inHRead > 0 => Len(received) + 1 \in DOMAIN queued
    BY DEF StreamInv, ReaderOK
  <2>3. Fixed \in Nat /\ Fixed > 1
    BY StreamAssumption
  <2> QED
    BY <2>1, <2>2, <2>3
<1>3. PICK r, hr, bd \in Nat : r = Len(received) + 1 /\ hr = inHRead /\ bd = inBRead
  BY <1>2
<1>4. Stretch(queued, socket, <<r, hr + bd + 1>>, WriteAt)
  BY <1>3 DEF StreamInv, ReadAt
<1>5. Len(socket) > 0 => r \in DOMAIN queued
  <2> SUFFICES ASSUME Len(socket) > 0 PROVE r \in DOMAIN queued
    OBVIOUS
  <2>1. 1 \in 1 .. Len(socket) /\ 1 <= Len(socket)
    BY <1>2
  <2>2. ByteOK(queued, socket[1]) /\ PlaceOf(socket, WriteAt, 1) = <<r, hr + bd + 1>>
    BY <1>4, <2>1 DEF Stretch
  <2>3. socket[1].m = r
    <3>1. PlaceOf(socket, WriteAt, 1) = <<socket[1].m, socket[1].k>>
      BY <2>1 DEF PlaceOf
    <3> QED
      BY <2>2, <3>1
  <2> QED
    BY <2>2, <2>3 DEF ByteOK
<1>6. CASE inHRead < Fixed
  <2>1. inMsg = NoMsg /\ bd = 0
    BY <1>3, <1>6 DEF StreamInv, ReaderOK
  <2>2. started = FALSE /\ hlen = 0 /\ blen = 0 /\ flen = Fixed - hr
    BY <1>3, <2>1 DEF started, hlen, blen, flen
  <2>3. n \in 1 .. Min({Len(socket), Fixed - hr}) /\ Fixed - hr \in Nat
    <3>1. 0 + 0 + (Fixed - hr) = Fixed - hr /\ Fixed - hr \in Nat
      BY <1>2, <1>3, <1>6
    <3>2. Min({Len(socket), hlen + blen + flen}) = Min({Len(socket), Fixed - hr})
      BY <2>2, <3>1
    <3> QED
      BY <3>1, <3>2
  <2>4. n \in Nat \ {0} /\ n <= Len(socket) /\ n <= Fixed - hr
    <3> DEFINE a == Fixed - hr
    <3>1. a \in Nat /\ n \in 1 .. Min({Len(socket), a})
      BY <2>3
    <3> HIDE DEF a
    <3>2. Min({Len(socket), a}) = IF Len(socket) <= a THEN Len(socket) ELSE a
      BY <1>2, <3>1, MinOfTwo
    <3>3. n \in Nat \ {0} /\ n <= Len(socket) /\ n <= a
      BY <1>2, <3>1, <3>2
    <3> QED
      BY <3>3 DEF a
  <2>5. r \in DOMAIN queued
    BY <1>2, <1>5, <2>4
  <2>6. PICK hsz, sz, more \in Nat :
            /\ hsz = queued[r].hsz /\ sz = queued[r].sz /\ hsz > Fixed /\ sz > 0
            /\ more = (hsz - hr) + (sz - bd) /\ more > 0 /\ hr <= hsz
    <3>1. /\ queued[r].hsz \in Nat /\ queued[r].sz \in Nat
          /\ queued[r].hsz > Fixed /\ queued[r].sz > 0
      BY <1>2, <2>5, KindFacts
    <3>2. PICK hsz, sz \in Nat : hsz = queued[r].hsz /\ sz = queued[r].sz /\ hsz > Fixed /\ sz > 0
      BY <3>1
    <3>3. (hsz - hr) + (sz - bd) \in Nat /\ (hsz - hr) + (sz - bd) > 0 /\ hr <= hsz
      <4>1. hr <= hsz
        BY <1>2, <1>3, <1>6, <2>1, <3>2
      <4>2. bd < sz
        BY <1>2, <1>3, <1>6, <2>1, <3>2
      <4> QED
        BY <4>1, <4>2
    <3>4. PICK more \in Nat : more = (hsz - hr) + (sz - bd)
      BY <3>3
    <3>5. more > 0
      BY <3>3, <3>4
    <3> QED
      BY <3>2, <3>3, <3>4, <3>5
  <2>7. AtMessage(r, hr, bd, hsz, sz, more)
    BY <1>3, <2>1, <2>5, <2>6 DEF AtMessage
  <2>8. n <= more + Fixed /\ hr + n <= Fixed /\ hr < Fixed
    BY <1>2, <1>3, <1>6, <2>1, <2>4, <2>6
  <2>9. Came(n, r, hr + bd, more)
    BY <1>1, <2>4, <2>7, <2>8, CameFacts
  <2>10. Outcome(n, FALSE, 0, 0)
    BY <1>1, <2>2
  <2> QED
    BY <2>1, <2>4, <2>7, <2>8, <2>9, <2>10
<1>7. CASE ~(inHRead < Fixed)
  <2>1. /\ inMsg = StartedMsg(r) /\ hr <= queued[r].hsz /\ bd < queued[r].sz
        /\ bd > 0 => hr = queued[r].hsz
    BY <1>3, <1>7 DEF StreamInv, ReaderOK, StartedMsg
  <2>2. r \in DOMAIN queued /\ r > 0
    BY <1>2, <1>3, <1>7
  <2>3. PICK hsz, sz, more \in Nat :
            /\ hsz = queued[r].hsz /\ sz = queued[r].sz /\ hsz > Fixed /\ hr <= hsz /\ bd < sz
            /\ bd > 0 => hr = hsz
            /\ more = (hsz - hr) + (sz - bd) /\ more > 0
    <3>1. /\ queued[r].hsz \in Nat /\ queued[r].sz \in Nat /\ queued[r].hsz > Fixed
      BY <1>2, <2>2, KindFacts
    <3>2. PICK hsz, sz \in Nat : /\ hsz = queued[r].hsz /\ sz = queued[r].sz /\ hsz > Fixed
                                 /\ hr <= hsz /\ bd < sz /\ (bd > 0 => hr = hsz)
      BY <2>1, <3>1
    <3>3. (hsz - hr) + (sz - bd) \in Nat /\ (hsz - hr) + (sz - bd) > 0
      <4>1. hr <= hsz /\ bd < sz
        BY <3>2
      <4> QED
        BY <4>1
    <3> QED
      BY <3>2, <3>3
  <2>4. inMsg.m = r /\ inMsg.sz = sz /\ inMsg # NoMsg
    <3>1. NoMsg.m = 0 /\ inMsg.m = r
      BY <2>1 DEF NoMsg, StartedMsg
    <3> QED
      BY <2>1, <2>2, <2>3, <3>1 DEF StartedMsg
  <2>5. started = TRUE /\ hlen = hsz - hr /\ blen = sz - bd /\ flen = Fixed
    BY <1>3, <2>3, <2>4 DEF started, hlen, blen, flen
  <2>6. n \in Nat \ {0} /\ n <= Len(socket) /\ n <= more + Fixed
    <3> DEFINE a == more + Fixed
    <3>1. a \in Nat /\ hlen + blen + flen = a
      <4>1. more = (hsz - hr) + (sz - bd)
        BY <2>3
      <4>2. hlen + blen + flen = (hsz - hr) + (sz - bd) + Fixed
        BY <2>5
      <4> QED
        BY <1>2, <4>1, <4>2
    <3>2. n \in 1 .. Min({Len(socket), a})
      BY <3>1
    <3> HIDE DEF a
    <3>3. Min({Len(socket), a}) = IF Len(socket) <= a THEN Len(socket) ELSE a
      BY <1>2, <3>1, MinOfTwo
    <3>4. n \in Nat \ {0} /\ n <= Len(socket) /\ n <= a
      BY <1>2, <3>1, <3>2, <3>3
    <3> QED
      BY <3>4 DEF a
  <2>7. AtMessage(r, hr, bd, hsz, sz, more)
    BY <1>3, <2>2, <2>3 DEF AtMessage
  <2>8. Came(n, r, hr + bd, more)
    BY <1>1, <2>6, <2>7, CameFacts
  <2>9. Outcome(n, TRUE, hsz - hr, sz - bd)
    BY <1>1, <2>5
  <2>10. hr >= Fixed
    BY <1>2, <1>3, <1>7
  <2> QED
    BY <2>1, <2>6, <2>7, <2>8, <2>9, <2>10
<1> QED
  BY <1>6, <1>7

\* The fds among them: that of the message if it begins with them, and that of
\* the next if it does.
LEMMA FdsCame ==
    ASSUME Uniform, StreamInv, NEW r \in DOMAIN queued, NEW done \in Nat,
           NEW more \in Nat \ {0}, NEW n \in Nat \ {0}, Came(n, r, done, more)
    PROVE  FdsOf(n) = (IF done = 0 /\ queued[r].fd THEN {r} ELSE {})
                        \cup (IF n > more /\ queued[r + 1].fd THEN {r + 1} ELSE {})
<1> DEFINE bs == SubSeq(socket, 1, n)
           a == IF done = 0 /\ queued[r].fd THEN {r} ELSE {}
           b == IF n > more /\ queued[r + 1].fd THEN {r + 1} ELSE {}
<1>1. socket \in Seq(Bytes) /\ queued \in Seq(Kinds) /\ n <= Len(socket) /\ r \in Nat \ {0}
  BY DEF StreamInv, WriterOK, Came
<1>2. \A i \in 1 .. n : bs[i] = socket[i]
  BY <1>1
<1> HIDE DEF bs
<1>3. ASSUME NEW i \in 1 .. n
      PROVE  bs[i].anc = IF i <= more
                         THEN IF i = 1 /\ done = 0 /\ queued[r].fd THEN r ELSE NoFd
                         ELSE IF i = more + 1 /\ queued[r + 1].fd THEN r + 1 ELSE NoFd
  <2>1. /\ bs[i].anc = IF bs[i].k = 1 /\ queued[bs[i].m].fd THEN bs[i].m ELSE NoFd
        /\ bs[i].m = IF i <= more THEN r ELSE r + 1
        /\ bs[i].k = IF i <= more THEN done + i ELSE i - more
    BY <1>2 DEF Came, ByteOK
  <2>2. done + i = 1 <=> i = 1 /\ done = 0
    OBVIOUS
  <2>3. i - more = 1 <=> i = more + 1
    OBVIOUS
  <2>4. CASE i <= more
    BY <2>1, <2>2, <2>4
  <2>5. CASE ~(i <= more)
    BY <2>1, <2>3, <2>5
  <2> QED
    BY <2>4, <2>5
<1>4. ASSUME NEW x \in {bs[i].anc : i \in 1 .. n} \ {NoFd}
      PROVE  x \in a \cup b
  <2>1. PICK i \in 1 .. n : x = bs[i].anc /\ x # NoFd
    OBVIOUS
  <2>2. CASE i <= more
    BY <1>3, <2>1, <2>2
  <2>3. CASE ~(i <= more)
    <3>1. i = more + 1 /\ queued[r + 1].fd /\ x = r + 1
      BY <1>3, <2>1, <2>3
    <3>2. n > more
      BY <3>1
    <3> QED
      BY <3>1, <3>2
  <2> QED
    BY <2>2, <2>3
<1>5. ASSUME NEW x \in a \cup b
      PROVE  x \in {bs[i].anc : i \in 1 .. n} \ {NoFd}
  <2>1. r # NoFd /\ r + 1 # NoFd
    BY <1>1 DEF NoFd
  <2>2. CASE x \in a
    <3>1. x = r /\ done = 0 /\ queued[r].fd
      BY <2>2
    <3>2. 1 \in 1 .. n /\ 1 <= more
      OBVIOUS
    <3>3. bs[1].anc = r
      BY <1>3, <3>1, <3>2
    <3> QED
      BY <2>1, <3>1, <3>2, <3>3
  <2>3. CASE x \in b
    <3>1. x = r + 1 /\ n > more /\ queued[r + 1].fd
      BY <2>3
    <3>2. more + 1 \in 1 .. n /\ ~(more + 1 <= more)
      BY <3>1
    <3>3. bs[more + 1].anc = r + 1
      BY <1>3, <3>1, <3>2
    <3> QED
      BY <2>1, <3>1, <3>2, <3>3
  <2> QED
    BY <2>2, <2>3
<1>6. {bs[i].anc : i \in 1 .. n} \ {NoFd} = a \cup b
  BY <1>4, <1>5
<1> QED
  BY <1>6 DEF bs, FdsOf

\* To set a field to what it is changes nothing.
LEMMA SameField ==
    ASSUME NEW f, f = [x \in DOMAIN f |-> f[x]]
    PROVE  /\ f.good = FALSE => [f EXCEPT !.good = FALSE] = f
           /\ f.good = TRUE => [f EXCEPT !.good = TRUE] = f
  OBVIOUS

\* n more bytes of the fixed header of message r, or all that are left of it.
LEMMA ReadHeader ==
    ASSUME Uniform, StreamInv, UNCHANGED outVars, NEW r \in Nat, NEW hr \in Nat, NEW bd \in Nat,
           NEW hsz \in Nat, NEW sz \in Nat, NEW more \in Nat, NEW n \in Nat \ {0},
           AtMessage(r, hr, bd, hsz, sz, more), Came(n, r, hr + bd, more),
           hr < Fixed, bd <= 0, inMsg = NoMsg, hr + n <= Fixed, Outcome(n, FALSE, 0, 0)
    PROVE  /\ ReaderOK' /\ ReadAt' = <<r, hr + bd + n + 1>> /\ n < more
           /\ received' = received /\ UNCHANGED <<broken, open>>
<1>1. /\ queued \in Seq(Kinds) /\ socket \in Seq(Bytes) /\ n <= Len(socket) /\ Len(socket) \in Nat
      /\ Fixed \in Nat /\ Fixed > 1 /\ hbuf \in [1 .. Fixed -> Bytes] /\ n \in Nat /\ n > 0
  <2>1. queued \in Seq(Kinds) /\ socket \in Seq(Bytes) /\ n <= Len(socket)
    BY DEF StreamInv, WriterOK, Came
  <2>2. Fixed \in Nat /\ Fixed > 1 /\ hbuf \in [1 .. Fixed -> Bytes]
    BY StreamAssumption DEF StreamInv, ReaderOK
  <2> QED
    BY <2>1, <2>2
<1>2. r \in DOMAIN queued /\ r \in Nat \ {0} /\ r = Len(received) + 1 /\ inHRead = hr /\ inBRead = 0
  BY <1>1 DEF AtMessage
<1>3. n < more /\ more \in Nat \ {0}
  <2>1. more = (hsz - hr) + (sz - bd) /\ hsz > Fixed /\ bd < sz /\ more > 0
    BY DEF AtMessage
  <2>2. more > hsz - hr
    BY <2>1
  <2>3. n < hsz - hr
    BY <1>1, <2>1
  <2> QED
    BY <1>1, <2>1, <2>2, <2>3
<1>4. Result(n, FALSE, 0, 0, n, FALSE)
  <2>1. PICK z \in Nat : z = 0
    OBVIOUS
  <2>2. Outcome(n, FALSE, z, z)
    BY <2>1
  <2> DEFINE hbr == Min({n, z})
             bbr == Min({n - hbr, z})
  <2>3. Result(n, FALSE, hbr, bbr, n - hbr - bbr, FALSE)
    BY <2>2 DEF Outcome, MessageRead
  <2>4. z <= 0
    BY <2>1
  <2>5. hbr = z /\ bbr = z /\ n - hbr - bbr = n
    BY <2>4, ReadNothing
  <2> HIDE DEF hbr, bbr
  <2> QED
    BY <2>1, <2>3, <2>5
<1> DEFINE bs == SubSeq(socket, 1, n)
           fds == FdsOf(n)
           lastFd == IF fds = {} THEN inLastFd ELSE Max(fds)
           h == Fill(hr, SubSeq(bs, 0 + 0 + 1, n))
           msg == [inMsg EXCEPT !.good =
                       @ /\ AreBytesOf(inMsg.m, inHRead + inBRead + 1, SubSeq(bs, 1, 0 + 0))]
           begun == HeaderRead(n, n + (inHRead + 0))
<1>5. IF (fds # {} /\ inLastFd # NoFd) \/ (begun /\ ~IsHeader(h))
      THEN Fail
      ELSE /\ received' = received /\ inLastFd' = lastFd
           /\ inHRead' = n + (inHRead + 0) /\ inBRead' = inBRead + 0
           /\ inMsg' = IF begun THEN [m |-> h[1].m, sz |-> queued[h[1].m].sz,
                                      fd |-> h[Fixed].fd, good |-> TRUE]
                       ELSE msg
           /\ hbuf' = h
           /\ UNCHANGED <<broken, open>>
  BY <1>2, <1>4 DEF Result
<1>6. fds = IF hr = 0 /\ queued[r].fd THEN {r} ELSE {}
  <2>1. fds = (IF hr + bd = 0 /\ queued[r].fd THEN {r} ELSE {})
                \cup (IF n > more /\ queued[r + 1].fd THEN {r + 1} ELSE {})
    <3>1. PICK done \in Nat : done = hr + bd
      OBVIOUS
    <3>2. Came(n, r, done, more)
      BY <3>1
    <3>3. fds = (IF done = 0 /\ queued[r].fd THEN {r} ELSE {})
                \cup (IF n > more /\ queued[r + 1].fd THEN {r + 1} ELSE {})
      BY <1>2, <1>3, <3>2, FdsCame
    <3> QED
      BY <3>1, <3>3
  <2>2. ~(n > more) /\ (hr + bd = 0 <=> hr = 0)
    BY <1>3
  <2> QED
    BY <2>1, <2>2
<1>7. /\ h \in [1 .. Fixed -> Bytes] /\ HeaderOf(queued, h, r, hr + n)
  <2>1. PICK z, at \in Nat : z = 0 /\ at = hr
    OBVIOUS
  <2>2. n \in 0 .. Len(socket) /\ z \in 0 .. n /\ at + (n - z) <= Fixed
    BY <1>1, <2>1
  <2> DEFINE f == Fill(at, SubSeq(SubSeq(socket, 1, n), z + 1, n))
  <2>3. /\ f \in [1 .. Fixed -> Bytes]
        /\ \A k \in 1 .. Fixed :
            f[k] = IF k > at /\ k <= at + (n - z) THEN socket[z + (k - at)] ELSE hbuf[k]
    BY <1>1, <2>2, FillFacts
  <2>4. f = h
    BY <2>1
  <2> HIDE DEF f, h
  <2>5. ASSUME NEW k \in 1 .. hr + n
        PROVE  h[k].m = r /\ h[k].k = k /\ h[k].fd = queued[r].fd
    <3>1. k \in 1 .. Fixed /\ k <= Fixed
      BY <1>1
    <3>2. CASE k <= hr
      <4>1. h[k] = hbuf[k] /\ k \in 1 .. hr
        BY <2>1, <2>3, <2>4, <3>1, <3>2
      <4>2. HeaderOf(queued, hbuf, r, hr)
        BY <1>2 DEF StreamInv, ReaderOK
      <4> QED
        BY <4>1, <4>2 DEF HeaderOf
    <3>3. CASE k > hr
      <4>1. PICK i \in 1 .. n : i = k - hr
        BY <3>3
      <4>2. 0 + (k - hr) = i /\ k > hr /\ k <= hr + (n - 0)
        BY <4>1
      <4>3. h[k] = socket[i]
        BY <2>1, <2>3, <2>4, <3>1, <4>2
      <4>4. i <= more /\ hr + bd + i = k
        BY <1>3, <4>1
      <4>5. socket[i].m = r /\ socket[i].k = k /\ ByteOK(queued, socket[i])
        BY <4>4 DEF Came
      <4> QED
        BY <3>1, <4>3, <4>5 DEF ByteOK
    <3> QED
      BY <3>2, <3>3
  <2> QED
    BY <2>3, <2>4, <2>5 DEF HeaderOf
<1>8. inLastFd = IF hr > 0 /\ queued[r].fd THEN r ELSE NoFd
  BY <1>2 DEF StreamInv, ReaderOK
<1>9. lastFd = IF queued[r].fd THEN r ELSE NoFd
  <2>1. Max({r}) = r
    BY MaxOfOne
  <2> HIDE DEF fds
  <2> QED
    BY <1>6, <1>8, <2>1
<1>10. begun <=> hr + n = Fixed
  BY <1>1, <1>2 DEF HeaderRead
<1>11. begun => IsHeader(h)
  <2> SUFFICES ASSUME begun PROVE IsHeader(h)
    OBVIOUS
  <2>1. HeaderOf(queued, h, r, Fixed) /\ 1 \in 1 .. Fixed
    BY <1>1, <1>7, <1>10
  <2> HIDE DEF h
  <2> QED
    BY <1>2, <2>1 DEF IsHeader, HeaderOf
<1>12. ~(fds # {} /\ inLastFd # NoFd)
  BY <1>6, <1>8
<1>13. /\ received' = received /\ inLastFd' = lastFd /\ inHRead' = hr + n /\ inBRead' = 0
       /\ inMsg' = IF hr + n = Fixed THEN StartedMsg(r) ELSE NoMsg
       /\ hbuf' = h /\ UNCHANGED <<broken, open>>
  <2>1. msg = NoMsg
    <3>1. (inMsg.good /\ AreBytesOf(inMsg.m, inHRead + inBRead + 1, SubSeq(bs, 1, 0 + 0))) = FALSE
      BY DEF NoMsg
    <3>2. msg = [inMsg EXCEPT !.good = FALSE]
      BY <3>1
    <3> HIDE DEF msg
    <3>3. [NoMsg EXCEPT !.good = FALSE] = NoMsg
      <4>1. NoMsg.good = FALSE /\ NoMsg = [x \in DOMAIN NoMsg |-> NoMsg[x]]
        BY DEF NoMsg
      <4> QED
        BY <4>1, SameField
    <3> QED
      BY <3>2, <3>3
  <2>2. hr + n = Fixed => h[1].m = r /\ h[Fixed].fd = queued[r].fd
    <3> HIDE DEF h
    <3> QED
      BY <1>1, <1>7 DEF HeaderOf
  <2>3. /\ received' = received /\ inLastFd' = lastFd /\ inHRead' = n + (inHRead + 0)
        /\ inBRead' = inBRead + 0 /\ hbuf' = h /\ UNCHANGED <<broken, open>>
        /\ inMsg' = IF begun THEN [m |-> h[1].m, sz |-> queued[h[1].m].sz,
                                   fd |-> h[Fixed].fd, good |-> TRUE]
                    ELSE msg
    <3> HIDE DEF h, fds, lastFd, begun, msg
    <3> QED
      BY <1>5, <1>11, <1>12
  <2> HIDE DEF h, fds, lastFd, begun, msg
  <2>4. n + (inHRead + 0) = hr + n /\ inBRead + 0 = 0
    BY <1>2
  <2> QED
    BY <1>10, <2>1, <2>2, <2>3, <2>4 DEF StartedMsg
<1>14. ReadAt' = <<r, hr + bd + n + 1>>
  <2>1. ReadAt' = <<Len(received) + 1, (hr + n) + 0 + 1>>
    BY <1>13 DEF ReadAt
  <2>2. (hr + n) + 0 + 1 = hr + bd + n + 1
    OBVIOUS
  <2> QED
    BY <1>2, <2>1, <2>2
<1> HIDE DEF h, fds, lastFd, begun, msg
<1>15. ReaderOK'
  <2>1. queued' = queued /\ Sent' = Sent
    BY DEF outVars, Sent
  <2>2. /\ received \in Seq([m : Nat, fd : Nat]) /\ Len(received) + 1 <= Len(queued) + 1
        /\ \A i \in 1 .. Len(received) : received[i] = Sent[i]
    BY DEF StreamInv, ReaderOK
  <2>3. CASE hr + n < Fixed
    <3>1. inMsg' = NoMsg /\ hr + n # Fixed
      BY <1>1, <1>13, <2>3
    <3>2. hr + n \in Nat /\ hr + n > 0
      BY <1>1
    <3> QED
      BY <1>2, <1>7, <1>9, <1>13, <2>1, <2>2, <2>3, <3>1, <3>2 DEF ReaderOK
  <2>4. CASE hr + n = Fixed
    <3>1. inMsg' = StartedMsg(r)
      BY <1>13, <2>4
    <3>2. Fixed <= queued[r].hsz /\ 0 < queued[r].sz /\ ~(0 > 0) /\ ~(Fixed < Fixed) /\ Fixed > 0
      BY <1>1, <1>2, KindFacts
    <3>3. HeaderOf(queued, h, r, Fixed)
      BY <1>7, <2>4
    <3> QED
      BY <1>1, <1>2, <1>7, <1>9, <1>13, <2>1, <2>2, <2>4, <3>1, <3>2, <3>3 DEF ReaderOK, StartedMsg
  <2> QED
    BY <1>1, <2>3, <2>4
<1> QED
  BY <1>3, <1>13, <1>14, <1>15

\* The bytes that are taken for those of message r are.
LEMMA BytesAre ==
    ASSUME StreamInv, NEW r \in Nat, NEW done \in Nat, NEW more \in Nat, NEW n \in Nat \ {0},
           Came(n, r, done, more), NEW x \in 0 .. n, x <= more
    PROVE  AreBytesOf(r, done + 1, SubSeq(SubSeq(socket, 1, n), 1, x))
<1> DEFINE b == SubSeq(socket, 1, n)
           c == SubSeq(b, 1, x)
<1>1. socket \in Seq(Bytes) /\ n <= Len(socket) /\ Len(socket) \in Nat /\ x \in Nat /\ x <= n
  BY DEF StreamInv, Came
<1>2. b \in Seq(Bytes) /\ Len(b) = n /\ \A i \in 1 .. n : b[i] = socket[i]
  BY <1>1
<1> HIDE DEF b
<1>3. DOMAIN c = 1 .. x /\ \A i \in 1 .. x : c[i] = b[i]
  BY <1>1, <1>2
<1> HIDE DEF c
<1>4. ASSUME NEW i \in DOMAIN c PROVE c[i].m = r /\ c[i].k = (done + 1) + i - 1
  <2>1. i \in 1 .. n /\ i <= more /\ c[i] = socket[i]
    BY <1>1, <1>2, <1>3
  <2>2. socket[i].m = r /\ socket[i].k = done + i
    BY <2>1 DEF Came
  <2> QED
    BY <2>1, <2>2
<1> QED
  BY <1>4 DEF AreBytesOf, b, c

\* n more bytes of message r, which are not the last.
LEMMA ReadPart ==
    ASSUME Uniform, StreamInv, UNCHANGED outVars, NEW r \in Nat, NEW hr \in Nat, NEW bd \in Nat,
           NEW hsz \in Nat, NEW sz \in Nat, NEW more \in Nat, NEW n \in Nat \ {0},
           AtMessage(r, hr, bd, hsz, sz, more), Came(n, r, hr + bd, more),
           hr >= Fixed, inMsg = StartedMsg(r), n < more, Outcome(n, TRUE, hsz - hr, sz - bd)
    PROVE  /\ ReaderOK' /\ ReadAt' = <<r, hr + bd + n + 1>>
           /\ received' = received /\ UNCHANGED <<broken, open>>
<1>1. /\ queued \in Seq(Kinds) /\ socket \in Seq(Bytes) /\ n <= Len(socket) /\ Len(socket) \in Nat
      /\ Fixed \in Nat /\ Fixed > 1 /\ hbuf \in [1 .. Fixed -> Bytes] /\ n \in Nat /\ n > 0
  <2>1. queued \in Seq(Kinds) /\ socket \in Seq(Bytes) /\ n <= Len(socket)
    BY DEF StreamInv, WriterOK, Came
  <2>2. Fixed \in Nat /\ Fixed > 1 /\ hbuf \in [1 .. Fixed -> Bytes]
    BY StreamAssumption DEF StreamInv, ReaderOK
  <2> QED
    BY <2>1, <2>2
<1>2. /\ r \in DOMAIN queued /\ r \in Nat \ {0} /\ r = Len(received) + 1
      /\ inHRead = hr /\ inBRead = bd /\ hsz = queued[r].hsz /\ sz = queued[r].sz
  BY <1>1 DEF AtMessage
<1>3. PICK hlen \in Nat, blen \in Nat \ {0} :
        /\ hlen = hsz - hr /\ blen = sz - bd /\ more = hlen + blen
        /\ hr <= hsz /\ bd < sz /\ (bd > 0 => hr = hsz)
  <2>1. /\ more = (hsz - hr) + (sz - bd) /\ hr <= hsz /\ bd < sz /\ (bd > 0 => hr = hsz)
    BY DEF AtMessage
  <2>2. hsz - hr \in Nat /\ sz - bd \in Nat \ {0}
    BY <2>1
  <2> QED
    BY <2>1, <2>2
<1>4. PICK hbr, bbr \in Nat :
        /\ Result(n, TRUE, hbr, bbr, 0, FALSE)
        /\ hbr <= hlen /\ bbr < blen /\ hbr + bbr = n /\ (bbr > 0 => hbr = hlen)
  <2> DEFINE x == Min({n, hlen})
             y == Min({n - x, blen})
  <2>1. Result(n, TRUE, x, y, n - x - y, y = blen)
    <3>1. Outcome(n, TRUE, hlen, blen)
      BY <1>3
    <3> QED
      BY <3>1 DEF Outcome, MessageRead
  <2>2. /\ x \in Nat /\ y \in Nat
        /\ n < hlen + blen => /\ x <= hlen /\ (blen > 0 => y < blen) /\ x + y = n /\ n - x - y = 0
                              /\ y > 0 => x = hlen
    BY ReadCounts
  <2> HIDE DEF x, y
  <2>3. /\ x <= hlen /\ y < blen /\ x + y = n /\ n - x - y = 0 /\ (y > 0 => x = hlen)
    BY <1>3, <2>2
  <2>4. (y = blen) = FALSE
    BY <2>2, <2>3
  <2> QED
    BY <2>1, <2>2, <2>3, <2>4
<1> DEFINE bs == SubSeq(socket, 1, n)
           fds == FdsOf(n)
           lastFd == IF fds = {} THEN inLastFd ELSE Max(fds)
           h == Fill(0, SubSeq(bs, hbr + bbr + 1, n))
           msg == [inMsg EXCEPT !.good =
                       @ /\ AreBytesOf(inMsg.m, inHRead + inBRead + 1, SubSeq(bs, 1, hbr + bbr))]
           begun == HeaderRead(0, 0 + (inHRead + hbr))
<1>5. IF (fds # {} /\ inLastFd # NoFd) \/ (begun /\ ~IsHeader(h))
      THEN Fail
      ELSE /\ received' = received /\ inLastFd' = lastFd
           /\ inHRead' = 0 + (inHRead + hbr) /\ inBRead' = inBRead + bbr
           /\ inMsg' = IF begun THEN [m |-> h[1].m, sz |-> queued[h[1].m].sz,
                                      fd |-> h[Fixed].fd, good |-> TRUE]
                       ELSE msg
           /\ hbuf' = h
           /\ UNCHANGED <<broken, open>>
  BY <1>4 DEF Result
<1>6. fds = {}
  <2>1. PICK done \in Nat : done = hr + bd
    OBVIOUS
  <2>2. Came(n, r, done, more) /\ more \in Nat \ {0}
    BY <2>1
  <2>3. fds = (IF done = 0 /\ queued[r].fd THEN {r} ELSE {})
                \cup (IF n > more /\ queued[r + 1].fd THEN {r + 1} ELSE {})
    BY <1>2, <2>2, FdsCame
  <2>4. ~(n > more) /\ done # 0
    BY <1>1, <2>1
  <2> QED
    BY <2>3, <2>4
<1>7. h = hbuf
  <2>1. PICK z, at \in Nat : z = n /\ at = 0
    OBVIOUS
  <2>2. n \in 0 .. Len(socket) /\ z \in 0 .. n /\ at + (n - z) <= Fixed
    BY <1>1, <2>1
  <2> DEFINE f == Fill(at, SubSeq(SubSeq(socket, 1, n), z + 1, n))
  <2>3. /\ f \in [1 .. Fixed -> Bytes]
        /\ \A k \in 1 .. Fixed :
            f[k] = IF k > at /\ k <= at + (n - z) THEN socket[z + (k - at)] ELSE hbuf[k]
    BY <1>1, <2>2, FillFacts
  <2>4. f = h
    BY <1>4, <2>1
  <2> HIDE DEF f, h
  <2>5. \A k \in 1 .. Fixed : f[k] = hbuf[k]
    BY <2>1, <2>3
  <2> QED
    BY <1>1, <2>3, <2>4, <2>5
<1>8. msg = inMsg
  <2>1. AreBytesOf(inMsg.m, inHRead + inBRead + 1, SubSeq(bs, 1, hbr + bbr))
    <3>1. PICK done, x \in Nat : done = hr + bd /\ x = hbr + bbr
      OBVIOUS
    <3>2. Came(n, r, done, more) /\ x \in 0 .. n /\ x <= more
      BY <1>4, <3>1
    <3>3. AreBytesOf(r, done + 1, SubSeq(SubSeq(socket, 1, n), 1, x))
      BY <3>2, BytesAre
    <3>4. inMsg.m = r /\ inHRead + inBRead + 1 = done + 1
      BY <1>2, <3>1 DEF StartedMsg
    <3> QED
      BY <3>1, <3>3, <3>4
  <2>2. inMsg.good = TRUE /\ inMsg = [x \in DOMAIN inMsg |-> inMsg[x]]
    BY DEF StartedMsg
  <2>3. msg = [inMsg EXCEPT !.good = TRUE]
    BY <2>1, <2>2
  <2> HIDE DEF msg
  <2> QED
    BY <2>2, <2>3, SameField
<1>9. /\ received' = received /\ inLastFd' = inLastFd /\ inHRead' = hr + hbr /\ inBRead' = bd + bbr
      /\ inMsg' = inMsg /\ hbuf' = hbuf /\ UNCHANGED <<broken, open>>
  <2>1. ~begun
    BY DEF HeaderRead
  <2>2. lastFd = inLastFd
    BY <1>6
  <2> HIDE DEF h, fds, lastFd, begun, msg
  <2>3. 0 + (inHRead + hbr) = hr + hbr /\ inBRead + bbr = bd + bbr
    BY <1>2
  <2> QED
    BY <1>5, <1>6, <1>7, <1>8, <2>1, <2>2, <2>3
<1> HIDE DEF h, fds, lastFd, begun, msg
<1>10. ReadAt' = <<r, hr + bd + n + 1>>
  <2>1. ReadAt' = <<Len(received) + 1, (hr + hbr) + (bd + bbr) + 1>>
    BY <1>9 DEF ReadAt
  <2>2. (hr + hbr) + (bd + bbr) + 1 = hr + bd + n + 1
    BY <1>4
  <2> QED
    BY <1>2, <2>1, <2>2
<1>11. ReaderOK'
  <2>1. queued' = queued /\ Sent' = Sent
    BY DEF outVars, Sent
  <2>2. /\ received \in Seq([m : Nat, fd : Nat]) /\ Len(received) + 1 <= Len(queued) + 1
        /\ \A i \in 1 .. Len(received) : received[i] = Sent[i]
        /\ inLastFd = IF inHRead > 0 /\ queued[r].fd THEN r ELSE NoFd
        /\ HeaderOf(queued, hbuf, r, Fixed)
    <3>1. /\ received \in Seq([m : Nat, fd : Nat]) /\ Len(received) + 1 <= Len(queued) + 1
          /\ \A i \in 1 .. Len(received) : received[i] = Sent[i]
      BY DEF StreamInv, ReaderOK
    <3>2. inLastFd = IF inHRead > 0 /\ queued[r].fd THEN r ELSE NoFd
      BY <1>2 DEF StreamInv, ReaderOK
    <3>3. ~(inHRead < Fixed)
      BY <1>1, <1>2
    <3>4. HeaderOf(queued, hbuf, r, Fixed)
      BY <1>2, <3>3 DEF StreamInv, ReaderOK
    <3> QED
      BY <3>1, <3>2, <3>4
  <2>3. inLastFd = IF hr + hbr > 0 /\ queued[r].fd THEN r ELSE NoFd
    <3>1. hr + hbr > 0 /\ inHRead > 0
      BY <1>1, <1>2
    <3> QED
      BY <2>2, <3>1
  <2>4. /\ ~(hr + hbr < Fixed) /\ hr + hbr <= hsz /\ bd + bbr < sz
        /\ bd + bbr > 0 => hr + hbr = hsz
        /\ hr + hbr \in Nat /\ bd + bbr \in Nat
    BY <1>1, <1>3, <1>4
  <2> QED
    BY <1>1, <1>2, <1>9, <2>1, <2>2, <2>3, <2>4 DEF ReaderOK, StartedMsg
<1> QED
  BY <1>9, <1>10, <1>11

\* The rest of message r, and as much of the fixed header of the next as has come.
LEMMA ReadRest ==
    ASSUME Uniform, StreamInv, UNCHANGED outVars, NEW r \in Nat, NEW hr \in Nat, NEW bd \in Nat,
           NEW hsz \in Nat, NEW sz \in Nat, NEW more \in Nat, NEW n \in Nat \ {0},
           AtMessage(r, hr, bd, hsz, sz, more), Came(n, r, hr + bd, more), n <= more + Fixed,
           hr >= Fixed, inMsg = StartedMsg(r), n >= more, Outcome(n, TRUE, hsz - hr, sz - bd)
    PROVE  /\ ReaderOK' /\ ReadAt' = <<r + 1, n - more + 1>>
           /\ received' = Append(received, Sent[r]) /\ UNCHANGED <<broken, open>>
<1>1. /\ queued \in Seq(Kinds) /\ socket \in Seq(Bytes) /\ n <= Len(socket) /\ Len(socket) \in Nat
      /\ Fixed \in Nat /\ Fixed > 1 /\ hbuf \in [1 .. Fixed -> Bytes] /\ n \in Nat /\ n > 0
  <2>1. queued \in Seq(Kinds) /\ socket \in Seq(Bytes) /\ n <= Len(socket)
    BY DEF StreamInv, WriterOK, Came
  <2>2. Fixed \in Nat /\ Fixed > 1 /\ hbuf \in [1 .. Fixed -> Bytes]
    BY StreamAssumption DEF StreamInv, ReaderOK
  <2> QED
    BY <2>1, <2>2
<1>2. /\ r \in DOMAIN queued /\ r \in Nat \ {0} /\ r = Len(received) + 1
      /\ inHRead = hr /\ inBRead = bd /\ hsz = queued[r].hsz /\ sz = queued[r].sz
      /\ received \in Seq([m : Nat, fd : Nat])
  <2>1. received \in Seq([m : Nat, fd : Nat])
    BY DEF StreamInv, ReaderOK
  <2> QED
    BY <1>1, <2>1 DEF AtMessage
<1>3. PICK hlen \in Nat, blen \in Nat \ {0}, br \in Nat :
        /\ hlen = hsz - hr /\ blen = sz - bd /\ more = hlen + blen
        /\ br = n - more /\ br <= Fixed /\ hr + hlen = hsz
  <2>1. /\ more = (hsz - hr) + (sz - bd) /\ hr <= hsz /\ bd < sz
    BY DEF AtMessage
  <2>2. hsz - hr \in Nat /\ sz - bd \in Nat \ {0} /\ n - more \in Nat /\ n - more <= Fixed
        /\ hr + (hsz - hr) = hsz
    BY <1>1, <2>1
  <2> QED
    BY <2>1, <2>2
<1>4. Result(n, TRUE, hlen, blen, br, TRUE)
  <2> DEFINE x == Min({n, hlen})
             y == Min({n - x, blen})
  <2>1. Result(n, TRUE, x, y, n - x - y, y = blen)
    <3>1. Outcome(n, TRUE, hlen, blen)
      BY <1>3
    <3> QED
      BY <3>1 DEF Outcome, MessageRead
  <2>2. n >= hlen + blen => x = hlen /\ y = blen /\ n - x - y = n - (hlen + blen)
    BY ReadCounts
  <2> HIDE DEF x, y
  <2>3. x = hlen /\ y = blen /\ n - x - y = br
    BY <1>3, <2>2
  <2>4. (y = blen) = TRUE
    BY <2>3
  <2> QED
    BY <2>1, <2>3, <2>4
<1> DEFINE bs == SubSeq(socket, 1, n)
           fds == FdsOf(n)
           lastFd == IF fds = {} THEN inLastFd ELSE Max(fds)
           h == Fill(0, SubSeq(bs, hlen + blen + 1, n))
           msg == [inMsg EXCEPT !.good =
                       @ /\ AreBytesOf(inMsg.m, inHRead + inBRead + 1, SubSeq(bs, 1, hlen + blen))]
           begun == HeaderRead(br, br + 0)
<1>5. IF \/ fds # {} /\ inLastFd # NoFd
         \/ ~Extern_validate_message(msg, inHRead + hlen, h)
         \/ begun /\ ~IsHeader(h)
      THEN Fail
      ELSE /\ received' = Append(received, [m |-> msg.m, fd |-> IF msg.fd THEN lastFd ELSE NoFd])
           /\ inLastFd' = IF msg.fd THEN NoFd ELSE lastFd
           /\ inHRead' = br + 0 /\ inBRead' = 0
           /\ inMsg' = IF begun THEN [m |-> h[1].m, sz |-> queued[h[1].m].sz,
                                      fd |-> h[Fixed].fd, good |-> TRUE]
                       ELSE NoMsg
           /\ hbuf' = h
           /\ UNCHANGED <<broken, open>>
  BY <1>4 DEF Result
<1>6. fds = IF br > 0 /\ queued[r + 1].fd THEN {r + 1} ELSE {}
  <2>1. PICK done \in Nat : done = hr + bd
    OBVIOUS
  <2>2. Came(n, r, done, more) /\ more \in Nat \ {0}
    BY <1>3, <2>1
  <2>3. fds = (IF done = 0 /\ queued[r].fd THEN {r} ELSE {})
                \cup (IF n > more /\ queued[r + 1].fd THEN {r + 1} ELSE {})
    BY <1>2, <2>2, FdsCame
  <2>4. (n > more <=> br > 0) /\ done # 0
    BY <1>1, <1>3, <2>1
  <2> QED
    BY <2>3, <2>4
<1>7. /\ h \in [1 .. Fixed -> Bytes]
      /\ \A k \in 1 .. Fixed : h[k] = IF k <= br THEN socket[more + k] ELSE hbuf[k]
  <2>1. PICK z, at \in Nat : z = more /\ at = 0
    OBVIOUS
  <2>2. n \in 0 .. Len(socket) /\ z \in 0 .. n /\ at + (n - z) <= Fixed
    BY <1>1, <2>1
  <2> DEFINE f == Fill(at, SubSeq(SubSeq(socket, 1, n), z + 1, n))
  <2>3. /\ f \in [1 .. Fixed -> Bytes]
        /\ \A k \in 1 .. Fixed :
            f[k] = IF k > at /\ k <= at + (n - z) THEN socket[z + (k - at)] ELSE hbuf[k]
    BY <1>1, <2>2, FillFacts
  <2>4. f = h
    BY <1>3, <2>1
  <2> HIDE DEF f, h
  <2>5. ASSUME NEW k \in 1 .. Fixed
        PROVE  h[k] = IF k <= br THEN socket[more + k] ELSE hbuf[k]
    <3>1. (k > at /\ k <= at + (n - z) <=> k <= br) /\ z + (k - at) = more + k
      BY <1>3, <2>1
    <3> QED
      BY <2>3, <2>4, <3>1
  <2> QED
    BY <2>3, <2>4, <2>5
<1>8. \A k \in 1 .. br : h[k].m = r + 1 /\ h[k].k = k /\ h[k].fd = queued[r + 1].fd
  <2> HIDE DEF h
  <2> SUFFICES ASSUME NEW k \in 1 .. br
               PROVE  h[k].m = r + 1 /\ h[k].k = k /\ h[k].fd = queued[r + 1].fd
    OBVIOUS
  <2>1. PICK i \in 1 .. n : i = more + k
    BY <1>3
  <2>2. k \in 1 .. Fixed /\ k <= br /\ ~(i <= more) /\ i - more = k /\ k <= Fixed
    BY <1>1, <1>3, <2>1
  <2>3. h[k] = socket[i]
    BY <1>7, <2>1, <2>2
  <2>4. socket[i].m = r + 1 /\ socket[i].k = k /\ ByteOK(queued, socket[i])
    BY <2>2 DEF Came
  <2> QED
    BY <2>2, <2>3, <2>4 DEF ByteOK
<1>9. br > 0 => r + 1 \in DOMAIN queued
  <2> SUFFICES ASSUME br > 0 PROVE r + 1 \in DOMAIN queued
    OBVIOUS
  <2>1. PICK i \in 1 .. n : i = more + 1
    BY <1>3
  <2>2. ~(i <= more)
    BY <2>1
  <2>3. socket[i].m = r + 1 /\ ByteOK(queued, socket[i])
    BY <2>2 DEF Came
  <2> QED
    BY <2>3 DEF ByteOK
<1>10. br > 0 /\ queued[r + 1].fd => ~queued[r].fd
  <2>1. OneFd(queued) /\ r # r + 1
    BY DEF StreamInv
  <2> QED
    BY <1>2, <1>9, <2>1 DEF OneFd
<1>11. /\ inLastFd = IF queued[r].fd THEN r ELSE NoFd
       /\ HeaderOf(queued, hbuf, r, Fixed)
  <2>1. inHRead > 0 /\ ~(inHRead < Fixed)
    BY <1>1, <1>2
  <2>2. inLastFd = IF inHRead > 0 /\ queued[r].fd THEN r ELSE NoFd
    BY <1>2 DEF StreamInv, ReaderOK
  <2>3. HeaderOf(queued, hbuf, r, Fixed)
    BY <1>2, <2>1 DEF StreamInv, ReaderOK
  <2> QED
    BY <2>1, <2>2, <2>3
<1>12. msg = inMsg
  <2>1. AreBytesOf(inMsg.m, inHRead + inBRead + 1, SubSeq(bs, 1, hlen + blen))
    <3>1. PICK done, x \in Nat : done = hr + bd /\ x = hlen + blen
      OBVIOUS
    <3>2. Came(n, r, done, more) /\ x \in 0 .. n /\ x <= more
      BY <1>3, <3>1
    <3>3. AreBytesOf(r, done + 1, SubSeq(SubSeq(socket, 1, n), 1, x))
      BY <3>2, BytesAre
    <3>4. inMsg.m = r /\ inHRead + inBRead + 1 = done + 1
      BY <1>2, <3>1 DEF StartedMsg
    <3> QED
      BY <3>1, <3>3, <3>4
  <2>2. inMsg.good = TRUE /\ inMsg = [x \in DOMAIN inMsg |-> inMsg[x]]
    BY DEF StartedMsg
  <2>3. msg = [inMsg EXCEPT !.good = TRUE]
    BY <2>1, <2>2
  <2> HIDE DEF msg
  <2> QED
    BY <2>2, <2>3, SameField
<1>13. begun <=> br = Fixed
  BY <1>1, <1>3 DEF HeaderRead
<1> HIDE DEF h, msg
<1>14. Extern_validate_message(msg, inHRead + hlen, h)
  <2>1. msg.good = TRUE /\ msg.m = r
    BY <1>12 DEF StartedMsg
  <2>2. inHRead + hlen = queued[r].hsz
    BY <1>2, <1>3
  <2>3. h[Fixed].m \in DOMAIN queued
    <3>1. Fixed \in 1 .. Fixed
      BY <1>1
    <3>2. CASE br = Fixed
      <4>1. Fixed \in 1 .. br /\ br > 0
        BY <1>1, <3>2
      <4> QED
        BY <1>8, <1>9, <4>1
    <3>3. CASE br # Fixed
      <4>1. ~(Fixed <= br)
        BY <1>1, <1>3, <3>3
      <4>2. h[Fixed] = hbuf[Fixed]
        BY <1>7, <3>1, <4>1
      <4> QED
        BY <1>2, <1>11, <3>1, <4>2 DEF HeaderOf
    <3> QED
      BY <3>2, <3>3
  <2>4. h[Fixed].m # 0 /\ queued[h[Fixed].m].hsz >= queued[r].hsz
    <3>1. queued[h[Fixed].m].hsz = queued[r].hsz /\ queued[r].hsz \in Nat
      BY <1>1, <1>2, <2>3, KindFacts
    <3>2. h[Fixed].m # 0
      BY <1>1, <2>3
    <3> QED
      BY <3>1, <3>2
  <2> QED
    BY <2>1, <2>2, <2>4 DEF Extern_validate_message
<1>15. begun => IsHeader(h)
  <2> SUFFICES ASSUME br = Fixed PROVE IsHeader(h)
    BY <1>13
  <2>1. 1 \in 1 .. Fixed /\ r + 1 # 0
    BY <1>1
  <2> QED
    BY <1>8, <2>1 DEF IsHeader
<1>16. ~(fds # {} /\ inLastFd # NoFd)
  BY <1>6, <1>10, <1>11
<1>17. lastFd = IF br > 0 /\ queued[r + 1].fd THEN r + 1
                ELSE IF queued[r].fd THEN r ELSE NoFd
  <2>1. Max({r + 1}) = r + 1
    <3>1. PICK x \in Nat : x = r + 1
      OBVIOUS
    <3> QED
      BY <3>1, MaxOfOne
  <2> HIDE DEF fds
  <2>2. CASE br > 0 /\ queued[r + 1].fd
    BY <1>6, <2>1, <2>2
  <2>3. CASE ~(br > 0 /\ queued[r + 1].fd)
    BY <1>6, <1>11, <2>3
  <2> QED
    BY <2>2, <2>3
<1> HIDE DEF fds, lastFd, begun
<1>18. /\ received' = Append(received, Sent[r])
       /\ inLastFd' = IF br > 0 /\ queued[r + 1].fd THEN r + 1 ELSE NoFd
       /\ inHRead' = br /\ inBRead' = 0
       /\ inMsg' = IF br = Fixed THEN StartedMsg(r + 1) ELSE NoMsg
       /\ hbuf' = h /\ UNCHANGED <<broken, open>>
  <2>1. msg.m = r /\ msg.fd = queued[r].fd
    BY <1>12 DEF StartedMsg
  <2>2. /\ received' = Append(received, [m |-> msg.m, fd |-> IF msg.fd THEN lastFd ELSE NoFd])
        /\ inLastFd' = IF msg.fd THEN NoFd ELSE lastFd
        /\ inHRead' = br + 0 /\ inBRead' = 0
        /\ inMsg' = IF begun THEN [m |-> h[1].m, sz |-> queued[h[1].m].sz,
                                   fd |-> h[Fixed].fd, good |-> TRUE]
                    ELSE NoMsg
        /\ hbuf' = h
        /\ UNCHANGED <<broken, open>>
    BY <1>5, <1>14, <1>15, <1>16
  <2>3. Sent[r] = [m |-> r, fd |-> IF queued[r].fd THEN r ELSE NoFd]
    BY <1>2 DEF Sent
  <2>4. (IF msg.fd THEN lastFd ELSE NoFd) = IF queued[r].fd THEN r ELSE NoFd
    BY <1>10, <1>17, <2>1
  <2>5. (IF msg.fd THEN NoFd ELSE lastFd) = IF br > 0 /\ queued[r + 1].fd THEN r + 1 ELSE NoFd
    BY <1>10, <1>17, <2>1
  <2>6. br = Fixed => h[1].m = r + 1 /\ h[Fixed].fd = queued[r + 1].fd
    <3>1. 1 \in 1 .. Fixed /\ Fixed \in 1 .. Fixed
      BY <1>1
    <3> QED
      BY <1>8, <3>1
  <2>7. inMsg' = IF br = Fixed THEN StartedMsg(r + 1) ELSE NoMsg
    BY <1>13, <2>2, <2>6 DEF StartedMsg
  <2>8. [m |-> msg.m, fd |-> IF msg.fd THEN lastFd ELSE NoFd] = Sent[r]
    BY <2>1, <2>3, <2>4
  <2>9. received' = Append(received, Sent[r])
    BY <2>2, <2>8
  <2>10. inLastFd' = IF br > 0 /\ queued[r + 1].fd THEN r + 1 ELSE NoFd
    BY <2>2, <2>5
  <2>11. inHRead' = br /\ inBRead' = 0 /\ hbuf' = h /\ UNCHANGED <<broken, open>>
    BY <2>2
  <2> QED
    BY <2>7, <2>9, <2>10, <2>11
<1>19. /\ received' \in Seq([m : Nat, fd : Nat]) /\ Len(received') = r
       /\ \A i \in 1 .. r : received'[i] = Sent[i]
  <2>1. Sent[r] \in [m : Nat, fd : Nat]
    BY <1>2 DEF Sent, NoFd
  <2>2. received' \in Seq([m : Nat, fd : Nat]) /\ Len(received') = r /\ received'[r] = Sent[r]
        /\ \A i \in 1 .. Len(received) : received'[i] = received[i]
    BY <1>2, <1>18, <2>1
  <2>3. \A i \in 1 .. Len(received) : received[i] = Sent[i]
    BY DEF StreamInv, ReaderOK
  <2>4. \A i \in 1 .. r : i = r \/ i \in 1 .. Len(received)
    BY <1>2
  <2> QED
    BY <2>2, <2>3, <2>4
<1>20. ReadAt' = <<r + 1, n - more + 1>>
  <2>1. ReadAt' = <<r + 1, br + 0 + 1>>
    BY <1>18, <1>19 DEF ReadAt
  <2> QED
    BY <1>3, <2>1
<1>21. ReaderOK'
  <2>1. queued' = queued /\ Sent' = Sent
    BY DEF outVars, Sent
  <2>2. r + 1 <= Len(queued) + 1
    BY <1>1, <1>2
  <2>3. \A k \in 1 .. br : h[k].m = r + 1 /\ h[k].k = k /\ h[k].fd = queued[r + 1].fd
    BY <1>8
  <2>4. CASE br < Fixed
    <3>1. inMsg' = NoMsg
      BY <1>1, <1>18, <2>4
    <3>2. HeaderOf(queued, h, r + 1, br)
      BY <2>3 DEF HeaderOf
    <3> QED
      BY <1>7, <1>9, <1>18, <1>19, <2>1, <2>2, <2>4, <3>1, <3>2 DEF ReaderOK
  <2>5. CASE br = Fixed
    <3>1. inMsg' = StartedMsg(r + 1)
      BY <1>18, <2>5
    <3>2. r + 1 \in DOMAIN queued
      BY <1>1, <1>9, <2>5
    <3>3. /\ Fixed <= queued[r + 1].hsz /\ 0 < queued[r + 1].sz
          /\ ~(0 > 0) /\ ~(Fixed < Fixed) /\ Fixed > 0
      <4>1. queued[r + 1].hsz \in Nat /\ queued[r + 1].sz \in Nat
            /\ queued[r + 1].hsz > Fixed /\ queued[r + 1].sz > 0
        BY <1>1, <3>2, KindFacts
      <4> QED
        BY <1>1, <4>1
    <3>4. HeaderOf(queued, h, r + 1, Fixed)
      BY <2>3, <2>5 DEF HeaderOf
    <3> QED
      BY <1>1, <1>7, <1>9, <1>18, <1>19, <2>1, <2>2, <2>5, <3>1, <3>2, <3>3, <3>4
         DEF ReaderOK, StartedMsg
  <2> QED
    BY <1>1, <1>3, <2>4, <2>5
<1> QED
  BY <1>18, <1>20, <1>21

\* The message that is received, if one is.
Receives ==
    /\ Len(received) + 1 \in DOMAIN queued
    /\ received' = Append(received, Sent[Len(received) + 1])

\* Extern_reading, at whatever place of a message it starts.
LEMMA ReadingOK ==
    ASSUME Uniform, StreamInv, Extern_reading
    PROVE  StreamInv' /\ (received' = received \/ Receives)
<1>1. PICK r, hr, bd, hsz, sz, more \in Nat, n \in Nat \ {0} :
        /\ AtMessage(r, hr, bd, hsz, sz, more) /\ Came(n, r, hr + bd, more)
        /\ \/ /\ hr < Fixed /\ bd = 0 /\ inMsg = NoMsg /\ hr + n <= Fixed
              /\ Outcome(n, FALSE, 0, 0)
           \/ /\ hr >= Fixed /\ inMsg = StartedMsg(r) /\ n <= more + Fixed
              /\ Outcome(n, TRUE, hsz - hr, sz - bd)
  BY ReadingStart
<1>2. UNCHANGED outVars /\ "reader" \in open
  BY DEF Extern_reading
<1> DEFINE at == IF n < more THEN <<r, hr + bd + n + 1>> ELSE <<r + 1, n - more + 1>>
<1>3. /\ ReaderOK' /\ ReadAt' = at /\ UNCHANGED <<broken, open>>
      /\ received' = received \/ Receives
  <2>1. CASE /\ hr < Fixed /\ bd = 0 /\ inMsg = NoMsg /\ hr + n <= Fixed
             /\ Outcome(n, FALSE, 0, 0)
    <3>1. /\ AtMessage(r, hr, bd, hsz, sz, more) /\ Came(n, r, hr + bd, more)
      BY <1>1
    <3>2. hr < Fixed /\ bd <= 0 /\ inMsg = NoMsg /\ hr + n <= Fixed
      BY <2>1
    <3>3. Outcome(n, FALSE, 0, 0)
      BY <2>1
    <3>4. /\ ReaderOK' /\ ReadAt' = <<r, hr + bd + n + 1>> /\ n < more
          /\ received' = received /\ UNCHANGED <<broken, open>>
      BY <1>2, <3>1, <3>2, <3>3, ReadHeader
    <3> QED
      BY <3>4
  <2>2. CASE /\ hr >= Fixed /\ inMsg = StartedMsg(r) /\ n <= more + Fixed
             /\ Outcome(n, TRUE, hsz - hr, sz - bd)
    <3>1. CASE n < more
      <4>1. /\ ReaderOK' /\ ReadAt' = <<r, hr + bd + n + 1>>
            /\ received' = received /\ UNCHANGED <<broken, open>>
        BY <1>1, <1>2, <2>2, <3>1, ReadPart
      <4> QED
        BY <3>1, <4>1
    <3>2. CASE n >= more
      <4>1. /\ ReaderOK' /\ ReadAt' = <<r + 1, n - more + 1>>
            /\ received' = Append(received, Sent[r]) /\ UNCHANGED <<broken, open>>
        BY <1>1, <1>2, <2>2, <3>2, ReadRest
      <4>2. ~(n < more)
        BY <3>2
      <4>3. Receives
        BY <1>1, <4>1 DEF AtMessage, Receives
      <4> QED
        BY <4>1, <4>2, <4>3
    <3> QED
      BY <3>1, <3>2
  <2> QED
    BY <1>1, <2>1, <2>2
<1>4. WriterOK' /\ OneFd(queued') /\ WriteAt' = WriteAt /\ queued' = queued
  BY <1>2 DEF StreamInv, WriterOK, OneFd, outVars, WriteAt
<1>5. /\ socket' \in Seq(Bytes) /\ Len(socket') <= Capacity
      /\ Stretch(queued', socket', ReadAt', WriteAt')
  <2>1. /\ socket' \in Seq(Bytes) /\ Len(socket') <= Capacity
        /\ Stretch(queued, socket', at, WriteAt)
    BY <1>1 DEF Came
  <2> HIDE DEF at
  <2> QED
    BY <1>3, <1>4, <2>1
<1>6. /\ open' \in {{"writer", "reader"}, {"reader"}, {}} /\ broken' = FALSE /\ open' # {}
  BY <1>2, <1>3 DEF StreamInv
<1> QED
  BY <1>3, <1>4, <1>5, <1>6 DEF StreamInv

\* The ends close, the writer first.
LEMMA CloseOK ==
    ASSUME StreamInv, Extern_Extern_close \/ ReadClosed \/ UNCHANGED vars
    PROVE  StreamInv'
<1>1. /\ UNCHANGED <<queued, written, outHWritten, outBWritten, fdpassed, socket, inHRead, inBRead,
                     inMsg, inLastFd, hbuf, received, broken>>
  BY DEF Extern_Extern_close, ReadClosed, vars, outVars, inVars
<1>2. /\ open' \in {{"writer", "reader"}, {"reader"}, {}}
      /\ open' = {} => socket' = <<>>
  <2>1. /\ open \in {{"writer", "reader"}, {"reader"}, {}}
        /\ open = {} => socket = <<>>
    BY DEF StreamInv
  <2>2. CASE Extern_Extern_close
    <3>1. "writer" \in open /\ open' = open \ {"writer"}
      BY <2>2 DEF Extern_Extern_close
    <3>2. open = {"writer", "reader"}
      BY <2>1, <3>1
    <3>3. open' = {"reader"}
      BY <3>1, <3>2
    <3> QED
      BY <3>3
  <2>3. CASE ReadClosed
    BY <2>3 DEF ReadClosed
  <2>4. CASE UNCHANGED vars
    BY <2>1, <2>4 DEF vars
  <2> QED
    BY <2>2, <2>3, <2>4
<1>3. WriterOK' /\ ReaderOK' /\ OneFd(queued')
  BY <1>1 DEF StreamInv, WriterOK, ReaderOK, OneFd, HeaderOf, Sent
<1>4. Stretch(queued', socket', ReadAt', WriteAt')
  BY <1>1 DEF StreamInv, ReadAt, WriteAt
<1> QED
  BY <1>1, <1>2, <1>3, <1>4 DEF StreamInv

\* Nothing is under way.
LEMMA InitOK ==
    ASSUME Init
    PROVE  StreamInv
<1>1. WriterOK
  <2>1. queued \in Seq(Kinds) /\ Len(queued) = 0
    BY DEF Init
  <2>2. ~(written < Len(queued)) /\ written \in 0 .. Len(queued)
    BY <2>1 DEF Init
  <2> QED
    BY <2>1, <2>2 DEF Init, WriterOK
<1>2. Len(received) = 0 /\ Len(queued) = 0 /\ Len(socket) = 0
  BY DEF Init
<1>3. ReaderOK
  <2>1. hbuf \in [1 .. Fixed -> Bytes]
    BY DEF Init, NoByte, Byte, Bytes, NoFd
  <2>2. 0 < Fixed
    BY StreamAssumption
  <2>3. HeaderOf(queued, hbuf, 1, 0)
    BY DEF HeaderOf
  <2> QED
    BY <1>2, <2>1, <2>2, <2>3 DEF Init, ReaderOK
<1>4. Stretch(queued, socket, ReadAt, WriteAt)
  BY <1>2 DEF Init, Stretch, PlaceOf, ReadAt, WriteAt
<1> QED
  BY <1>1, <1>2, <1>3, <1>4, StreamAssumption DEF Init, StreamInv, OneFd

-----------------------------------------------------------------------------
(* The theorems *)

\* Each end is where the bytes under way say it is, after any pieces.
THEOREM StreamInvariance ==
    ASSUME Uniform
    PROVE  Spec => []StreamInv
<1>1. Init => StreamInv
  BY InitOK
<1>2. StreamInv /\ [Next]_vars => StreamInv'
  BY QueueOK, WritingOK, ReadingOK, CloseOK DEF Next
<1> QED
  BY <1>1, <1>2, PTL DEF Spec

\* The places of the two ends give all of StreamSound.
LEMMA InvSound ==
    ASSUME Uniform, StreamInv
    PROVE  StreamSound
<1>1. /\ queued \in Seq(Kinds) /\ written \in Nat /\ Len(received) \in Nat
      /\ outHWritten \in Nat /\ outBWritten \in Nat /\ inHRead \in Nat /\ inBRead \in Nat
      /\ received \in Seq([m : Nat, fd : Nat])
      /\ inHRead > 0 => Len(received) + 1 \in DOMAIN queued
  BY DEF StreamInv, WriterOK, ReaderOK
<1>2. Fixed \in Nat /\ Fixed > 1
  BY StreamAssumption
<1>3. inHRead < Fixed => inMsg = NoMsg /\ inBRead = 0
  BY DEF StreamInv, ReaderOK
<1>4. ~(inHRead < Fixed) =>
        /\ inMsg = StartedMsg(Len(received) + 1) /\ Len(received) + 1 \in DOMAIN queued
        /\ inMsg # NoMsg /\ inHRead > 0
  <2> SUFFICES ASSUME ~(inHRead < Fixed)
               PROVE  /\ inMsg = StartedMsg(Len(received) + 1)
                      /\ Len(received) + 1 \in DOMAIN queued
                      /\ inMsg # NoMsg /\ inHRead > 0
    OBVIOUS
  <2>1. inMsg = StartedMsg(Len(received) + 1)
    BY DEF StreamInv, ReaderOK, StartedMsg
  <2>2. inHRead > 0
    BY <1>1, <1>2
  <2>3. inMsg.m = Len(received) + 1 /\ NoMsg.m = 0
    BY <2>1 DEF StartedMsg, NoMsg
  <2>4. Len(received) + 1 # 0
    BY <1>1
  <2> QED
    BY <1>1, <2>1, <2>2, <2>3, <2>4
<1>5. TypeOK
  <2>1. inMsg \in [m : Nat, sz : Nat, fd : BOOLEAN, good : BOOLEAN]
    <3>1. CASE inHRead < Fixed
      <4>1. inMsg = NoMsg
        BY <1>3, <3>1
      <4>2. NoMsg \in [m : Nat, sz : Nat, fd : BOOLEAN, good : BOOLEAN]
        BY DEF NoMsg
      <4> QED
        BY <4>1, <4>2
    <3>2. CASE ~(inHRead < Fixed)
      <4> DEFINE r == Len(received) + 1
      <4>1. r \in Nat /\ queued[r].sz \in Nat /\ queued[r].fd \in BOOLEAN
        BY <1>1, <1>4, <3>2, KindFacts
      <4> HIDE DEF r
      <4>2. inMsg = StartedMsg(r)
        BY <1>4, <3>2 DEF r
      <4> QED
        BY <4>1, <4>2 DEF StartedMsg
    <3> QED
      BY <3>1, <3>2
  <2>2. inLastFd \in Nat
    <3>1. inLastFd = Len(received) + 1 \/ inLastFd = 0
      BY DEF StreamInv, ReaderOK, NoFd
    <3> QED
      BY <1>1, <3>1
  <2>3. inHRead < Fixed <=> inMsg = NoMsg
    BY <1>3, <1>4
  <2>4. /\ queued \in Seq(Kinds) /\ written \in 0 .. Len(queued)
        /\ outHWritten \in Nat /\ outBWritten \in Nat /\ fdpassed \in BOOLEAN
    BY DEF StreamInv, WriterOK
  <2>5. /\ socket \in Seq(Bytes) /\ Len(socket) <= Capacity
        /\ open \subseteq {"writer", "reader"} /\ broken \in BOOLEAN
    BY DEF StreamInv
  <2>6. hbuf \in [1 .. Fixed -> Bytes]
    BY DEF StreamInv, ReaderOK
  <2> QED
    BY <1>1, <2>1, <2>2, <2>3, <2>4, <2>5, <2>6 DEF TypeOK
<1>6. StreamIntact
  BY DEF StreamInv, StreamIntact
<1>7. ClosedClean
  <2> SUFFICES ASSUME open = {}
               PROVE  /\ Len(received) = written
                      /\ (inMsg # NoMsg \/ inHRead > 0) <=> outHWritten + outBWritten > 0
    BY DEF ClosedClean
  <2>1. Len(socket) = 0 /\ Stretch(queued, socket, ReadAt, WriteAt)
    BY DEF StreamInv
  <2>2. ReadAt = WriteAt
    BY <2>1 DEF Stretch, PlaceOf
  <2>3. /\ Len(received) + 1 = written + 1
        /\ inHRead + inBRead + 1 = outHWritten + outBWritten + 1
    BY <2>2 DEF ReadAt, WriteAt
  <2>4. Len(received) = written /\ inHRead + inBRead = outHWritten + outBWritten
    BY <1>1, <2>3
  <2>5. (inMsg # NoMsg \/ inHRead > 0) <=> inHRead + inBRead > 0
    BY <1>1, <1>2, <1>3, <1>4
  <2> QED
    BY <2>4, <2>5
<1> QED
  BY <1>5, <1>6, <1>7 DEF StreamSound

\* Extern_reading loses nothing and mistakes nothing, whatever the messages and
\* the pieces in which they come: no message is refused, and at the end of the
\* stream nothing is left half read.
THEOREM StreamCorrect ==
    ASSUME Uniform
    PROVE  Spec => []StreamSound
<1>1. StreamInv => StreamSound
  BY InvSound
<1> QED
  BY <1>1, StreamInvariance, PTL

\* What is queued and what is received are a queue that loses, repeats and
\* reorders nothing: Extern_writing and Extern_reading implement MsgFifo.
THEOREM StreamImplements ==
    ASSUME Uniform
    PROVE  Spec => FifoSpec
<1>1. Init => Fifo!FifoInit
  <2> SUFFICES ASSUME Init PROVE Fifo!FifoInit
    OBVIOUS
  <2>1. Sent = <<>>
    BY DEF Init, Sent
  <2> QED
    BY <2>1 DEF Init, Fifo!FifoInit
<1>2. ASSUME StreamInv, [Next]_vars
      PROVE  [Fifo!FifoNext]_Fifo!fifoVars
  <2>0. queued \in Seq(Kinds) /\ received \in Seq([m : Nat, fd : Nat]) /\ broken = FALSE
    BY <1>2 DEF StreamInv, WriterOK, ReaderOK
  <2>1. CASE Extern_queue_outgoing_message
    <3>1. PICK kind \in Kinds : queued' = Append(queued, kind)
      BY <2>1 DEF Extern_queue_outgoing_message
    <3>2. UNCHANGED <<received, broken>>
      BY <2>1 DEF Extern_queue_outgoing_message, inVars
    <3>3. /\ queued' \in Seq(Kinds) /\ Len(queued') = Len(queued) + 1 /\ Len(queued) \in Nat
          /\ DOMAIN queued = 1 .. Len(queued) /\ DOMAIN queued' = 1 .. Len(queued) + 1
          /\ \A i \in 1 .. Len(queued) : queued'[i] = queued[i]
      BY <2>0, <3>1
    <3>4. /\ Sent \in Seq([m : Nat, fd : Nat]) /\ Len(Sent) = Len(queued)
      <4>1. \A i \in 1 .. Len(queued) : Sent[i] \in [m : Nat, fd : Nat]
        BY <2>0 DEF Sent, NoFd
      <4>2. Sent = [i \in 1 .. Len(queued) |-> Sent[i]]
        BY <2>0 DEF Sent
      <4> HIDE DEF Sent
      <4> DEFINE R == [m : Nat, fd : Nat]
      <4>3. \A i \in 1 .. Len(queued) : Sent[i] \in R
        BY <4>1
      <4> HIDE DEF R
      <4>4. Len(queued) \in Nat /\ Sent \in [1 .. Len(queued) -> R]
        BY <3>3, <4>2, <4>3
      <4>5. Sent \in Seq(R) /\ Len(Sent) = Len(queued)
        BY <4>4
      <4> QED
        BY <4>5 DEF R
    <3>5. /\ Sent' \in Seq([m : Nat, fd : Nat]) /\ Len(Sent') = Len(queued) + 1
      BY <3>3 DEF Sent, NoFd
    <3>6. \A i \in 1 .. Len(queued) : Sent'[i] = Sent[i]
      BY <3>3 DEF Sent
    <3>7. SubSeq(Sent', 1, Len(Sent)) = Sent
      <4> HIDE DEF Sent
      <4> QED
        BY <3>3, <3>4, <3>5, <3>6
    <3>8. Sent'[Len(Sent')] \in [m : Nat, fd : Nat]
      <4>1. Len(Sent') \in 1 .. Len(Sent')
        BY <3>3, <3>5
      <4> DEFINE R == [m : Nat, fd : Nat]
      <4>2. Sent' \in Seq(R)
        BY <3>5
      <4> HIDE DEF R
      <4>3. Sent'[Len(Sent')] \in R
        BY <4>1, <4>2
      <4> QED
        BY <4>3 DEF R
    <3>9. Fifo!Send
      BY <3>2, <3>4, <3>5, <3>7, <3>8 DEF Fifo!Send
    <3> QED
      BY <3>9 DEF Fifo!FifoNext
  <2>2. CASE Extern_reading
    <3>1. received' = received \/ Receives
      BY <1>2, <2>2, ReadingOK
    <3>2. Sent' = Sent /\ broken' = FALSE
      <4>1. StreamInv'
        BY <1>2, <2>2, ReadingOK
      <4> QED
        BY <2>2, <4>1 DEF StreamInv, Sent, Extern_reading, outVars
    <3>3. CASE received' = received
      BY <2>0, <3>2, <3>3 DEF Fifo!fifoVars
    <3>4. CASE Receives
      <4>1. Len(Sent) = Len(queued) /\ Len(received) \in Nat /\ Len(queued) \in Nat
        BY <2>0 DEF Sent
      <4>2. Len(received) < Len(Sent)
        BY <2>0, <3>4, <4>1 DEF Receives
      <4>3. Fifo!Deliver
        BY <2>0, <3>2, <3>4, <4>2 DEF Receives, Fifo!Deliver
      <4> QED
        BY <4>3 DEF Fifo!FifoNext
    <3> QED
      BY <3>1, <3>3, <3>4
  <2>3. CASE Extern_writing \/ Extern_Extern_close \/ ReadClosed \/ UNCHANGED vars
    <3>1. UNCHANGED <<queued, received, broken>>
      BY <2>3 DEF Extern_writing, Extern_Extern_close, ReadClosed, vars, outVars, inVars
    <3> QED
      BY <3>1 DEF Fifo!fifoVars, Sent
  <2> QED
    BY <1>2, <2>1, <2>2, <2>3 DEF Next
<1> QED
  BY <1>1, <1>2, StreamInvariance, PTL DEF Spec, FifoSpec, Fifo!FifoSpec
=============================================================================
