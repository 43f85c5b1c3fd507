----------------------------- MODULE FdIO_proofs ------------------------------
(***************************************************************************)
(* The FdIO object keeps account of bytes and blocks, for buffers, blocks  *)
(* and descriptors of any size and any number of requests.                 *)
(*                                                                         *)
(* BlockAnswered is not inductive: that there is one answer to a write     *)
(* rests on there being one write, which is a message, or the buffer that  *)
(* the FdIO holds, or the answer, while its owner waits.  That is so until *)
(* the file ends; an FdIO that comes after that has no descriptor.         *)
(***************************************************************************)
EXTENDS FdIO, SeqLemmas

\* The messages that a write has become.
WriteMessages == {"write", "IOR_written"}
Once(q) == \A i, j \in DOMAIN q : q[i] \in WriteMessages /\ q[j] \in WriteMessages => i = j

\* The descriptor comes first, and there is no FdIO before.
AttachedFirst ==
    "attach" \in Range(Mail) =>
        /\ phase = "queues" /\ inq = <<"attach">> /\ "attach" \notin Range(outq)
        /\ o = NoObject

\* The FdIO has its descriptor, or will have, and the file has not ended.
Working == ~o.eof /\ (o.fd \/ "attach" \in Range(Mail))

\* What is known of the write by its messages q, the buffer the FdIO holds or
\* not, the size that is left, and whether the owner waits.
OneWrite(q, held, size, waits) ==
    /\ Once(q) /\ "written_null" \notin Range(q)
    /\ Range(q) \cap WriteMessages # {} => waits /\ ~held
    /\ held => waits
    /\ "IOR_written" \in Range(q) => size = 0

FdInv ==
    /\ TypeOK /\ NothingLost /\ AttachedFirst
    /\ Working => OneWrite(Mail, o.wbuf, wsize, wwait)

-----------------------------------------------------------------------------
(* Queues and numbers *)

\* Min of the community modules chooses the lesser number.
LEMMA MinOfTwo ==
    ASSUME NEW a \in Nat, NEW b \in Nat
    PROVE  Min({a, b}) = IF a <= b THEN a ELSE b
<1> DEFINE x == IF a <= b THEN a ELSE b
<1>1. x \in {a, b} /\ \A y \in {a, b} : x <= y
  OBVIOUS
<1>2. \A z \in {a, b} : (\A y \in {a, b} : z <= y) => z = x
  OBVIOUS
<1> HIDE DEF x
<1>3. Min({a, b}) \in {a, b} /\ \A y \in {a, b} : Min({a, b}) <= y
  BY <1>1 DEF Min
<1> QED
  BY <1>2, <1>3 DEF x

\* A message that is delivered leaves the queue.
LEMMA OnceTail ==
    ASSUME NEW q \in Seq(Messages), q # <<>>
    PROVE  /\ Head(q) \in Messages /\ Tail(q) \in Seq(Messages)
           /\ Head(q) \in Range(q) /\ Range(Tail(q)) \subseteq Range(q)
           /\ Once(q) => /\ Once(Tail(q))
                         /\ Head(q) \in WriteMessages => Range(Tail(q)) \cap WriteMessages = {}
<1>1. /\ Head(q) \in Messages /\ Tail(q) \in Seq(Messages) /\ Len(q) \in Nat /\ Len(q) > 0
      /\ DOMAIN q = 1 .. Len(q) /\ DOMAIN Tail(q) = 1 .. Len(q) - 1 /\ Head(q) = q[1]
      /\ \A i \in 1 .. Len(q) - 1 : Tail(q)[i] = q[i + 1]
  OBVIOUS
<1>2. Head(q) \in Range(q) /\ Range(Tail(q)) \subseteq Range(q)
  BY TailFacts
<1>3. ASSUME Once(q) PROVE Once(Tail(q))
  <2> SUFFICES ASSUME NEW i \in 1 .. Len(q) - 1, NEW j \in 1 .. Len(q) - 1,
                      q[i + 1] \in WriteMessages, q[j + 1] \in WriteMessages
               PROVE  i = j
    BY <1>1 DEF Once
  <2>1. i + 1 \in DOMAIN q /\ j + 1 \in DOMAIN q
    BY <1>1
  <2>2. i + 1 = j + 1
    BY <1>3, <2>1 DEF Once
  <2> QED
    BY <2>2
<1>4. ASSUME Once(q), q[1] \in WriteMessages
      PROVE  Range(Tail(q)) \cap WriteMessages = {}
  <2> SUFFICES ASSUME NEW i \in 1 .. Len(q) - 1, q[i + 1] \in WriteMessages PROVE FALSE
    BY <1>1 DEF Range
  <2>1. 1 \in DOMAIN q /\ i + 1 \in DOMAIN q /\ i + 1 # 1
    BY <1>1
  <2> QED
    BY <1>4, <2>1 DEF Once
<1> QED
  BY <1>1, <1>2, <1>3, <1>4

\* An answer is put at the end of the queue, or there is none.
LEMMA AnswerFacts ==
    ASSUME NEW q \in Seq(Messages), NEW c \in BOOLEAN, NEW m \in Messages
    PROVE  /\ q \o Answer(c, m) \in Seq(Messages)
           /\ Range(q \o Answer(c, m)) = Range(q) \cup (IF c THEN {m} ELSE {})
           /\ Once(q) /\ (c /\ m \in WriteMessages => Range(q) \cap WriteMessages = {})
                => Once(q \o Answer(c, m))
<1> DEFINE t == q \o Answer(c, m)
<1>1. CASE ~c
  <2>1. t = q
    BY <1>1 DEF Answer
  <2> QED
    BY <1>1, <2>1
<1>2. CASE c
  <2>1. t = Append(q, m)
    BY <1>2 DEF Answer
  <2>2. t \in Seq(Messages) /\ Range(t) = Range(q) \cup {m}
    BY <2>1, AppendFacts
  <2>3. ASSUME Once(q), m \in WriteMessages => Range(q) \cap WriteMessages = {}
        PROVE  Once(t)
    <3>1. /\ Len(q) \in Nat /\ DOMAIN q = 1 .. Len(q) /\ DOMAIN t = 1 .. Len(q) + 1
          /\ \A i \in 1 .. Len(q) : t[i] = q[i]
          /\ t[Len(q) + 1] = m
      BY <2>1
    <3>2. m \in WriteMessages => \A i \in DOMAIN q : q[i] \notin WriteMessages
      BY <2>3 DEF Range
    <3> HIDE DEF t
    <3> QED
      BY <2>3, <3>1, <3>2 DEF Once
  <2> QED
    BY <1>2, <2>2, <2>3
<1> QED
  BY <1>1, <1>2

-----------------------------------------------------------------------------
(* FdIO_TimerR_timer *)

Objects == [live : BOOLEAN, unused : BOOLEAN, fd : BOOLEAN, eof : BOOLEAN,
            rbuf : BOOLEAN, wbuf : BOOLEAN]

\* There is nothing in an FdIO that is not there.
LEMMA NoObjectFacts ==
    NoObject \in Objects /\ ~NoObject.fd /\ ~NoObject.eof /\ ~NoObject.wbuf
  BY DEF NoObject, Objects

\* The fields are Boolean.
LEMMA ObjectFacts ==
    ASSUME NEW x \in Objects
    PROVE  /\ x.live \in BOOLEAN /\ x.unused \in BOOLEAN /\ x.fd \in BOOLEAN
           /\ x.eof \in BOOLEAN /\ x.rbuf \in BOOLEAN /\ x.wbuf \in BOOLEAN
  BY DEF Objects

\* What is read was there and fits in the buffer.
LEMMA ReadCountOK ==
    ASSUME TypeOK, NEW x
    PROVE  /\ ReadCount(x) \in Nat
           /\ ReadCount(x) <= avail /\ ReadCount(x) <= ReadSize - rsize
<1>1. avail \in Nat /\ rsize \in Nat /\ ReadSize - rsize \in Nat
  BY FdIOAssumption DEF TypeOK
<1> DEFINE room == ReadSize - rsize
           m == Min({avail, room})
<1>2. room \in Nat
  BY <1>1
<1> HIDE DEF room
<1>3. m = IF avail <= room THEN avail ELSE room
  BY <1>1, <1>2, MinOfTwo
<1> HIDE DEF m
<1>4. m \in Nat /\ m <= avail /\ m <= room
  BY <1>1, <1>2, <1>3
<1>5. ReadCount(x) = m \/ ReadCount(x) = 0
  BY DEF ReadCount, m, room
<1>6. room = ReadSize - rsize
  BY DEF room
<1> QED
  BY <1>1, <1>2, <1>4, <1>5, <1>6

\* What is written was in the block and has space; nothing is without a block.
LEMMA WriteCountsOK ==
    ASSUME TypeOK, NEW x, NEW eof, NEW k \in WriteCounts(x, eof)
    PROVE  k \in Nat /\ k <= space /\ k <= wsize /\ (~x.wbuf => k = 0)
<1>1. space \in Nat /\ wsize \in Nat
  BY FdIOAssumption DEF TypeOK
<1> DEFINE m == Min({space, wsize})
           most == IF x.wbuf /\ x.fd /\ ~eof THEN m ELSE 0
<1>2. m = IF space <= wsize THEN space ELSE wsize
  BY <1>1, MinOfTwo
<1>3. k \in (IF closed THEN 0 .. most ELSE {most})
  BY DEF WriteCounts
<1> HIDE DEF m
<1>4. most \in Nat /\ most <= space /\ most <= wsize /\ (~x.wbuf => most = 0)
  BY <1>1, <1>2
<1> HIDE DEF most
<1>5. k \in Nat /\ k <= most
  BY <1>3, <1>4
<1> QED
  BY <1>1, <1>4, <1>5

\* FdIO_TimerR_timer has read n bytes and written k; reof and weof say whether the
\* file had ended after the one and the other, rans and wans whether it answers.
Outcome(x, n, k, reof, weof, rans, wans) ==
    /\ n <= avail /\ n <= ReadSize - rsize /\ avail' = avail - n /\ rsize' = rsize + n
    /\ k <= space /\ k <= wsize /\ space' = space - k /\ wsize' = wsize - k
    /\ ~x.wbuf => k = 0
    /\ x.eof => reof
    /\ reof => weof
    /\ o' \in Objects /\ o'.eof = weof /\ o'.fd = x.fd
    /\ o'.wbuf <=> x.wbuf /\ ~weof /\ k < wsize
    /\ outq' = (((outq \o Answer(rans, "IOR_read")) \o Answer(x.rbuf /\ reof, "read_null"))
                    \o Answer(wans, "IOR_written")) \o Answer(x.wbuf /\ weof, "written_null")
    /\ wans => x.wbuf
    /\ wans /\ ~weof => k = wsize
    /\ watch' \subseteq {"read", "write"}
    /\ phase' \in {phase, "failed"}

\* The object, the owner's buffers and the answers after the call.
LEMMA TimerParts ==
    ASSUME TypeOK, NEW x \in Objects, FdIO_TimerR_timer(x)
    PROVE  \E n, k \in Nat, reof, weof, rans, wans \in BOOLEAN :
                Outcome(x, n, k, reof, weof, rans, wans)
<1> DEFINE Moved(n, r, k, w) ==
        LET reof == x.eof \/ r = "eof"
            weof == reof \/ w = "eof"
            cmd == Command(r, w)
        IN  /\ BufferFilled(n)
            /\ wsize' = wsize - k /\ space' = space - k
            /\ o' = [x EXCEPT !.eof = weof,
                              !.unused = @ \/ r = "eof" \/ w = "eof",
                              !.rbuf = @ /\ ~reof,
                              !.wbuf = @ /\ ~weof /\ k < wsize]
            /\ outq' = outq
                \o Answer(x.rbuf /\ ~x.eof /\ (n > 0 \/ reof), "IOR_read")
                \o Answer(x.rbuf /\ reof, "read_null")
                \o Answer(x.wbuf /\ ~reof /\ BlockWritten(k, weof), "IOR_written")
                \o Answer(x.wbuf /\ weof, "written_null")
            /\ watch' = IF cmd = {} THEN watch ELSE cmd
            /\ phase' = IF "error" \in {r, w} THEN "failed" ELSE phase
<1>0. PICK n \in {ReadCount(x)} :
        \E r \in ReadResult(x, n) : \E k \in WriteCounts(x, x.eof \/ r = "eof") :
            \E w \in WriteResult(x, x.eof \/ r = "eof", k) : Moved(n, r, k, w)
  BY DEF FdIO_TimerR_timer
<1>1. PICK r \in ReadResult(x, n) : \E k \in WriteCounts(x, x.eof \/ r = "eof") :
            \E w \in WriteResult(x, x.eof \/ r = "eof", k) : Moved(n, r, k, w)
  BY <1>0
<1>2. PICK k \in WriteCounts(x, x.eof \/ r = "eof") :
            \E w \in WriteResult(x, x.eof \/ r = "eof", k) : Moved(n, r, k, w)
  BY <1>1
<1>3. PICK w \in WriteResult(x, x.eof \/ r = "eof", k) : Moved(n, r, k, w)
  BY <1>2
<1> DEFINE reof == x.eof \/ r = "eof"
           weof == reof \/ w = "eof"
           rans == x.rbuf /\ ~x.eof /\ (n > 0 \/ reof)
           wans == x.wbuf /\ ~reof /\ BlockWritten(k, weof)
           held == x.wbuf /\ ~weof /\ k < wsize
<1>4. /\ n \in Nat /\ n <= avail /\ n <= ReadSize - rsize
      /\ k \in Nat /\ k <= space /\ k <= wsize /\ (~x.wbuf => k = 0)
  <2>1. n \in Nat /\ n <= avail /\ n <= ReadSize - rsize
    BY <1>0, ReadCountOK
  <2>2. k \in WriteCounts(x, reof)
    OBVIOUS
  <2> HIDE DEF reof
  <2> QED
    BY <2>1, <2>2, WriteCountsOK
<1>5. avail' = avail - n /\ rsize' = rsize + n /\ wsize' = wsize - k /\ space' = space - k
  BY <1>3 DEF BufferFilled
<1>6. /\ reof \in BOOLEAN /\ weof \in BOOLEAN /\ rans \in BOOLEAN /\ wans \in BOOLEAN
      /\ held \in BOOLEAN /\ (x.eof => reof) /\ (reof => weof)
  BY ObjectFacts, Zenon
<1>7. wans => x.wbuf /\ BlockWritten(k, weof)
  OBVIOUS
<1>8. wans /\ ~weof => k = wsize
  BY <1>7 DEF BlockWritten
<1>9. o' = [x EXCEPT !.eof = weof, !.unused = x.unused \/ r = "eof" \/ w = "eof",
                     !.rbuf = x.rbuf /\ ~reof, !.wbuf = held]
  BY <1>3
<1>10. outq' = (((outq \o Answer(rans, "IOR_read")) \o Answer(x.rbuf /\ reof, "read_null"))
                \o Answer(wans, "IOR_written")) \o Answer(x.wbuf /\ weof, "written_null")
  BY <1>3
<1>11. watch' \subseteq {"read", "write"} /\ phase' \in {phase, "failed"}
  BY <1>3 DEF Command, TypeOK
<1>12. held <=> x.wbuf /\ ~weof /\ k < wsize
  OBVIOUS
<1>13. /\ (x.unused \/ r = "eof" \/ w = "eof") \in BOOLEAN /\ (x.rbuf /\ ~reof) \in BOOLEAN
  BY Zenon
<1> HIDE DEF reof, weof, rans, wans, held
<1>14. o' \in Objects /\ o'.eof = weof /\ o'.fd = x.fd /\ o'.wbuf = held
  <2> DEFINE u == x.unused \/ r = "eof" \/ w = "eof"
             b == x.rbuf /\ ~reof
  <2>1. o' = [x EXCEPT !.eof = weof, !.unused = u, !.rbuf = b, !.wbuf = held]
    BY <1>9
  <2>2. u \in BOOLEAN /\ b \in BOOLEAN
    BY <1>13
  <2> HIDE DEF u, b
  <2> QED
    BY <1>6, <2>1, <2>2 DEF Objects
<1> USE <1>4, <1>6
<1> WITNESS n \in Nat, k \in Nat
<1> WITNESS reof \in BOOLEAN, weof \in BOOLEAN, rans \in BOOLEAN, wans \in BOOLEAN
<1> QED
  BY <1>4, <1>5, <1>6, <1>7, <1>8, <1>10, <1>11, <1>12, <1>14 DEF Outcome

\* Cat keeps \o from the provers.
Cat(s, t) == s \o t

\* What is behind one queue is behind both.
LEMMA CatAssociative ==
    ASSUME NEW T, NEW p \in Seq(T), NEW q \in Seq(T), NEW a \in Seq(T)
    PROVE  Cat(q, a) \in Seq(T) /\ Cat(p, Cat(q, a)) = Cat(Cat(p, q), a)
<1>1. q \o a \in Seq(T)
  BY ConcatProperties
<1>2. p \o (q \o a) = (p \o q) \o a
  BY ConcatAssociative
<1> QED
  BY <1>1, <1>2 DEF Cat

\* And so for the four answers.
LEMMA ConcatFour ==
    ASSUME NEW T, NEW p \in Seq(T), NEW q \in Seq(T),
           NEW a \in Seq(T), NEW b \in Seq(T), NEW c \in Seq(T), NEW d \in Seq(T)
    PROVE  Cat(p, Cat(Cat(Cat(Cat(q, a), b), c), d)) = Cat(Cat(Cat(Cat(Cat(p, q), a), b), c), d)
<1> DEFINE qa == Cat(q, a)
           qb == Cat(qa, b)
           qc == Cat(qb, c)
<1>1. qa \in Seq(T) /\ Cat(p, qa) = Cat(Cat(p, q), a)
  BY CatAssociative
<1> HIDE DEF qa
<1>2. qb \in Seq(T) /\ Cat(p, qb) = Cat(Cat(p, qa), b)
  BY <1>1, CatAssociative
<1> HIDE DEF qb
<1>3. qc \in Seq(T) /\ Cat(p, qc) = Cat(Cat(p, qb), c)
  BY <1>2, CatAssociative
<1> HIDE DEF qc
<1>4. Cat(p, Cat(qc, d)) = Cat(Cat(p, qc), d)
  BY <1>3, CatAssociative
<1> QED
  BY <1>1, <1>2, <1>3, <1>4 DEF qa, qb, qc

\* The types and the bytes after the call.
LEMMA TimerTypes ==
    ASSUME TypeOK, NothingLost, inq # <<>>, inq' = Tail(inq),
           UNCHANGED <<closed, given, ownerVars>>,
           NEW x \in Objects, FdIO_TimerR_timer(x)
    PROVE  TypeOK' /\ NothingLost'
<1>1. PICK n, k \in Nat, reof, weof, rans, wans \in BOOLEAN :
        Outcome(x, n, k, reof, weof, rans, wans)
  BY TimerParts
<1>2. avail' \in 0 .. MaxData /\ space' \in 0 .. Pipe /\ rsize' \in 0 .. ReadSize /\ wsize' \in Nat
  BY <1>1, FdIOAssumption DEF Outcome, TypeOK
<1>3. inq' \in Seq(Messages)
  BY OnceTail DEF TypeOK
<1>4. outq' \in Seq(Messages)
  <2> DEFINE a == outq \o Answer(rans, "IOR_read")
             b == a \o Answer(x.rbuf /\ reof, "read_null")
             c == b \o Answer(wans, "IOR_written")
  <2>1. {"IOR_read", "read_null", "IOR_written", "written_null"} \subseteq Messages
    BY DEF Messages
  <2>2. (x.rbuf /\ reof) \in BOOLEAN /\ (x.wbuf /\ weof) \in BOOLEAN
    BY ObjectFacts, Zenon
  <2>3. a \in Seq(Messages)
    BY <2>1, AnswerFacts DEF TypeOK
  <2> HIDE DEF a
  <2>4. b \in Seq(Messages)
    BY <2>1, <2>2, <2>3, AnswerFacts
  <2> HIDE DEF b
  <2>5. c \in Seq(Messages)
    BY <2>1, <2>4, AnswerFacts
  <2> HIDE DEF c
  <2>6. c \o Answer(x.wbuf /\ weof, "written_null") \in Seq(Messages)
    BY <2>1, <2>2, <2>5, AnswerFacts
  <2> QED
    BY <1>1, <2>6 DEF Outcome, a, b, c
<1>5. o' \in Objects /\ watch' \subseteq {"read", "write"}
      /\ phase' \in {"queues", "idle", "poll", "failed"}
  BY <1>1 DEF Outcome, TypeOK
<1>6. /\ given' \in 0 .. MaxData /\ got' \in Nat /\ {closed', rwait', wwait'} \subseteq BOOLEAN
      /\ reads' \in 0 .. MaxReads /\ writes' \in 0 .. MaxWrites
  BY DEF TypeOK, ownerVars
<1>7. TypeOK'
  BY <1>2, <1>3, <1>4, <1>5, <1>6 DEF TypeOK, Objects
<1>8. NothingLost'
  BY <1>1, FdIOAssumption DEF Outcome, NothingLost, TypeOK, ownerVars
<1> QED
  BY <1>7, <1>8

\* A write that is under way stays so, or is answered, if the file has not ended.
LEMMA TimerWrites ==
    ASSUME TypeOK, inq # <<>>, inq' = Tail(inq), wwait' = wwait,
           NEW x \in Objects, FdIO_TimerR_timer(x)
    PROVE  /\ "attach" \in Range(Mail') => "attach" \in Range(Tail(Mail))
           /\ o'.fd = x.fd /\ (x.eof => o'.eof)
           /\ ~o'.eof /\ OneWrite(Tail(Mail), x.wbuf, wsize, wwait)
                => OneWrite(Mail', o'.wbuf, wsize', wwait')
<1>1. PICK n, k \in Nat, reof, weof, rans, wans \in BOOLEAN :
        Outcome(x, n, k, reof, weof, rans, wans)
  BY TimerParts
<1> DEFINE rnull == x.rbuf /\ reof
           wnull == x.wbuf /\ weof
           t == Tail(Mail)
           a == t \o Answer(rans, "IOR_read")
           b == a \o Answer(rnull, "read_null")
           c == b \o Answer(wans, "IOR_written")
           d == c \o Answer(wnull, "written_null")
<1>2. /\ Tail(inq) \in Seq(Messages) /\ outq \in Seq(Messages) /\ t = Tail(inq) \o outq
      /\ t \in Seq(Messages)
  <2>1. outq \in Seq(Messages) /\ inq \in Seq(Messages)
    BY DEF TypeOK
  <2>2. Tail(inq) \in Seq(Messages)
    BY <2>1, OnceTail
  <2>3. t = Tail(inq) \o outq
    BY <2>1, TailConcat DEF Mail
  <2>4. Tail(inq) \o outq \in Seq(Messages)
    BY <2>1, <2>2, ConcatFacts
  <2> QED
    BY <2>1, <2>2, <2>3, <2>4
<1>3. /\ "IOR_read" \in Messages /\ "read_null" \in Messages
      /\ "IOR_written" \in Messages /\ "written_null" \in Messages
      /\ "IOR_read" \notin WriteMessages /\ "read_null" \notin WriteMessages
      /\ "written_null" \notin WriteMessages /\ "IOR_written" \in WriteMessages
  BY DEF Messages, WriteMessages
<1>4. rnull \in BOOLEAN /\ wnull \in BOOLEAN /\ (wnull => weof)
  BY ObjectFacts, Zenon
<1>5. Mail' = d
  <2>1. Mail' = Tail(inq) \o outq'
    BY DEF Mail
  <2>2. outq' = (((outq \o Answer(rans, "IOR_read")) \o Answer(rnull, "read_null"))
                    \o Answer(wans, "IOR_written")) \o Answer(wnull, "written_null")
    BY <1>1 DEF Outcome
  <2> HIDE DEF rnull, wnull
  <2> DEFINE a1 == Answer(rans, "IOR_read")
             a2 == Answer(rnull, "read_null")
             a3 == Answer(wans, "IOR_written")
             a4 == Answer(wnull, "written_null")
             p == Tail(inq)
  <2>3. /\ a1 \in Seq(Messages) /\ a2 \in Seq(Messages) /\ a3 \in Seq(Messages)
        /\ a4 \in Seq(Messages) /\ p \in Seq(Messages) /\ outq \in Seq(Messages)
    BY <1>2, <1>3 DEF Answer
  <2>4. /\ d = (((t \o a1) \o a2) \o a3) \o a4 /\ t = p \o outq
        /\ outq' = (((outq \o a1) \o a2) \o a3) \o a4
    BY <1>2, <2>2
  <2> HIDE DEF a, b, c, d, t, a1, a2, a3, a4, p
  <2>5. Cat(p, Cat(Cat(Cat(Cat(outq, a1), a2), a3), a4))
        = Cat(Cat(Cat(Cat(Cat(p, outq), a1), a2), a3), a4)
    BY <2>3, ConcatFour
  <2>6. p \o outq' = d
    BY <2>4, <2>5 DEF Cat
  <2>7. Mail' = p \o outq'
    BY <2>1 DEF p
  <2> QED
    BY <2>6, <2>7
<1> HIDE DEF rnull, wnull, t
<1>6. /\ a \in Seq(Messages) /\ Range(a) = Range(t) \cup (IF rans THEN {"IOR_read"} ELSE {})
      /\ Once(t) => Once(a)
  BY <1>2, <1>3, AnswerFacts
<1> HIDE DEF a
<1>7. /\ b \in Seq(Messages) /\ Range(b) = Range(a) \cup (IF rnull THEN {"read_null"} ELSE {})
      /\ Once(a) => Once(b)
  BY <1>3, <1>4, <1>6, AnswerFacts
<1> HIDE DEF b
<1>8. /\ c \in Seq(Messages)
      /\ Range(c) = Range(b) \cup (IF wans THEN {"IOR_written"} ELSE {})
      /\ Once(b) /\ (wans => Range(b) \cap WriteMessages = {}) => Once(c)
  BY <1>3, <1>7, AnswerFacts
<1> HIDE DEF c
<1>9. /\ d \in Seq(Messages)
      /\ Range(d) = Range(c) \cup (IF wnull THEN {"written_null"} ELSE {})
      /\ Once(c) => Once(d)
  BY <1>3, <1>4, <1>8, AnswerFacts
<1> HIDE DEF d
<1>10. "attach" \in Range(Mail') => "attach" \in Range(t)
  <2>1. Range(d) \subseteq Range(t) \cup
            {"IOR_read", "read_null", "IOR_written", "written_null"}
    BY <1>6, <1>7, <1>8, <1>9
  <2> QED
    BY <1>5, <2>1
<1>11. ASSUME ~weof, OneWrite(t, x.wbuf, wsize, wwait)
       PROVE  OneWrite(Mail', o'.wbuf, wsize', wwait)
  <2>1. /\ Once(t) /\ "written_null" \notin Range(t)
        /\ Range(t) \cap WriteMessages # {} => wwait /\ ~x.wbuf
        /\ x.wbuf => wwait
        /\ "IOR_written" \in Range(t) => wsize = 0
    BY <1>11 DEF OneWrite
  <2>2. Range(b) \cap WriteMessages = Range(t) \cap WriteMessages
        /\ "written_null" \notin Range(b)
    <3>1. Range(b) \subseteq Range(t) \cup {"IOR_read", "read_null"}
      BY <1>6, <1>7
    <3>2. Range(t) \subseteq Range(b)
      BY <1>6, <1>7
    <3> QED
      BY <1>3, <2>1, <3>1, <3>2
  <2>3. /\ wans => x.wbuf /\ k = wsize
        /\ ~x.wbuf => k = 0
        /\ o'.wbuf <=> x.wbuf /\ ~weof /\ k < wsize
        /\ wsize' = wsize - k
        /\ wsize \in Nat
    BY <1>1, <1>11 DEF Outcome, TypeOK
  <2>4. Range(d) = Range(b) \cup (IF wans THEN {"IOR_written"} ELSE {})
    BY <1>4, <1>8, <1>9, <1>11
  <2>5. Once(d) /\ "written_null" \notin Range(d)
    BY <1>6, <1>7, <1>8, <1>9, <2>1, <2>2, <2>3, <2>4
  <2>6. CASE wans
    <3>1. ~o'.wbuf /\ wsize' = 0 /\ wwait
      BY <2>1, <2>3, <2>6
    <3> QED
      BY <1>5, <2>5, <3>1 DEF OneWrite
  <2>7. CASE ~wans
    <3>1. Range(d) \cap WriteMessages = Range(t) \cap WriteMessages
      BY <2>2, <2>4, <2>7
    <3>2. /\ Range(d) \cap WriteMessages # {} => wwait /\ ~o'.wbuf
          /\ o'.wbuf => wwait
      BY <2>1, <2>3, <3>1
    <3>3. "IOR_written" \in Range(d) => wsize' = 0
      <4>1. ASSUME "IOR_written" \in Range(d) PROVE wsize = 0 /\ ~x.wbuf
        BY <1>3, <2>1, <3>1, <4>1
      <4>2. ~x.wbuf /\ wsize = 0 => wsize' = 0
        BY <2>3
      <4> QED
        BY <4>1, <4>2
    <3> QED
      BY <1>5, <2>5, <3>2, <3>3 DEF OneWrite
  <2> QED
    BY <2>6, <2>7
<1>12. o'.fd = x.fd /\ (x.eof => o'.eof) /\ o'.eof = weof
  BY <1>1 DEF Outcome
<1> QED
  BY <1>10, <1>11, <1>12 DEF t

-----------------------------------------------------------------------------
(* The steps *)

\* What is left when the first message is delivered.
LEMMA DeliverFacts ==
    ASSUME TypeOK, inq # <<>>
    PROVE  /\ Mail \in Seq(Messages) /\ Mail # <<>> /\ Head(Mail) = Head(inq)
           /\ Tail(Mail) = Tail(inq) \o outq /\ Tail(inq) \in Seq(Messages)
           /\ Head(inq) \in Range(Mail) /\ Range(Tail(Mail)) \subseteq Range(Mail)
<1>1. inq \in Seq(Messages) /\ outq \in Seq(Messages)
  BY DEF TypeOK
<1>2. Mail # <<>> /\ Head(Mail) = Head(inq) /\ Tail(Mail) = Tail(inq) \o outq
  BY <1>1, TailConcat DEF Mail
<1>3. Mail \in Seq(Messages)
  BY <1>1, ConcatFacts DEF Mail
<1>4. Tail(inq) \in Seq(Messages)
  BY <1>1, OnceTail
<1> QED
  BY <1>2, <1>3, <1>4, OnceTail

\* Another message that is delivered is none of the write; the last one of the
\* write leaves it to who takes it.
LEMMA OneWriteTail ==
    ASSUME NEW q \in Seq(Messages), q # <<>>, NEW held \in BOOLEAN, NEW size, NEW waits \in BOOLEAN,
           OneWrite(q, held, size, waits)
    PROVE  /\ OneWrite(Tail(q), held, size, waits)
           /\ Head(q) \in WriteMessages => /\ waits
                                          /\ OneWrite(Tail(q), TRUE, size, TRUE)
                                          /\ OneWrite(Tail(q), held, size, FALSE)
<1>1. /\ Head(q) \in Range(q) /\ Range(Tail(q)) \subseteq Range(q) /\ Once(Tail(q))
      /\ Head(q) \in WriteMessages => Range(Tail(q)) \cap WriteMessages = {}
  BY OnceTail DEF OneWrite
<1>2. OneWrite(Tail(q), held, size, waits)
  <2>1. Range(Tail(q)) \cap WriteMessages # {} => Range(q) \cap WriteMessages # {}
    BY <1>1
  <2> QED
    BY <1>1, <2>1 DEF OneWrite
<1>3. ASSUME Head(q) \in WriteMessages
      PROVE  /\ waits /\ OneWrite(Tail(q), TRUE, size, TRUE)
             /\ OneWrite(Tail(q), held, size, FALSE)
  <2>1. Range(q) \cap WriteMessages # {}
    BY <1>1, <1>3
  <2>2. waits /\ ~held
    BY <2>1 DEF OneWrite
  <2>3. Range(Tail(q)) \cap WriteMessages = {} /\ "IOR_written" \notin Range(Tail(q))
    BY <1>1, <1>3 DEF WriteMessages
  <2>4. "written_null" \notin Range(Tail(q))
    BY <1>1 DEF OneWrite
  <2> QED
    BY <1>1, <2>2, <2>3, <2>4 DEF OneWrite
<1> QED
  BY <1>2, <1>3

\* A message to the FdIO that ends in FdIO_TimerR_timer.
LEMMA TimerStep ==
    ASSUME FdInv, inq # <<>>, inq' = Tail(inq), Head(inq) # "attach",
           UNCHANGED <<closed, given, ownerVars>>,
           NEW x \in Objects, FdIO_TimerR_timer(x),
           x.fd => o.fd /\ x.eof = o.eof,
           x.fd /\ Working => OneWrite(Tail(Mail), x.wbuf, wsize, wwait)
    PROVE  FdInv'
<1>1. TypeOK /\ NothingLost /\ AttachedFirst
  BY DEF FdInv
<1>2. TypeOK' /\ NothingLost'
  BY <1>1, TimerTypes
<1>3. wwait' = wwait
  BY DEF ownerVars
<1>4. /\ "attach" \in Range(Mail') => "attach" \in Range(Tail(Mail))
      /\ o'.fd = x.fd /\ (x.eof => o'.eof)
      /\ ~o'.eof /\ OneWrite(Tail(Mail), x.wbuf, wsize, wwait)
           => OneWrite(Mail', o'.wbuf, wsize', wwait')
  BY <1>1, <1>3, TimerWrites
<1>5. "attach" \notin Range(Mail')
  <2>1. "attach" \notin Range(Mail)
    BY <1>1 DEF AttachedFirst
  <2> QED
    BY <1>1, <1>4, <2>1, DeliverFacts
<1>6. AttachedFirst'
  BY <1>5 DEF AttachedFirst
<1>7. ASSUME Working' PROVE OneWrite(Mail', o'.wbuf, wsize', wwait')
  <2>1. ~o'.eof /\ x.fd /\ ~x.eof
    BY <1>4, <1>5, <1>7 DEF Working
  <2>2. Working
    BY <2>1 DEF Working
  <2> QED
    BY <1>4, <2>1, <2>2
<1> QED
  BY <1>2, <1>6, <1>7 DEF FdInv

\* The FdIO that a message finds has no descriptor if it was not there before.
LEMMA CreateFacts ==
    ASSUME TypeOK
    PROVE  /\ FdIO_create \in Objects
           /\ FdIO_create.fd => FdIO_create = o
<1>1. o \in Objects
  BY DEF TypeOK, Objects
<1>2. [NoObject EXCEPT !.live = TRUE] \in Objects /\ ~[NoObject EXCEPT !.live = TRUE].fd
  BY DEF NoObject, Objects
<1> QED
  BY <1>1, <1>2 DEF FdIO_create

\* FdIO_IO_read.
LEMMA ReadOK ==
    ASSUME FdInv, FdIO_IO_read
    PROVE  FdInv'
<1> DEFINE x == [FdIO_create EXCEPT !.rbuf = TRUE]
<1>1. /\ inq # <<>> /\ Head(inq) = "read" /\ inq' = Tail(inq) /\ FdIO_TimerR_timer(x)
      /\ UNCHANGED <<closed, given, ownerVars>>
  BY DEF FdIO_IO_read, Delivers
<1>2. TypeOK
  BY DEF FdInv
<1>3. /\ x \in Objects /\ x.fd = FdIO_create.fd /\ x.eof = FdIO_create.eof
      /\ x.wbuf = FdIO_create.wbuf
  BY <1>2, CreateFacts DEF Objects
<1>4. x.fd => o.fd /\ x.eof = o.eof /\ x.wbuf = o.wbuf
  BY <1>2, <1>3, CreateFacts
<1> HIDE DEF x
<1>5. ASSUME x.fd, Working PROVE OneWrite(Tail(Mail), x.wbuf, wsize, wwait)
  <2>1. OneWrite(Mail, o.wbuf, wsize, wwait)
    BY <1>5 DEF FdInv
  <2>2. o.wbuf \in BOOLEAN /\ wwait \in BOOLEAN
    BY <1>2 DEF TypeOK
  <2> QED
    BY <1>1, <1>2, <1>4, <1>5, <2>1, <2>2, DeliverFacts, OneWriteTail
<1> QED
  BY <1>1, <1>3, <1>4, <1>5, TimerStep

\* The answer of the Timer.
LEMMA FiredOK ==
    ASSUME FdInv, TimerFired
    PROVE  FdInv'
<1>1. /\ inq # <<>> /\ Head(inq) = "timer" /\ inq' = Tail(inq) /\ FdIO_TimerR_timer(FdIO_create)
      /\ UNCHANGED <<closed, given, ownerVars>>
  BY DEF TimerFired, Delivers
<1>2. TypeOK
  BY DEF FdInv
<1>3. /\ FdIO_create \in Objects
      /\ FdIO_create.fd =>
            o.fd /\ FdIO_create.eof = o.eof /\ FdIO_create.wbuf = o.wbuf
  BY <1>2, CreateFacts
<1>4. ASSUME FdIO_create.fd, Working PROVE OneWrite(Tail(Mail), FdIO_create.wbuf, wsize, wwait)
  <2>1. OneWrite(Mail, o.wbuf, wsize, wwait)
    BY <1>4 DEF FdInv
  <2>2. o.wbuf \in BOOLEAN /\ wwait \in BOOLEAN
    BY <1>2 DEF TypeOK
  <2> QED
    BY <1>1, <1>2, <1>3, <1>4, <2>1, <2>2, DeliverFacts, OneWriteTail
<1> QED
  BY <1>1, <1>3, <1>4, TimerStep

\* FdIO_IO_write.
LEMMA WriteOK ==
    ASSUME FdInv, FdIO_IO_write
    PROVE  FdInv'
<1> DEFINE x == [FdIO_create EXCEPT !.wbuf = TRUE]
<1>1. /\ inq # <<>> /\ Head(inq) = "write" /\ inq' = Tail(inq) /\ FdIO_TimerR_timer(x)
      /\ UNCHANGED <<closed, given, ownerVars>>
  BY DEF FdIO_IO_write, Delivers
<1>2. TypeOK
  BY DEF FdInv
<1>3. x \in Objects /\ x.fd = FdIO_create.fd /\ x.eof = FdIO_create.eof /\ x.wbuf = TRUE
  BY <1>2, CreateFacts DEF Objects
<1>4. x.fd => o.fd /\ x.eof = o.eof
  BY <1>2, <1>3, CreateFacts
<1> HIDE DEF x
<1>5. ASSUME x.fd, Working PROVE OneWrite(Tail(Mail), x.wbuf, wsize, wwait)
  <2>1. OneWrite(Mail, o.wbuf, wsize, wwait)
    BY <1>5 DEF FdInv
  <2>2. o.wbuf \in BOOLEAN /\ wwait \in BOOLEAN
    BY <1>2 DEF TypeOK
  <2>3. Head(Mail) \in WriteMessages
    BY <1>1, <1>2, DeliverFacts DEF WriteMessages
  <2>4. wwait /\ OneWrite(Tail(Mail), TRUE, wsize, TRUE)
    BY <1>1, <1>2, <2>1, <2>2, <2>3, DeliverFacts, OneWriteTail
  <2>5. wwait = TRUE
    BY <2>2, <2>4
  <2> QED
    BY <1>3, <2>4, <2>5
<1> QED
  BY <1>1, <1>3, <1>4, <1>5, TimerStep

\* FdIO_FdIO_attach: the first message of all.
LEMMA AttachOK ==
    ASSUME FdInv, FdIO_FdIO_attach
    PROVE  FdInv'
<1>1. /\ inq # <<>> /\ Head(inq) = "attach" /\ inq' = Tail(inq)
      /\ o' = [FdIO_create EXCEPT !.fd = TRUE]
      /\ UNCHANGED <<outq, phase, fdVars, ownerVars, rsize, wsize, watch>>
  BY DEF FdIO_FdIO_attach, Delivers
<1>2. TypeOK /\ NothingLost /\ AttachedFirst
  BY DEF FdInv
<1>3. "attach" \in Range(Mail)
  BY <1>1, <1>2, DeliverFacts
<1>4. /\ inq = <<"attach">> /\ "attach" \notin Range(outq) /\ o = NoObject
  BY <1>2, <1>3 DEF AttachedFirst
<1>5. inq' = <<>> /\ outq \in Seq(Messages) /\ outq' = outq
  BY <1>1, <1>2, <1>4 DEF TypeOK
<1>6. Mail' = outq /\ Tail(Mail) = outq
  <2>1. Mail' = inq' \o outq'
    BY DEF Mail
  <2>2. Mail' = outq
    BY <1>5, <2>1
  <2>3. Tail(Mail) = Tail(inq) \o outq
    BY <1>1, <1>2, DeliverFacts
  <2>4. Tail(inq) = <<>>
    BY <1>1, <1>5
  <2>5. <<>> \o outq = outq
    BY <1>5
  <2>6. Tail(Mail) = <<>> \o outq
    BY <2>3, <2>4
  <2> QED
    BY <2>2, <2>5, <2>6
<1>7. o' \in Objects /\ o'.eof = o.eof /\ o'.wbuf = o.wbuf /\ ~o.eof
  <2>1. FdIO_create \in Objects /\ FdIO_create.eof = FALSE /\ FdIO_create.wbuf = FALSE
    BY <1>4 DEF FdIO_create, NoObject, Objects
  <2>2. o.eof = FALSE /\ o.wbuf = FALSE
    BY <1>4 DEF NoObject
  <2> QED
    BY <1>1, <2>1, <2>2 DEF Objects
<1>8. TypeOK'
  BY <1>1, <1>2, <1>5, <1>7 DEF TypeOK, Objects, fdVars, ownerVars
<1>9. NothingLost'
  BY <1>1, <1>2 DEF NothingLost, fdVars, ownerVars
<1>10. AttachedFirst'
  BY <1>4, <1>6 DEF AttachedFirst
<1>11. OneWrite(Mail', o'.wbuf, wsize', wwait')
  <2>1. Working
    BY <1>3, <1>7 DEF Working
  <2>2. OneWrite(Mail, o.wbuf, wsize, wwait)
    BY <2>1 DEF FdInv
  <2>3. o.wbuf \in BOOLEAN /\ wwait \in BOOLEAN
    BY <1>2 DEF TypeOK
  <2>4. OneWrite(Tail(Mail), o.wbuf, wsize, wwait)
    BY <1>1, <1>2, <2>2, <2>3, DeliverFacts, OneWriteTail
  <2>5. wsize' = wsize /\ wwait' = wwait
    BY <1>1 DEF ownerVars
  <2> QED
    BY <1>6, <1>7, <2>4, <2>5
<1> QED
  BY <1>8, <1>9, <1>10, <1>11 DEF FdInv

\* A message is delivered to the owner.
LEMMA OwnerHears ==
    ASSUME FdInv, IOR_read \/ IOR_written
    PROVE  FdInv'
<1>1. /\ inq # <<>> /\ inq' = Tail(inq) /\ Head(inq) # "attach"
      /\ UNCHANGED <<outq, phase, fdVars, o, wsize, watch, reads, writes>>
  BY DEF IOR_read, IOR_written, Delivers
<1>2. TypeOK /\ NothingLost /\ AttachedFirst
  BY DEF FdInv
<1>3. Mail' = Tail(Mail) /\ Range(Mail') \subseteq Range(Mail) /\ inq' \in Seq(Messages)
  BY <1>1, <1>2, DeliverFacts DEF Mail
<1>4. /\ rsize' \in 0 .. ReadSize /\ got' \in Nat /\ rwait' \in BOOLEAN /\ wwait' \in BOOLEAN
      /\ got' + rsize' = got + rsize
  <2>0. /\ got \in Nat /\ rsize \in Nat /\ 0 \in 0 .. ReadSize
        /\ rwait \in BOOLEAN /\ wwait \in BOOLEAN
    BY <1>2, FdIOAssumption DEF TypeOK
  <2>1. CASE IOR_read
    <3>1. got' = got + rsize /\ rsize' = 0 /\ rwait' = FALSE /\ wwait' = wwait
      BY <2>1 DEF IOR_read
    <3>2. got' \in Nat /\ got' + rsize' = got + rsize
      BY <2>0, <3>1
    <3> QED
      BY <2>0, <3>1, <3>2
  <2>2. CASE IOR_written
    BY <1>2, <2>2, FdIOAssumption DEF IOR_written, TypeOK
  <2> QED
    BY <2>1, <2>2
<1>5. TypeOK'
  BY <1>1, <1>2, <1>3, <1>4 DEF TypeOK, fdVars
<1>6. NothingLost'
  <2>1. given' = given /\ avail' = avail
    BY <1>1 DEF fdVars
  <2> QED
    <3>1. /\ avail \in Nat /\ rsize \in Nat /\ got \in Nat /\ rsize' \in Nat /\ got' \in Nat
          /\ given = avail + rsize + got
      BY <1>2, <1>4, FdIOAssumption DEF NothingLost, TypeOK
    <3>0. got' + rsize' = got + rsize
      BY <1>4
    <3>2. given' = avail' + rsize' + got'
      <4>1. avail + rsize + got = avail + (got + rsize)
        BY <3>1
      <4>2. avail + rsize' + got' = avail + (got' + rsize')
        BY <3>1
      <4>3. given = avail + rsize' + got'
        BY <3>0, <3>1, <4>1, <4>2
      <4> QED
        BY <2>1, <4>3
    <3> QED
      BY <3>2 DEF NothingLost
<1>7. "attach" \notin Range(Mail) /\ "attach" \notin Range(Mail')
  BY <1>1, <1>2, <1>3 DEF AttachedFirst
<1>8. ASSUME Working' PROVE OneWrite(Mail', o'.wbuf, wsize', wwait')
  <2>1. Working
    BY <1>1, <1>7, <1>8 DEF Working
  <2>2. OneWrite(Mail, o.wbuf, wsize, wwait)
    BY <2>1 DEF FdInv
  <2>3. o.wbuf \in BOOLEAN /\ wwait \in BOOLEAN
    BY <1>2 DEF TypeOK
  <2>4. CASE IOR_read
    <3>1. wwait' = wwait /\ wsize' = wsize /\ o' = o
      BY <1>1, <2>4 DEF IOR_read
    <3>2. OneWrite(Tail(Mail), o.wbuf, wsize, wwait)
      BY <1>1, <1>2, <2>2, <2>3, DeliverFacts, OneWriteTail
    <3> QED
      BY <1>3, <3>1, <3>2
  <2>5. CASE IOR_written
    <3>1. Head(Mail) \in {"IOR_written", "written_null"}
      BY <1>1, <1>2, <2>5, DeliverFacts DEF IOR_written, Delivers
    <3>2. Head(Mail) \in Range(Mail) /\ "written_null" \notin Range(Mail)
      BY <1>1, <1>2, <2>2, DeliverFacts DEF OneWrite
    <3>3. Head(Mail) \in WriteMessages
      BY <3>1, <3>2 DEF WriteMessages
    <3>4. OneWrite(Tail(Mail), o.wbuf, wsize, FALSE)
      BY <1>1, <1>2, <2>2, <2>3, <3>3, DeliverFacts, OneWriteTail
    <3>5. wwait' = FALSE /\ wsize' = wsize /\ o' = o
      BY <1>1, <2>5 DEF IOR_written
    <3> QED
      BY <1>3, <3>4, <3>5
  <2> QED
    BY <2>4, <2>5
<1>9. AttachedFirst'
  BY <1>7 DEF AttachedFirst
<1> QED
  BY <1>5, <1>6, <1>8, <1>9 DEF FdInv

\* A message that the owner or the Timer sends is behind all others.
LEMMA MailAppend ==
    ASSUME TypeOK, NEW m \in Messages, inq' = inq, outq' = Append(outq, m)
    PROVE  /\ Mail' = Append(Mail, m) /\ Mail \in Seq(Messages) /\ outq' \in Seq(Messages)
           /\ Range(Mail') = Range(Mail) \cup {m} /\ Range(outq') = Range(outq) \cup {m}
           /\ Once(Mail) /\ (m \in WriteMessages => Range(Mail) \cap WriteMessages = {}) => Once(Mail')
<1>1. inq \in Seq(Messages) /\ outq \in Seq(Messages)
  BY DEF TypeOK
<1>2. Mail \in Seq(Messages)
  BY <1>1, ConcatFacts DEF Mail
<1>3. Mail' = Append(Mail, m)
  <2>1. inq \o Append(outq, m) = Append(inq \o outq, m)
    BY <1>1, AppendConcat
  <2> QED
    BY <2>1 DEF Mail
<1>4. /\ Range(Append(Mail, m)) = Range(Mail) \cup {m}
      /\ Range(Append(outq, m)) = Range(outq) \cup {m} /\ Append(outq, m) \in Seq(Messages)
  BY <1>1, <1>2, AppendFacts
<1>5. Mail \o Answer(TRUE, m) = Append(Mail, m)
  BY <1>2 DEF Answer
<1>6. Once(Mail) /\ (m \in WriteMessages => Range(Mail) \cap WriteMessages = {})
        => Once(Append(Mail, m))
  BY <1>2, <1>5, AnswerFacts
<1> QED
  BY <1>2, <1>3, <1>4, <1>6

\* PIO_read, PIO_write.
LEMMA AsksOK ==
    ASSUME FdInv, OwnerAsks
    PROVE  FdInv'
<1>1. /\ phase = "queues"
      /\ UNCHANGED <<inq, phase, fdVars, o, rsize, watch, got>>
  BY DEF OwnerAsks
<1>2. TypeOK /\ NothingLost /\ AttachedFirst
  BY DEF FdInv
<1>3. PICK m \in {"read", "write"} :
        /\ outq' = Append(outq, m)
        /\ m = "write" => ~wwait /\ wwait' = TRUE
        /\ m = "read" => wwait' = wwait /\ wsize' = wsize
  BY DEF OwnerAsks, PIO_read, PIO_write
<1>4. /\ wsize' \in Nat /\ reads' \in 0 .. MaxReads /\ writes' \in 0 .. MaxWrites
      /\ rwait' \in BOOLEAN /\ wwait' \in BOOLEAN
  <2>1. CASE PIO_read(outq) /\ UNCHANGED <<wwait, writes, wsize>>
    BY <1>2, <2>1, FdIOAssumption DEF PIO_read, TypeOK
  <2>2. CASE PIO_write(outq) /\ UNCHANGED <<rwait, reads>>
    BY <1>2, <2>2, FdIOAssumption DEF PIO_write, TypeOK
  <2> QED
    BY <2>1, <2>2 DEF OwnerAsks
<1>5. m \in Messages /\ m # "attach" /\ m # "written_null" /\ m # "IOR_written"
  BY DEF Messages
<1>6. /\ outq' \in Seq(Messages)
      /\ Range(Mail') = Range(Mail) \cup {m} /\ Range(outq') = Range(outq) \cup {m}
      /\ Once(Mail) /\ (m \in WriteMessages => Range(Mail) \cap WriteMessages = {}) => Once(Mail')
  BY <1>1, <1>2, <1>3, <1>5, MailAppend
<1>7. TypeOK'
  BY <1>1, <1>2, <1>4, <1>6 DEF TypeOK, fdVars
<1>8. NothingLost'
  BY <1>1, <1>2 DEF NothingLost, fdVars
<1>9. AttachedFirst'
  BY <1>1, <1>2, <1>5, <1>6 DEF AttachedFirst
<1>10. ASSUME Working' PROVE OneWrite(Mail', o'.wbuf, wsize', wwait')
  <2>1. Working
    BY <1>1, <1>5, <1>6, <1>10 DEF Working
  <2>2. /\ Once(Mail) /\ "written_null" \notin Range(Mail)
        /\ Range(Mail) \cap WriteMessages # {} => wwait /\ ~o.wbuf
        /\ o.wbuf => wwait
        /\ "IOR_written" \in Range(Mail) => wsize = 0
    BY <2>1 DEF FdInv, OneWrite
  <2>3. "written_null" \notin Range(Mail') /\ o' = o
    BY <1>1, <1>5, <1>6, <2>2
  <2>4. CASE m = "read"
    <3>1. m \notin WriteMessages
      BY <2>4 DEF WriteMessages
    <3>2. Range(Mail') \cap WriteMessages = Range(Mail) \cap WriteMessages /\ Once(Mail')
      BY <1>6, <2>2, <3>1
    <3>3. wwait' = wwait /\ wsize' = wsize
      BY <1>3, <2>4
    <3>4. "IOR_written" \in Range(Mail') => "IOR_written" \in Range(Mail)
      BY <1>5, <1>6
    <3> QED
      BY <2>2, <2>3, <3>2, <3>3, <3>4 DEF OneWrite
  <2>5. CASE m = "write"
    <3>1. ~wwait /\ wwait' = TRUE
      BY <1>3, <2>5
    <3>2. Range(Mail) \cap WriteMessages = {} /\ ~o.wbuf
      BY <2>2, <3>1
    <3>3. Once(Mail') /\ "IOR_written" \notin Range(Mail')
      <4>1. "IOR_written" \in WriteMessages
        BY DEF WriteMessages
      <4> QED
        BY <1>5, <1>6, <2>2, <3>2, <4>1
    <3> QED
      BY <2>3, <3>1, <3>2, <3>3 DEF OneWrite
  <2> QED
    BY <2>4, <2>5
<1> QED
  BY <1>7, <1>8, <1>9, <1>10 DEF FdInv

\* The end of a round, poll, and the other end.
LEMMA LoopOK ==
    ASSUME FdInv, SwapQueues \/ casycom_destroy_unused_objects \/ TimerFires
    PROVE  FdInv'
<1>1. TypeOK /\ NothingLost /\ AttachedFirst /\ (Working => OneWrite(Mail, o.wbuf, wsize, wwait))
  BY DEF FdInv
<1>2. UNCHANGED <<fdVars, ownerVars, rsize, wsize>>
  BY DEF SwapQueues, casycom_destroy_unused_objects, TimerFires
<1>3. NothingLost'
  BY <1>1, <1>2 DEF NothingLost, fdVars, ownerVars
<1>4. "attach" \notin Range(Mail)
  <2>1. ASSUME "attach" \in Range(Mail) PROVE FALSE
    <3>1. phase = "queues" /\ inq = <<"attach">>
      BY <1>1, <2>1 DEF AttachedFirst
    <3> QED
      BY <3>1 DEF SwapQueues, casycom_destroy_unused_objects, TimerFires
  <2> QED
    BY <2>1
<1>5. inq \in Seq(Messages) /\ outq \in Seq(Messages)
  BY <1>1 DEF TypeOK
<1>6. CASE SwapQueues
  <2>1. Mail' = Mail
    <3>1. inq = <<>> /\ inq' = outq /\ outq' = <<>>
      BY <1>6 DEF SwapQueues
    <3>2. inq' \o outq' = outq /\ inq \o outq = outq
      BY <1>5, <3>1
    <3> QED
      BY <3>2 DEF Mail
  <2>2. o' = o /\ wsize' = wsize /\ wwait' = wwait
    BY <1>6 DEF SwapQueues, ownerVars
  <2>3. TypeOK'
    BY <1>1, <1>6 DEF SwapQueues, TypeOK, fdVars, ownerVars
  <2>4. AttachedFirst' /\ (Working' => OneWrite(Mail', o'.wbuf, wsize', wwait'))
    BY <1>1, <1>4, <2>1, <2>2 DEF AttachedFirst, Working
  <2> QED
    BY <1>3, <2>3, <2>4 DEF FdInv
<1>7. CASE casycom_destroy_unused_objects
  <2>1. Mail' = Mail /\ wsize' = wsize /\ wwait' = wwait /\ (o' = o \/ o' = NoObject)
    BY <1>7 DEF casycom_destroy_unused_objects, Mail, ownerVars
  <2>2. o' \in Objects
    BY <1>1, <2>1, NoObjectFacts DEF TypeOK, Objects
  <2>3. TypeOK'
    BY <1>1, <1>7, <2>2 DEF casycom_destroy_unused_objects, TypeOK, fdVars, ownerVars, Objects
  <2>4. AttachedFirst'
    BY <1>4, <2>1 DEF AttachedFirst
  <2>5. Working' => o' = o
    BY <1>4, <2>1, NoObjectFacts DEF Working
  <2>6. Working' => OneWrite(Mail', o'.wbuf, wsize', wwait')
    BY <1>1, <2>1, <2>5 DEF Working
  <2> QED
    BY <1>3, <2>3, <2>4, <2>6 DEF FdInv
<1>8. CASE TimerFires
  <2>1. /\ o' = o /\ wsize' = wsize /\ wwait' = wwait /\ inq' = inq
        /\ outq' = outq \/ outq' = Append(outq, "timer")
    BY <1>5, <1>8 DEF TimerFires, Answer, ownerVars
  <2>2. "timer" \in Messages /\ "timer" \notin WriteMessages \cup {"attach", "written_null"}
    BY DEF Messages, WriteMessages
  <2>3. /\ outq' \in Seq(Messages) /\ (Once(Mail) => Once(Mail'))
        /\ Range(Mail) \subseteq Range(Mail') /\ Range(Mail') \subseteq Range(Mail) \cup {"timer"}
    <3>1. CASE outq' = outq
      BY <1>5, <2>1, <3>1 DEF Mail
    <3>2. CASE outq' = Append(outq, "timer")
      BY <1>1, <2>1, <2>2, <3>2, MailAppend
    <3> QED
      BY <2>1, <3>1, <3>2
  <2>4. watch' \subseteq {"read", "write"}
    BY <1>1, <1>8 DEF TimerFires, TypeOK
  <2>5. TypeOK'
    BY <1>1, <1>8, <2>1, <2>3, <2>4 DEF TimerFires, TypeOK, fdVars, ownerVars
  <2>6. AttachedFirst' /\ (Working' => Working)
    BY <1>4, <2>1, <2>2, <2>3 DEF AttachedFirst, Working
  <2>7. ASSUME OneWrite(Mail, o.wbuf, wsize, wwait)
        PROVE  OneWrite(Mail', o'.wbuf, wsize', wwait')
    <3>1. Range(Mail') \cap WriteMessages = Range(Mail) \cap WriteMessages
      BY <2>2, <2>3
    <3>2. "written_null" \in Range(Mail') => "written_null" \in Range(Mail)
      BY <2>2, <2>3
    <3>3. "IOR_written" \in Range(Mail') => "IOR_written" \in Range(Mail)
      BY <2>3
    <3> QED
      BY <2>1, <2>3, <2>7, <3>1, <3>2, <3>3 DEF OneWrite
  <2> QED
    BY <1>1, <1>3, <2>5, <2>6, <2>7 DEF FdInv
<1> QED
  BY <1>6, <1>7, <1>8

\* What happens at the other end.
LEMMA OtherOK ==
    ASSUME FdInv, OtherSends \/ OtherReads \/ OtherCloses \/ UNCHANGED vars
    PROVE  FdInv'
<1>1. TypeOK /\ NothingLost
  BY DEF FdInv
<1>2. UNCHANGED <<queueVars, ownerVars, o, rsize, wsize, watch>>
  BY DEF OtherSends, OtherReads, OtherCloses, vars
<1>3. /\ avail' \in 0 .. MaxData /\ space' \in 0 .. Pipe /\ given' \in 0 .. MaxData
      /\ closed' \in BOOLEAN /\ given' = avail' + rsize + got
  <2>0. /\ avail \in Nat /\ rsize \in Nat /\ got \in Nat /\ given \in 0 .. MaxData
        /\ avail \in 0 .. MaxData /\ space \in 0 .. Pipe /\ closed \in BOOLEAN
        /\ MaxData \in Nat /\ Pipe \in Nat /\ given = avail + rsize + got
    BY <1>1, FdIOAssumption DEF NothingLost, TypeOK
  <2>1. CASE OtherSends
    <3>1. /\ given < MaxData /\ given' = given + 1 /\ avail' = avail + 1
          /\ space' = space /\ closed' = closed
      BY <2>1 DEF OtherSends
    <3>2. avail <= given
      BY <2>0
    <3>3. given' \in 0 .. MaxData /\ avail' \in 0 .. MaxData
      BY <2>0, <3>1, <3>2
    <3>4. given' = avail' + rsize + got
      BY <2>0, <3>1
    <3> QED
      BY <2>0, <3>1, <3>3, <3>4
  <2>2. CASE OtherReads
    BY <2>0, <2>2 DEF OtherReads
  <2>3. CASE OtherCloses
    BY <2>0, <2>3 DEF OtherCloses
  <2>4. CASE UNCHANGED vars
    BY <2>0, <2>4 DEF vars, fdVars
  <2> QED
    BY <2>1, <2>2, <2>3, <2>4
<1>4. TypeOK'
  BY <1>1, <1>2, <1>3 DEF TypeOK, queueVars, ownerVars
<1>5. NothingLost'
  BY <1>2, <1>3 DEF NothingLost, ownerVars
<1>6. AttachedFirst' /\ (Working' => OneWrite(Mail', o'.wbuf, wsize', wwait'))
  BY <1>2 DEF FdInv, AttachedFirst, Working, Mail, queueVars, ownerVars
<1> QED
  BY <1>4, <1>5, <1>6 DEF FdInv

\* Only the descriptor has been sent.
LEMMA InitOK == Init => FdInv
<1> SUFFICES ASSUME Init PROVE FdInv
  OBVIOUS
<1>1. TypeOK
  <2>1. inq \in Seq(Messages) /\ outq \in Seq(Messages)
    <3>1. "attach" \in Messages
      BY DEF Messages
    <3> QED
      BY <3>1 DEF Init
  <2>2. o \in Objects
    BY NoObjectFacts DEF Init
  <2>3. /\ rsize \in 0 .. ReadSize /\ wsize \in Nat /\ avail \in 0 .. MaxData /\ space \in 0 .. Pipe
        /\ given \in 0 .. MaxData /\ got \in Nat
         /\ reads \in 0 .. MaxReads /\ writes \in 0 .. MaxWrites
    BY FdIOAssumption DEF Init
  <2>4. /\ phase \in {"queues", "idle", "poll", "failed"} /\ watch \subseteq {"read", "write"}
        /\ {closed, rwait, wwait} \subseteq BOOLEAN
    BY DEF Init
  <2> QED
    BY <2>1, <2>2, <2>3, <2>4 DEF TypeOK, Objects
<1>2. Mail = <<"attach">>
  BY DEF Init, Mail
<1>3. Range(outq) = {}
  BY DEF Init, Range
<1>4. NothingLost /\ AttachedFirst
  BY <1>3 DEF Init, NothingLost, AttachedFirst
<1>5. Range(Mail) = {"attach"} /\ Once(Mail)
  BY <1>2 DEF Range, Once
<1>6. OneWrite(Mail, o.wbuf, wsize, wwait)
  BY <1>5, NoObjectFacts DEF Init, OneWrite, WriteMessages
<1> QED
  BY <1>1, <1>4, <1>6 DEF FdInv

-----------------------------------------------------------------------------
(* The theorems *)

\* The one write that is under way is where the invariant says, until the file
\* ends.
THEOREM FdInvariance == Spec => []FdInv
<1>1. FdInv /\ [Next]_vars => FdInv'
  BY AttachOK, ReadOK, WriteOK, FiredOK, OwnerHears, AsksOK, LoopOK, OtherOK DEF Next, LoopStep
<1> QED
  BY <1>1, InitOK, PTL DEF Spec

\* FdIO_TimerR_timer, however often it is called and whatever the descriptor
\* takes and gives, loses no byte, and says of a block that it has been written
\* when it has, and once.
THEOREM BytesCorrect == Spec => []BytesSound
<1>1. FdInv => BytesSound
  <2> SUFFICES ASSUME FdInv PROVE BytesSound
    OBVIOUS
  <2>1. BlockAnswered
    <3> SUFFICES ASSUME o.fd, ~o.eof, "IOR_written" \in Range(Mail)
                 PROVE  /\ wwait /\ wsize = 0 /\ ~o.wbuf
                        /\ \A i, j \in DOMAIN Mail :
                             Mail[i] = "IOR_written" /\ Mail[j] = "IOR_written" => i = j
      BY DEF BlockAnswered
    <3>1. OneWrite(Mail, o.wbuf, wsize, wwait)
      BY DEF FdInv, Working
    <3>2. "IOR_written" \in WriteMessages
      BY DEF WriteMessages
    <3> QED
      BY <3>1, <3>2 DEF OneWrite, Once
  <2> QED
    BY <2>1 DEF FdInv, BytesSound
<1> QED
  BY <1>1, FdInvariance, PTL
=============================================================================
