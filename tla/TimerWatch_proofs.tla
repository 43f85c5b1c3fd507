-------------------------- MODULE TimerWatch_proofs --------------------------
(***************************************************************************)
(* What the Timers and the loop keep true, for any proxies, file           *)
(* descriptors, timeouts and bounds: the list has every Timer once, an     *)
(* owner gets one answer to a request, no request is forgotten, and poll   *)
(* never waits past the first deadline.                                    *)
(***************************************************************************)
EXTENDS TimerWatch, SeqLemmas

-----------------------------------------------------------------------------
(* The inductive invariant *)

\* All messages on their way, the next one to be delivered first.
Mail == inq \o outq

Fired(t, q) == \E m \in Range(q) : m.kind = "fired" /\ m.t = t

\* Only while messages are delivered are there new ones in the output queue.
Drained == phase # "queues" => outq = <<>>

\* Without its proxy there is no Timer, and nobody waits for it.
Owned == want \subseteq proxy /\ \A t \in Timers \ proxy : ~timer[t].live

\* A Timer that has fired waits, with its answer, for the next sweep.
Spent ==
    \A t \in Timers : timer[t].unused =>
        /\ timer[t].live /\ phase \in {"queues", "sweep"}
        /\ Fired(t, IF phase = "queues" THEN outq ELSE inq)

\* When its answer is delivered, the Timer is gone, or another in its place;
\* that is why the sweep must come between.
Answering ==
    \A t \in Timers :
        /\ Fired(t, outq) => timer[t].unused \/ t \notin proxy
        /\ phase = "sweep" /\ Fired(t, inq) => timer[t].unused \/ ~timer[t].live
        /\ phase \notin {"queues", "sweep"} /\ Fired(t, inq) => ~timer[t].live

\* No two answers to one owner are on their way.
Single(q) ==
    \A i, j \in DOMAIN q :
        q[i].kind = "fired" /\ q[j].kind = "fired" /\ q[i].t = q[j].t => i = j

\* The last of the requests on their way through a proxy is the last one made.
Latest(q, made) ==
    \A i \in DOMAIN q :
        q[i].kind = "watch" =>
            \/ q[i].req = made[q[i].t]
            \/ \E j \in DOMAIN q : j > i /\ q[j].kind = "watch" /\ q[j].t = q[i].t

TimerInv ==
    /\ TypeOK /\ ListComplete
    /\ Drained /\ Owned /\ Spent /\ Answering
    /\ Single(Mail) /\ Latest(Mail, last) /\ NotForgotten

-----------------------------------------------------------------------------
(* Messages and queues *)

TimerRecord ==
    [live : BOOLEAN, unused : BOOLEAN, nextfire : Nat,
     cmd : SUBSET {"read", "timer"}, fd : Fds \cup {NoFd}]

\* What a message can be.
LEMMA Kinds ==
    ASSUME NEW m \in Messages
    PROVE  /\ m.t \in Timers /\ m.kind \in {"watch", "fired"}
           /\ m.kind = "watch" => m.req \in Request
           /\ m.kind = "fired" => m.fd \in Fds \cup {NoFd}
  BY DEF Messages

\* What a request can be, and when it is over.
LEMMA Requests ==
    ASSUME NEW r \in Request
    PROVE  /\ r.cmd \in SUBSET {"read", "timer"} /\ r.fd \in Fds \cup {NoFd}
           /\ r.timeoutms \in Nat
<1>1. TIMER_NONE \in Nat /\ Timeouts \subseteq Nat
  BY TimerAssumption DEF TIMER_NONE
<1>2. CASE r = [cmd |-> WATCH_STOP, fd |-> NoFd, timeoutms |-> TIMER_NONE]
  BY <1>1, <1>2 DEF WATCH_STOP
<1>3. CASE r \in [cmd : {{"timer"}}, fd : {NoFd}, timeoutms : Timeouts]
  BY <1>1, <1>3
<1>4. CASE r \in [cmd : {{"read"}}, fd : Fds, timeoutms : {TIMER_NONE}]
  BY <1>1, <1>4
<1>5. CASE r \in [cmd : {{"read", "timer"}}, fd : Fds, timeoutms : Timeouts]
  BY <1>1, <1>5
<1> QED
  BY <1>2, <1>3, <1>4, <1>5 DEF Request

LEMMA MailTypes ==
    ASSUME TypeOK
    PROVE  /\ Mail \in Seq(Messages) /\ Range(Mail) = Range(inq) \cup Range(outq)
           /\ inq \in Seq(Messages) /\ outq \in Seq(Messages)
<1>1. inq \in Seq(Messages) /\ outq \in Seq(Messages)
  BY DEF TypeOK
<1> QED
  BY <1>1, ConcatFacts DEF Mail

\* A message is delivered, and another may be sent.
LEMMA Delivered ==
    ASSUME TypeOK, inq # <<>>, inq' = Tail(inq), NEW m \in Messages,
           outq' \in {outq, Append(outq, m)}
    PROVE  /\ Head(inq) \in Messages /\ inq' \in Seq(Messages) /\ outq' \in Seq(Messages)
           /\ Mail # <<>> /\ Head(Mail) = Head(inq) /\ Tail(Mail) \in Seq(Messages)
           /\ Range(inq) = {Head(inq)} \cup Range(inq')
           /\ outq' = outq => Mail' = Tail(Mail)
           /\ outq' = Append(outq, m) => /\ Mail' = Append(Tail(Mail), m)
                                         /\ Range(outq') = Range(outq) \cup {m}
<1>1. inq \in Seq(Messages) /\ outq \in Seq(Messages) /\ Mail \in Seq(Messages)
  BY MailTypes
<1>2. /\ Head(inq) \in Messages /\ Tail(inq) \in Seq(Messages)
      /\ Range(inq) = {Head(inq)} \cup Range(Tail(inq))
  BY <1>1, TailFacts
<1>3. Mail # <<>> /\ Head(Mail) = Head(inq) /\ Tail(Mail) = Tail(inq) \o outq
  BY <1>1, TailConcat DEF Mail
<1>4. Tail(Mail) \in Seq(Messages)
  BY <1>1, <1>3, TailFacts
<1>5. Append(outq, m) \in Seq(Messages) /\ Range(Append(outq, m)) = Range(outq) \cup {m}
  BY <1>1, AppendFacts
<1>6. Tail(inq) \o Append(outq, m) = Append(Tail(inq) \o outq, m)
  BY <1>1, <1>2, AppendConcat
<1> QED
  BY <1>1, <1>2, <1>3, <1>4, <1>5, <1>6 DEF Mail

\* A message is sent.
LEMMA Sent ==
    ASSUME TypeOK, inq' = inq, NEW m \in Messages, outq' = Append(outq, m)
    PROVE  /\ outq' \in Seq(Messages) /\ Mail' = Append(Mail, m)
           /\ Range(outq') = Range(outq) \cup {m}
<1>1. inq \in Seq(Messages) /\ outq \in Seq(Messages)
  BY MailTypes
<1> QED
  BY <1>1, AppendFacts, AppendConcat DEF Mail

\* The queues are exchanged.
LEMMA Swapped ==
    ASSUME TypeOK, inq = <<>>, inq' = outq, outq' = <<>>
    PROVE  Mail' = Mail
<1>1. outq \in Seq(Messages)
  BY MailTypes
<1> QED
  BY <1>1, ConcatEmptySeq DEF Mail

-----------------------------------------------------------------------------
(* What the two statements about all messages stand up to *)

\* No answer is added.
LEMMA SingleTail ==
    ASSUME NEW q \in Seq(Messages), q # <<>>, Single(q)
    PROVE  Single(Tail(q))
<1>1. /\ Len(q) \in Nat /\ Len(q) > 0 /\ DOMAIN q = 1 .. Len(q)
      /\ DOMAIN Tail(q) = 1 .. Len(q) - 1
      /\ \A i \in 1 .. Len(q) - 1 : Tail(q)[i] = q[i + 1] /\ i + 1 \in 1 .. Len(q)
  OBVIOUS
<1>2. ASSUME NEW i \in 1 .. Len(q) - 1, NEW j \in 1 .. Len(q) - 1,
             q[i + 1].kind = "fired", q[j + 1].kind = "fired", q[i + 1].t = q[j + 1].t
      PROVE  i = j
  <2>1. i + 1 = j + 1
    BY <1>1, <1>2 DEF Single
  <2> QED
    BY <1>1, <2>1
<1> QED
  BY <1>1, <1>2 DEF Single

LEMMA SingleAppend ==
    ASSUME NEW q \in Seq(Messages), NEW m \in Messages, m.kind = "watch", Single(q)
    PROVE  Single(Append(q, m))
<1>1. /\ Len(q) \in Nat /\ DOMAIN q = 1 .. Len(q) /\ DOMAIN Append(q, m) = 1 .. Len(q) + 1
      /\ \A i \in 1 .. Len(q) : Append(q, m)[i] = q[i]
      /\ Append(q, m)[Len(q) + 1] = m
  OBVIOUS
<1>2. \A i \in 1 .. Len(q) + 1 : Append(q, m)[i].kind = "fired" => i \in 1 .. Len(q)
  BY <1>1
<1> QED
  BY <1>1, <1>2 DEF Single

\* Answers of Timers that had none are added.
LEMMA SingleConcat ==
    ASSUME NEW q \in Seq(Messages), NEW r \in Seq(Messages), Single(q), Single(r),
           \A i \in DOMAIN r : ~Fired(r[i].t, q)
    PROVE  Single(q \o r)
<1>1. /\ q \o r \in Seq(Messages) /\ Len(q \o r) = Len(q) + Len(r)
      /\ \A i \in 1 .. Len(q) + Len(r) :
            (q \o r)[i] = IF i <= Len(q) THEN q[i] ELSE r[i - Len(q)]
  BY ConcatProperties, Zenon
<1>2. /\ Len(q) \in Nat /\ Len(r) \in Nat /\ DOMAIN q = 1 .. Len(q) /\ DOMAIN r = 1 .. Len(r)
      /\ DOMAIN (q \o r) = 1 .. Len(q) + Len(r)
  BY <1>1
<1>3. ASSUME NEW i \in 1 .. Len(q) + Len(r), NEW j \in 1 .. Len(q) + Len(r),
             (q \o r)[i].kind = "fired", (q \o r)[j].kind = "fired", (q \o r)[i].t = (q \o r)[j].t
      PROVE  i = j
  <2>1. ASSUME NEW k \in 1 .. Len(q), NEW l \in 1 .. Len(r), q[k].kind = "fired"
        PROVE  q[k].t # r[l].t
    BY <1>2, <2>1 DEF Fired, Range
  <2>2. \A k \in 1 .. Len(q) + Len(r) : k <= Len(q) \/ k - Len(q) \in 1 .. Len(r)
    BY <1>2
  <2>3. CASE i <= Len(q) /\ j <= Len(q)
    BY <1>1, <1>2, <1>3, <2>3 DEF Single
  <2>4. CASE i > Len(q) /\ j > Len(q)
    <3>1. i - Len(q) \in 1 .. Len(r) /\ j - Len(q) \in 1 .. Len(r)
      BY <1>2, <2>2, <2>4
    <3>2. r[i - Len(q)] = (q \o r)[i] /\ r[j - Len(q)] = (q \o r)[j]
      BY <1>1, <1>2, <2>4
    <3>3. i - Len(q) = j - Len(q)
      BY <1>2, <1>3, <3>1, <3>2 DEF Single
    <3> QED
      BY <1>2, <3>3
  <2>5. CASE i <= Len(q) /\ j > Len(q)
    <3>1. i \in 1 .. Len(q) /\ j - Len(q) \in 1 .. Len(r)
      BY <1>2, <2>2, <2>5
    <3>2. (q \o r)[i] = q[i] /\ (q \o r)[j] = r[j - Len(q)]
      BY <1>1, <1>2, <2>5
    <3> QED
      BY <1>3, <2>1, <3>1, <3>2
  <2>6. CASE i > Len(q) /\ j <= Len(q)
    <3>1. j \in 1 .. Len(q) /\ i - Len(q) \in 1 .. Len(r)
      BY <1>2, <2>2, <2>6
    <3>2. (q \o r)[j] = q[j] /\ (q \o r)[i] = r[i - Len(q)]
      BY <1>1, <1>2, <2>6
    <3> QED
      BY <1>3, <2>1, <3>1, <3>2
  <2> QED
    BY <1>2, <2>3, <2>4, <2>5, <2>6
<1> QED
  BY <1>2, <1>3 DEF Single

\* The first message is taken.
LEMMA LatestTail ==
    ASSUME NEW q \in Seq(Messages), q # <<>>, NEW made, Latest(q, made)
    PROVE  /\ Latest(Tail(q), made)
           /\ Head(q).kind = "watch" =>
                \/ Head(q).req = made[Head(q).t]
                \/ \E m \in Range(Tail(q)) : m.kind = "watch" /\ m.t = Head(q).t
<1>1. /\ Len(q) \in Nat /\ Len(q) > 0 /\ DOMAIN q = 1 .. Len(q) /\ Head(q) = q[1]
      /\ DOMAIN Tail(q) = 1 .. Len(q) - 1
      /\ \A i \in 1 .. Len(q) - 1 : Tail(q)[i] = q[i + 1] /\ i + 1 \in 1 .. Len(q)
  OBVIOUS
<1>2. ASSUME NEW i \in 1 .. Len(q), q[i].kind = "watch", q[i].req # made[q[i].t]
      PROVE  \E j \in 1 .. Len(q) - 1 :
                j + 1 > i /\ Tail(q)[j].kind = "watch" /\ Tail(q)[j].t = q[i].t
  <2>1. PICK j \in 1 .. Len(q) : j > i /\ q[j].kind = "watch" /\ q[j].t = q[i].t
    BY <1>1, <1>2 DEF Latest
  <2>2. j - 1 \in 1 .. Len(q) - 1 /\ (j - 1) + 1 = j
    BY <1>1, <2>1
  <2> QED
    BY <1>1, <2>1, <2>2
<1>3. ASSUME NEW i \in 1 .. Len(q) - 1, Tail(q)[i].kind = "watch",
             Tail(q)[i].req # made[Tail(q)[i].t]
      PROVE  \E j \in 1 .. Len(q) - 1 :
                j > i /\ Tail(q)[j].kind = "watch" /\ Tail(q)[j].t = Tail(q)[i].t
  <2>1. PICK j \in 1 .. Len(q) - 1 :
                j + 1 > i + 1 /\ Tail(q)[j].kind = "watch" /\ Tail(q)[j].t = q[i + 1].t
    BY <1>1, <1>2, <1>3
  <2> QED
    BY <1>1, <2>1
<1>4. Latest(Tail(q), made)
  BY <1>1, <1>3 DEF Latest
<1>5. ASSUME Head(q).kind = "watch", Head(q).req # made[Head(q).t]
      PROVE  \E m \in Range(Tail(q)) : m.kind = "watch" /\ m.t = Head(q).t
  <2>1. PICK j \in 1 .. Len(q) - 1 : Tail(q)[j].kind = "watch" /\ Tail(q)[j].t = Head(q).t
    BY <1>1, <1>2, <1>5
  <2> QED
    BY <1>1, <2>1 DEF Range
<1> QED
  BY <1>4, <1>5

\* A request is made.
LEMMA LatestAppend ==
    ASSUME NEW q \in Seq(Messages), NEW made \in [Timers -> Request],
           NEW t \in Timers, NEW r \in Request, Latest(q, made)
    PROVE  Latest(Append(q, [kind |-> "watch", t |-> t, req |-> r]), [made EXCEPT ![t] = r])
<1> DEFINE m == [kind |-> "watch", t |-> t, req |-> r]
           new == [made EXCEPT ![t] = r]
           a == Append(q, m)
<1>1. m \in Messages /\ m.kind = "watch" /\ m.t = t /\ m.req = r
  BY DEF Messages
<1>2. new[t] = r /\ \A u \in Timers : u # t => new[u] = made[u]
  OBVIOUS
<1>3. /\ Len(q) \in Nat /\ DOMAIN q = 1 .. Len(q) /\ \A i \in 1 .. Len(q) : q[i] \in Messages
  OBVIOUS
<1> HIDE DEF m, new
<1>4. /\ DOMAIN a = 1 .. Len(q) + 1
      /\ \A i \in 1 .. Len(q) : a[i] = q[i]
      /\ a[Len(q) + 1] = m
  BY <1>1
<1> HIDE DEF a
<1>5. ASSUME NEW i \in 1 .. Len(q) + 1, a[i].kind = "watch"
      PROVE  \/ a[i].req = new[a[i].t]
             \/ \E j \in 1 .. Len(q) + 1 : j > i /\ a[j].kind = "watch" /\ a[j].t = a[i].t
  <2>1. CASE i = Len(q) + 1
    BY <1>1, <1>2, <1>4, <2>1
  <2>2. CASE i \in 1 .. Len(q) /\ q[i].t = t
    <3>1. Len(q) + 1 \in 1 .. Len(q) + 1 /\ Len(q) + 1 > i
      BY <1>3, <2>2
    <3> QED
      BY <1>1, <1>4, <2>2, <3>1
  <2>3. CASE i \in 1 .. Len(q) /\ q[i].t # t
    <3>1. q[i].kind = "watch" /\ q[i].t \in Timers /\ a[i] = q[i]
      BY <1>3, <1>4, <1>5, <2>3, Kinds
    <3>2. CASE q[i].req = made[q[i].t]
      BY <1>2, <2>3, <3>1, <3>2
    <3>3. CASE q[i].req # made[q[i].t]
      <4>1. PICK j \in 1 .. Len(q) : j > i /\ q[j].kind = "watch" /\ q[j].t = q[i].t
        BY <1>3, <2>3, <3>1, <3>3 DEF Latest
      <4>2. j \in 1 .. Len(q) + 1
        BY <1>3
      <4> QED
        BY <1>4, <3>1, <4>1, <4>2
    <3> QED
      BY <3>2, <3>3
  <2> QED
    BY <1>3, <2>1, <2>2, <2>3
<1>6. Latest(a, new)
  BY <1>4, <1>5 DEF Latest
<1> QED
  BY <1>6 DEF a, m, new

\* Answers are added.
LEMMA LatestConcat ==
    ASSUME NEW q \in Seq(Messages), NEW r \in Seq(Messages), NEW made, Latest(q, made),
           \A i \in DOMAIN r : r[i].kind = "fired"
    PROVE  Latest(q \o r, made)
<1>1. /\ q \o r \in Seq(Messages) /\ Len(q \o r) = Len(q) + Len(r)
      /\ \A i \in 1 .. Len(q) + Len(r) :
            (q \o r)[i] = IF i <= Len(q) THEN q[i] ELSE r[i - Len(q)]
  BY ConcatProperties, Zenon
<1>2. /\ Len(q) \in Nat /\ Len(r) \in Nat /\ DOMAIN q = 1 .. Len(q) /\ DOMAIN r = 1 .. Len(r)
      /\ DOMAIN (q \o r) = 1 .. Len(q) + Len(r)
  BY <1>1
<1>3. ASSUME NEW i \in 1 .. Len(q) + Len(r), (q \o r)[i].kind = "watch"
      PROVE  i \in 1 .. Len(q) /\ (q \o r)[i] = q[i]
  <2>1. i <= Len(q) \/ i - Len(q) \in 1 .. Len(r)
    BY <1>2
  <2>2. CASE i <= Len(q)
    BY <1>1, <1>2, <2>2
  <2>3. CASE i > Len(q)
    <3>1. (q \o r)[i] = r[i - Len(q)] /\ i - Len(q) \in DOMAIN r
      BY <1>1, <1>2, <2>1, <2>3
    <3> QED
      BY <1>3, <3>1
  <2> QED
    BY <1>2, <2>2, <2>3
<1>4. \A i \in 1 .. Len(q) : (q \o r)[i] = q[i] /\ i \in 1 .. Len(q) + Len(r)
  BY <1>1, <1>2
<1> QED
  BY <1>2, <1>3, <1>4 DEF Latest

-----------------------------------------------------------------------------
(* The time that poll waits *)

\* The nearest deadline is no later than that of any Timer in the list.
LEMMA NearestFacts ==
    ASSUME TypeOK
    PROVE  /\ nearest \in 0 .. TIMER_MAX
           /\ \A t \in Range(list) : nearest <= timer[t].nextfire
           /\ nearest = TIMER_MAX \/ \E t \in Range(list) : timer[t].nextfire = nearest
<1> DEFINE T == {timer[t].nextfire : t \in Range(list)} \cup {TIMER_MAX}
<1>1. TIMER_MAX \in Nat /\ Range(list) \subseteq Timers /\ \A t \in Timers : timer[t].nextfire \in Nat
  BY TimerAssumption, RangeOfSeq DEF TypeOK
<1>2. T \in SUBSET Nat /\ T # {}
  BY <1>1
<1>3. PICK n \in T : \A m \in T : n <= m
  BY <1>2, LeastMember
<1>4. /\ n \in 0 .. TIMER_MAX
      /\ n = TIMER_MAX \/ \E t \in Range(list) : timer[t].nextfire = n
      /\ \A t \in Range(list) : n <= timer[t].nextfire
  BY <1>1, <1>2, <1>3
<1> QED
  BY <1>4 DEF nearest

\* What the conversion to int makes of a time that is not far away.
LEMMA ToIntFacts ==
    ASSUME NEW d \in Int
    PROVE  /\ ToInt(d) \in Int
           /\ d >= 0 => ToInt(d) <= d
           /\ d < 0 /\ d >= -(INT_MAX + 1) => ToInt(d) < 0
<1> DEFINE n == 2 * INT_MAX + 2
           y == d % n
<1>1. INT_MAX \in Nat /\ n \in Nat /\ n > 0
  BY TimerAssumption
<1>2. y \in 0 .. n - 1
  BY <1>1
<1>3. d >= 0 => y <= d
  BY <1>1
<1>4. d < 0 /\ d >= -(INT_MAX + 1) => y = d + n
  BY <1>1
<1>5. ToInt(d) = IF y > INT_MAX THEN y - n ELSE y
  BY DEF ToInt
<1> HIDE DEF y
<1> QED
  BY <1>1, <1>2, <1>3, <1>4, <1>5

\* The end of the wait is a time.
LEMMA WakeType ==
    ASSUME TypeOK, NEW ms \in Int, PollFor(ms)
    PROVE  wake' \in Nat
  BY TimerAssumption DEF TypeOK, PollFor, TIMER_NONE

-----------------------------------------------------------------------------
(* Timers fire *)

Answers(firing) ==
    LET fired == Filter(list, firing)
    IN  [i \in DOMAIN fired |-> [kind |-> "fired", t |-> fired[i], fd |-> timer[fired[i]].fd]]

LEMMA FireFacts ==
    ASSUME TypeOK, ListComplete, NEW firing, Fire(firing)
    PROVE  /\ timer' \in [Timers -> TimerRecord]
           /\ \A t \in Timers :
                /\ timer'[t].live = timer[t].live /\ timer'[t].cmd = timer[t].cmd
                /\ timer'[t].fd = timer[t].fd /\ timer'[t].nextfire = timer[t].nextfire
                /\ timer'[t].unused = (timer[t].unused \/ (timer[t].live /\ t \in firing))
           /\ Answers(firing) \in Seq(Messages) /\ Single(Answers(firing))
           /\ \A i \in DOMAIN Answers(firing) :
                /\ Answers(firing)[i].kind = "fired" /\ Answers(firing)[i].t \in Timers
                /\ timer[Answers(firing)[i].t].live /\ Answers(firing)[i].t \in firing
           /\ \A t \in Timers : timer[t].live /\ t \in firing => Fired(t, Answers(firing))
           /\ outq' = outq \o Answers(firing)
<1> DEFINE fired == Filter(list, firing)
           q == Answers(firing)
<1>1. list \in Seq(Timers) /\ IsInjective(list) /\ Range(list) = {t \in Timers : timer[t].live}
  BY DEF TypeOK, ListComplete, IsInjective
<1>2. /\ fired \in Seq(Timers) /\ IsInjective(fired)
      /\ Range(fired) = {t \in Timers : timer[t].live} \cap firing
  BY <1>1, FilterFacts
<1>3. /\ outq' = outq \o q
      /\ timer' = [t \in Timers |-> [timer[t] EXCEPT !.unused = timer[t].unused \/ t \in Range(fired)]]
      /\ q = [i \in DOMAIN fired |->
                [kind |-> "fired", t |-> fired[i], fd |-> timer[fired[i]].fd]]
  BY DEF Fire, Answers
<1> HIDE DEF fired, q
<1>4. timer \in [Timers -> TimerRecord]
  BY DEF TypeOK, TimerRecord
<1>5. ASSUME NEW t \in Timers
      PROVE  /\ timer'[t] \in TimerRecord
             /\ timer'[t].live = timer[t].live /\ timer'[t].cmd = timer[t].cmd
             /\ timer'[t].fd = timer[t].fd /\ timer'[t].nextfire = timer[t].nextfire
             /\ timer'[t].unused = (timer[t].unused \/ (timer[t].live /\ t \in firing))
  <2>1. timer'[t] = [timer[t] EXCEPT !.unused = timer[t].unused \/ t \in Range(fired)]
    BY <1>3
  <2>2. (timer[t].unused \/ t \in Range(fired)) \in BOOLEAN
    OBVIOUS
  <2>3. t \in Range(fired) <=> timer[t].live /\ t \in firing
    BY <1>2
  <2> QED
    BY <1>4, <2>1, <2>2, <2>3 DEF TimerRecord
<1>6. timer' \in [Timers -> TimerRecord]
  BY <1>3, <1>5
<1>7. /\ Len(fired) \in Nat /\ DOMAIN fired = 1 .. Len(fired)
      /\ \A i \in DOMAIN fired : fired[i] \in Timers /\ timer[fired[i]].live /\ fired[i] \in firing
  BY <1>2 DEF Range
<1>8. \A i \in DOMAIN fired : /\ q[i] \in Messages /\ q[i].kind = "fired" /\ q[i].t = fired[i]
  BY <1>3, <1>4, <1>7 DEF Messages, TimerRecord
<1>9. q \in Seq(Messages) /\ DOMAIN q = DOMAIN fired
  <2>1. q \in [1 .. Len(fired) -> Messages]
    BY <1>3, <1>7, <1>8
  <2> QED
    BY <1>7, <2>1
<1>10. Single(q)
  BY <1>2, <1>8, <1>9 DEF Single, IsInjective
<1>11. ASSUME NEW t \in Timers, timer[t].live, t \in firing PROVE Fired(t, q)
  <2>1. PICK i \in DOMAIN fired : fired[i] = t
    BY <1>2, <1>11 DEF Range
  <2> QED
    BY <1>8, <1>9, <2>1 DEF Fired, Range
<1> QED
  BY <1>3, <1>5, <1>6, <1>7, <1>8, <1>9, <1>10, <1>11 DEF q

-----------------------------------------------------------------------------
(* The actions, by what they change *)

\* poll has returned, and some Timers fire.
PollReturns ==
    /\ phase = "poll" /\ Polled /\ \E firing \in SUBSET Timers : Fire(firing)

\* The loop goes on, and perhaps starts to wait.
LoopMoves ==
    /\ UNCHANGED <<loop, now, inq, outq, list, timer, ready, ownerVars>>
    /\ wake' \in Nat
    /\ \/ phase \in {"idle", "check"} /\ phase' \in {"poll", "done", "queues"}
       \/ phase = "host" /\ phase' \in {"hostpoll", "done", "check"}
       \/ phase = "hostpoll" /\ phase' = "check"

LEMMA Moves ==
    ASSUME TypeOK, Next
    PROVE  \/ Timer_Timer_watch \/ TimerR_timer \/ SwapQueues \/ Timer_destroy
           \/ OwnerWatches \/ OwnerDropsProxy \/ Tick \/ FdReady
           \/ PollReturns \/ LoopMoves
<1>1. CASE PollReady \/ PollTimesOut \/ PollInterrupted
  <2>1. PICK firing : phase = "poll" /\ Fire(firing) /\ Polled
                        /\ firing \in {{t \in Timers : Expired(t) \/ HasEvent(t)},
                                       {t \in Timers : Expired(t)}}
    BY <1>1 DEF PollReady, PollTimesOut, PollInterrupted
  <2>2. firing \in SUBSET Timers
    BY <2>1
  <2> QED
    BY <2>1, <2>2 DEF PollReturns
<1>2. CASE StartPoll
  <2> DEFINE toWait == IF OwnLoop \/ inq # <<>> \/ outq # <<>> THEN 0 ELSE -1
             ms == IF toWait # 0 /\ nearest < TIMER_MAX THEN ToInt(nearest - now) ELSE toWait
  <2>1. phase \in {"idle", "check"} /\ phase' = "poll" /\ PollFor(ms)
        /\ UNCHANGED <<loop, now, inq, outq, list, timer, ready, ownerVars>>
    BY <1>2 DEF StartPoll
  <2>2. nearest - now \in Int
    BY NearestFacts, TimerAssumption DEF TypeOK
  <2>3. ms \in Int
    BY <2>2, ToIntFacts
  <2> HIDE DEF ms
  <2>4. wake' \in Nat
    BY <2>1, <2>3, WakeType
  <2> QED
    BY <2>1, <2>4 DEF LoopMoves
<1>3. CASE Timer_watch_list_for_poll
  <2> DEFINE ms == IF inq # <<>> \/ outq # <<>> THEN 0
               ELSE IF now < nearest THEN ToInt(nearest - now) ELSE -1
  <2>1. phase = "host" /\ phase' = "hostpoll" /\ PollFor(ms)
        /\ UNCHANGED <<loop, now, inq, outq, list, timer, ready, ownerVars>>
    BY <1>3 DEF Timer_watch_list_for_poll
  <2>2. nearest - now \in Int
    BY NearestFacts, TimerAssumption DEF TypeOK
  <2>3. ms \in Int
    BY <2>2, ToIntFacts
  <2> HIDE DEF ms
  <2>4. wake' \in Nat
    BY <2>1, <2>3, WakeType
  <2> QED
    BY <2>1, <2>4 DEF LoopMoves
<1>4. CASE NoTimers \/ HostPolled \/ HostUnwatched
  <2>1. wake' \in Nat
    BY <1>4 DEF NoTimers, HostPolled, HostUnwatched, TypeOK
  <2> QED
    BY <1>4, <2>1 DEF NoTimers, HostPolled, HostUnwatched, LoopMoves
<1> QED
  BY <1>1, <1>2, <1>3, <1>4 DEF Next, LoopStep

\* A request is made.
LEMMA Watches ==
    ASSUME TypeOK, NEW t \in Timers, NEW r \in Request, NEW q, PTimer_watch(t, r, q)
    PROVE  /\ t \in proxy /\ outq' = Append(q, [kind |-> "watch", t |-> t, req |-> r])
           /\ [kind |-> "watch", t |-> t, req |-> r] \in Messages
           /\ last' = [last EXCEPT ![t] = r] /\ last' \in [Timers -> Request]
           /\ count' \in 0 .. MaxWatch
           /\ want' \subseteq Timers /\ want' \subseteq want \cup {t}
  BY TimerAssumption DEF PTimer_watch, TypeOK, Messages

\* The Timer takes a request: it is there, and works on that.
Taking(t, r) ==
    \E nextfire \in Nat :
        timer' = [timer EXCEPT ![t] = [live |-> TRUE, unused |-> timer[t].unused,
                                       nextfire |-> nextfire, cmd |-> r.cmd, fd |-> r.fd]]

LEMMA Takes ==
    ASSUME TypeOK, Timer_Timer_watch, Head(inq).t \in proxy
    PROVE  Timer_create(Head(inq).t) /\ Taking(Head(inq).t, Head(inq).req)
<1> DEFINE m == Head(inq)
           n == IF m.req.timeoutms <= TIMER_MAX THEN m.req.timeoutms + now ELSE m.req.timeoutms
<1>1. inq # <<>> /\ inq' = Tail(inq) /\ outq' = outq /\ m.kind = "watch"
  BY DEF Timer_Timer_watch, Delivers
<1>2. m \in Messages
  BY <1>1, TailFacts DEF TypeOK
<1>3. m.req.timeoutms \in Nat
  BY <1>1, <1>2, Kinds, Requests
<1>4. n \in Nat
  BY <1>3, TimerAssumption DEF TypeOK
<1>5. /\ Timer_create(m.t)
      /\ timer' = [timer EXCEPT ![m.t] = [live |-> TRUE, unused |-> timer[m.t].unused,
                                          nextfire |-> n, cmd |-> m.req.cmd, fd |-> m.req.fd]]
  <2>1. m.t \in Timers
    BY <1>2, Kinds
  <2> QED
    BY <2>1 DEF Timer_Timer_watch, TypeOK
<1> HIDE DEF n
<1> QED
  BY <1>4, <1>5 DEF Taking

-----------------------------------------------------------------------------
(* The steps: types, and the list *)

LEMMA TypeStep ==
    ASSUME TypeOK, ListComplete, Next
    PROVE  TypeOK'
<1>0. /\ loop \in Loops /\ now \in 0 .. MaxNow
      /\ inq \in Seq(Messages) /\ outq \in Seq(Messages) /\ list \in Seq(Timers)
      /\ timer \in [Timers -> TimerRecord] /\ ready \in [Fds -> SUBSET Conditions]
      /\ phase \in {"check", "queues", "sweep", "idle", "poll", "host", "hostpoll", "done"}
      /\ wake \in Nat /\ proxy \subseteq Timers /\ want \subseteq Timers
      /\ last \in [Timers -> Request] /\ count \in 0 .. MaxWatch
  BY DEF TypeOK, TimerRecord
<1> DEFINE Typed ==
      /\ loop' \in Loops /\ now' \in 0 .. MaxNow
      /\ inq' \in Seq(Messages) /\ outq' \in Seq(Messages) /\ list' \in Seq(Timers)
      /\ timer' \in [Timers -> TimerRecord] /\ ready' \in [Fds -> SUBSET Conditions]
      /\ phase' \in {"check", "queues", "sweep", "idle", "poll", "host", "hostpoll", "done"}
      /\ wake' \in Nat /\ proxy' \subseteq Timers /\ want' \subseteq Timers
      /\ last' \in [Timers -> Request] /\ count' \in 0 .. MaxWatch
<1> SUFFICES Typed
  BY DEF TypeOK, TimerRecord
<1>1. CASE Timer_Timer_watch
  <2>1. /\ inq # <<>> /\ inq' = Tail(inq) /\ Head(inq).kind = "watch"
        /\ UNCHANGED <<loop, now, outq, ready, phase, wake, proxy, last, count, want>>
    BY <1>1 DEF Timer_Timer_watch, Delivers, ownerVars
  <2>2. Head(inq) \in Messages /\ inq' \in Seq(Messages)
    BY <1>0, <2>1, TailFacts
  <2>3. /\ Head(inq).t \in Timers /\ Head(inq).req.cmd \in SUBSET {"read", "timer"}
        /\ Head(inq).req.fd \in Fds \cup {NoFd}
    BY <2>1, <2>2, Kinds, Requests
  <2>4. CASE Head(inq).t \in proxy
    <3> DEFINE t == Head(inq).t
               r == Head(inq).req
    <3>1. Timer_create(t) /\ Taking(t, r)
      BY <1>1, <2>4, Takes
    <3> HIDE DEF t, r
    <3>2. t \in Timers /\ r.cmd \in SUBSET {"read", "timer"} /\ r.fd \in Fds \cup {NoFd}
      BY <2>3 DEF t, r
    <3>3. PICK n \in Nat :
            timer' = [timer EXCEPT ![t] = [live |-> TRUE, unused |-> timer[t].unused,
                                           nextfire |-> n, cmd |-> r.cmd, fd |-> r.fd]]
      BY <3>1 DEF Taking
    <3>4. timer[t].unused \in BOOLEAN
      BY <1>0, <3>2 DEF TimerRecord
    <3>5. [live |-> TRUE, unused |-> timer[t].unused, nextfire |-> n, cmd |-> r.cmd,
           fd |-> r.fd] \in TimerRecord
      BY <3>2, <3>4 DEF TimerRecord
    <3>6. timer' \in [Timers -> TimerRecord]
      BY <1>0, <3>3, <3>5
    <3>7. list' \in Seq(Timers)
      BY <1>0, <3>1, <3>2 DEF Timer_create
    <3> QED
      BY <1>0, <2>1, <2>2, <3>6, <3>7
  <2>5. CASE Head(inq).t \notin proxy
    <3>1. UNCHANGED <<list, timer>>
      BY <1>1, <2>5 DEF Timer_Timer_watch
    <3> QED
      BY <1>0, <2>1, <2>2, <3>1
  <2> QED
    BY <2>4, <2>5
<1>2. CASE TimerR_timer
  <2> DEFINE m == Head(inq)
  <2>1. /\ inq # <<>> /\ inq' = Tail(inq) /\ m.kind = "fired"
        /\ UNCHANGED <<loop, now, list, timer, phase, wake, proxy>>
        /\ \/ ready' = ready
           \/ m.fd # NoFd /\ ready' = [ready EXCEPT ![m.fd] = ready[m.fd] \ {"read"}]
        /\ \/ \E r \in Request : PTimer_watch(m.t, r, outq)
           \/ want' = want \ {m.t} /\ UNCHANGED <<outq, last, count>>
    BY <1>2 DEF TimerR_timer, Delivers
  <2>2. m \in Messages /\ inq' \in Seq(Messages)
    BY <1>0, <2>1, TailFacts
  <2>3. m.t \in Timers /\ m.fd \in Fds \cup {NoFd}
    BY <2>1, <2>2, Kinds
  <2> HIDE DEF m
  <2>4. ready' \in [Fds -> SUBSET Conditions]
    BY <1>0, <2>1, <2>3
  <2>5. CASE \E r \in Request : PTimer_watch(m.t, r, outq)
    <3>1. PICK r \in Request : PTimer_watch(m.t, r, outq)
      BY <2>5
    <3>2. /\ outq' = Append(outq, [kind |-> "watch", t |-> m.t, req |-> r])
          /\ [kind |-> "watch", t |-> m.t, req |-> r] \in Messages
          /\ last' \in [Timers -> Request] /\ count' \in 0 .. MaxWatch /\ want' \subseteq Timers
      BY <2>3, <3>1, Watches
    <3>3. outq' \in Seq(Messages)
      BY <1>0, <3>2
    <3> QED
      BY <1>0, <2>1, <2>2, <2>4, <3>2, <3>3
  <2>6. CASE want' = want \ {m.t} /\ UNCHANGED <<outq, last, count>>
    BY <1>0, <2>1, <2>2, <2>4, <2>6
  <2> QED
    BY <2>1, <2>5, <2>6
<1>3. CASE SwapQueues
  BY <1>0, <1>3 DEF SwapQueues, ownerVars
<1>4. CASE Timer_destroy
  <2>1. list' = Filter(list, {t \in Timers : ~timer[t].unused})
    BY <1>4 DEF Timer_destroy
  <2>2. list' \in Seq(Timers)
    BY <1>0, <2>1, FilterFacts
  <2>3. timer' = [t \in Timers |-> [timer[t] EXCEPT !.live = timer[t].live /\ ~timer[t].unused,
                                                    !.unused = FALSE]]
    BY <1>4 DEF Timer_destroy
  <2>4. ASSUME NEW t \in Timers PROVE timer'[t] \in TimerRecord
    <3>1. (timer[t].live /\ ~timer[t].unused) \in BOOLEAN
      OBVIOUS
    <3> QED
      BY <1>0, <2>3, <3>1 DEF TimerRecord
  <2>5. timer' \in [Timers -> TimerRecord]
    BY <2>3, <2>4
  <2> QED
    BY <1>0, <1>4, <2>2, <2>5 DEF Timer_destroy, ownerVars
<1>5. CASE OwnerWatches
  <2>1. PICK t \in Timers, r \in Request : PTimer_watch(t, r, outq)
    BY <1>5 DEF OwnerWatches
  <2>2. /\ outq' = Append(outq, [kind |-> "watch", t |-> t, req |-> r])
        /\ [kind |-> "watch", t |-> t, req |-> r] \in Messages
        /\ last' \in [Timers -> Request] /\ count' \in 0 .. MaxWatch /\ want' \subseteq Timers
    BY <2>1, Watches
  <2>3. outq' \in Seq(Messages)
    BY <1>0, <2>2
  <2> QED
    BY <1>0, <1>5, <2>2, <2>3 DEF OwnerWatches
<1>6. CASE OwnerDropsProxy
  <2>1. PICK t \in proxy :
            /\ proxy' = proxy \ {t} /\ want' = want \ {t}
            /\ list' = Filter(list, Timers \ {t})
            /\ timer' = [timer EXCEPT ![t].live = FALSE, ![t].unused = FALSE]
    BY <1>6 DEF OwnerDropsProxy
  <2>2. list' \in Seq(Timers)
    BY <1>0, <2>1, FilterFacts
  <2>3. timer' \in [Timers -> TimerRecord]
    <3>1. timer \in [Timers -> TimerRecord] /\ t \in Timers
      BY <1>0
    <3>2. [timer[t] EXCEPT !.live = FALSE, !.unused = FALSE] \in TimerRecord
      <4>1. timer[t] \in TimerRecord
        BY <3>1
      <4> QED
        BY <4>1 DEF TimerRecord
    <3>3. timer' = [timer EXCEPT ![t] = [timer[t] EXCEPT !.live = FALSE, !.unused = FALSE]]
      BY <2>1
    <3> QED
      BY <3>1, <3>2, <3>3
  <2> QED
    BY <1>0, <1>6, <2>1, <2>2, <2>3 DEF OwnerDropsProxy
<1>7. CASE Tick
  BY <1>0, <1>7, TimerAssumption DEF Tick, ownerVars
<1>8. CASE FdReady
  <2>1. ready' \in [Fds -> SUBSET Conditions]
    BY <1>0, <1>8 DEF FdReady
  <2> QED
    BY <1>0, <1>8, <2>1 DEF FdReady, ownerVars
<1>9. CASE PollReturns
  <2>1. PICK firing \in SUBSET Timers : Fire(firing)
    BY <1>9 DEF PollReturns
  <2>2. /\ timer' \in [Timers -> TimerRecord] /\ outq' = outq \o Answers(firing)
        /\ Answers(firing) \in Seq(Messages)
    BY <2>1, FireFacts
  <2>3. outq' \in Seq(Messages)
    BY <1>0, <2>2, ConcatProperties
  <2> QED
    BY <1>0, <1>9, <2>2, <2>3 DEF PollReturns, Polled, ownerVars
<1>10. CASE LoopMoves
  BY <1>0, <1>10 DEF LoopMoves, ownerVars
<1> QED
  BY <1>1, <1>2, <1>3, <1>4, <1>5, <1>6, <1>7, <1>8, <1>9, <1>10, Moves

\* What becomes of a Timer that takes a request; the others stay.
LEMMA TakeFacts ==
    ASSUME TypeOK, NEW t \in Timers, NEW r, Taking(t, r)
    PROVE  /\ timer'[t].live /\ timer'[t].unused = timer[t].unused
           /\ timer'[t].cmd = r.cmd /\ timer'[t].fd = r.fd
           /\ \A u \in Timers : u # t => timer'[u] = timer[u]
<1>1. timer \in [Timers -> TimerRecord]
  BY DEF TypeOK, TimerRecord
<1>2. PICK n \in Nat :
        timer' = [timer EXCEPT ![t] = [live |-> TRUE, unused |-> timer[t].unused,
                                       nextfire |-> n, cmd |-> r.cmd, fd |-> r.fd]]
  BY DEF Taking
<1>3. /\ timer'[t] = [live |-> TRUE, unused |-> timer[t].unused,
                      nextfire |-> n, cmd |-> r.cmd, fd |-> r.fd]
      /\ \A u \in Timers : u # t => timer'[u] = timer[u]
  BY <1>1, <1>2
<1> QED
  BY <1>3

\* The sweep.
LEMMA SweepFacts ==
    ASSUME TypeOK, Timer_destroy
    PROVE  /\ phase = "sweep" /\ phase' \in {"host", "idle"}
           /\ UNCHANGED <<now, inq, outq, proxy, last, want>>
           /\ list' = Filter(list, {t \in Timers : ~timer[t].unused})
           /\ \A t \in Timers :
                /\ timer'[t].live <=> timer[t].live /\ ~timer[t].unused
                /\ ~timer'[t].unused
                /\ timer'[t].cmd = timer[t].cmd /\ timer'[t].fd = timer[t].fd
<1>1. timer \in [Timers -> TimerRecord]
  BY DEF TypeOK, TimerRecord
<1>2. timer' = [t \in Timers |-> [timer[t] EXCEPT !.live = timer[t].live /\ ~timer[t].unused,
                                                  !.unused = FALSE]]
  BY DEF Timer_destroy
<1>3. ASSUME NEW t \in Timers
      PROVE  /\ timer'[t].live = (timer[t].live /\ ~timer[t].unused)
             /\ timer'[t].unused = FALSE
             /\ timer'[t].cmd = timer[t].cmd /\ timer'[t].fd = timer[t].fd
  <2>1. timer'[t] = [timer[t] EXCEPT !.live = timer[t].live /\ ~timer[t].unused, !.unused = FALSE]
    BY <1>2
  <2>2. timer[t] \in TimerRecord
    BY <1>1
  <2> QED
    BY <2>1, <2>2 DEF TimerRecord
<1> QED
  BY <1>3 DEF Timer_destroy, ownerVars

\* A proxy is dropped.
Dropping(t) ==
    /\ phase = "queues" /\ t \in proxy
    /\ proxy' = proxy \ {t} /\ want' = want \ {t}
    /\ UNCHANGED <<loop, now, inq, outq, ready, phase, wake, last, count>>
    /\ list' = Filter(list, Timers \ {t})
    /\ ~timer'[t].live /\ ~timer'[t].unused
    /\ \A u \in Timers : u # t => timer'[u] = timer[u]

LEMMA DropFacts ==
    ASSUME TypeOK, OwnerDropsProxy
    PROVE  \E t \in Timers : Dropping(t)
<1>1. PICK t \in proxy :
          /\ proxy' = proxy \ {t} /\ want' = want \ {t}
          /\ list' = Filter(list, Timers \ {t})
          /\ timer' = [timer EXCEPT ![t].live = FALSE, ![t].unused = FALSE]
  BY DEF OwnerDropsProxy
<1>2. timer \in [Timers -> TimerRecord] /\ t \in Timers
  BY DEF TypeOK, TimerRecord
<1>3. timer'[t] = [timer[t] EXCEPT !.live = FALSE, !.unused = FALSE]
      /\ \A u \in Timers : u # t => timer'[u] = timer[u]
  BY <1>1, <1>2
<1>4. ~timer'[t].live /\ ~timer'[t].unused
  BY <1>2, <1>3 DEF TimerRecord
<1> QED
  BY <1>1, <1>2, <1>3, <1>4 DEF Dropping, OwnerDropsProxy

\* The list has each Timer that exists, once.
LEMMA ListStep ==
    ASSUME TypeOK, ListComplete, Next
    PROVE  ListComplete'
<1>0. list \in Seq(Timers) /\ IsInjective(list) /\ Range(list) = {t \in Timers : timer[t].live}
  BY DEF TypeOK, ListComplete, IsInjective
<1> SUFFICES IsInjective(list') /\ Range(list') = {t \in Timers : timer'[t].live}
  BY DEF ListComplete, IsInjective
<1>1. CASE UNCHANGED <<list, timer>>
  BY <1>0, <1>1
<1>2. CASE Timer_Timer_watch
  <2>1. CASE Head(inq).t \in proxy
    <3> DEFINE t == Head(inq).t
               r == Head(inq).req
    <3>1. Timer_create(t) /\ Taking(t, r) /\ t \in Timers
      BY <1>2, <2>1, Takes DEF TypeOK
    <3> HIDE DEF t, r
    <3>2. timer'[t].live /\ \A u \in Timers : u # t => timer'[u] = timer[u]
      BY <3>1, TakeFacts
    <3>3. IsInjective(list') /\ Range(list') = Range(list) \cup {t}
      BY <1>0, <3>1, AppendFacts DEF Timer_create
    <3> QED
      BY <1>0, <3>1, <3>2, <3>3
  <2>2. CASE Head(inq).t \notin proxy
    BY <1>1, <1>2, <2>2 DEF Timer_Timer_watch
  <2> QED
    BY <2>1, <2>2
<1>3. CASE Timer_destroy
  <2> DEFINE S == {t \in Timers : ~timer[t].unused}
  <2>1. /\ list' = Filter(list, S)
        /\ \A t \in Timers : timer'[t].live <=> timer[t].live /\ ~timer[t].unused
    BY <1>3, SweepFacts
  <2> HIDE DEF S
  <2>2. IsInjective(list') /\ Range(list') = Range(list) \cap S
    BY <1>0, <2>1, FilterFacts
  <2> QED
    BY <1>0, <2>1, <2>2 DEF S
<1>4. CASE OwnerDropsProxy
  <2>1. PICK t \in Timers : Dropping(t)
    BY <1>4, DropFacts
  <2>2. IsInjective(list') /\ Range(list') = Range(list) \cap (Timers \ {t})
    BY <1>0, <2>1, FilterFacts DEF Dropping
  <2> QED
    BY <1>0, <2>1, <2>2 DEF Dropping
<1>5. CASE PollReturns
  <2>1. PICK firing \in SUBSET Timers : Fire(firing)
    BY <1>5 DEF PollReturns
  <2>2. \A t \in Timers : timer'[t].live = timer[t].live
    BY <2>1, FireFacts
  <2> QED
    BY <1>0, <1>5, <2>2 DEF PollReturns, Polled
<1> QED
  BY <1>1, <1>2, <1>3, <1>4, <1>5, Moves
     DEF TimerR_timer, SwapQueues, OwnerWatches, Tick, FdReady, LoopMoves

-----------------------------------------------------------------------------
(* The steps: answers, and the Timers that have given them *)

Flow == Drained /\ Owned /\ Spent /\ Answering

LEMMA FlowStep ==
    ASSUME TypeOK, ListComplete, Flow, Next
    PROVE  Flow'
<1> USE DEF Flow
<1>0. /\ inq \in Seq(Messages) /\ outq \in Seq(Messages)
      /\ proxy \subseteq Timers /\ want \subseteq Timers
  BY DEF TypeOK
<1>1. CASE Timer_Timer_watch
  <2>1. phase = "queues" /\ UNCHANGED <<outq, phase, proxy, want>>
    BY <1>1 DEF Timer_Timer_watch, Delivers, ownerVars
  <2>2. CASE Head(inq).t \in proxy
    <3> DEFINE t == Head(inq).t
               r == Head(inq).req
    <3>1. Taking(t, r) /\ t \in Timers /\ t \in proxy
      BY <1>0, <1>1, <2>2, Takes
    <3> HIDE DEF t, r
    <3>2. /\ timer'[t].live /\ timer'[t].unused = timer[t].unused
          /\ \A u \in Timers : u # t => timer'[u] = timer[u]
      BY <3>1, TakeFacts
    <3> QED
      BY <2>1, <3>1, <3>2 DEF Drained, Owned, Spent, Answering
  <2>3. CASE Head(inq).t \notin proxy
    <3>1. timer' = timer
      BY <1>1, <2>3 DEF Timer_Timer_watch
    <3> QED
      BY <2>1, <3>1 DEF Drained, Owned, Spent, Answering
  <2> QED
    BY <2>2, <2>3
<1>2. CASE TimerR_timer \/ OwnerWatches
  <2>1. phase = "queues" /\ UNCHANGED <<phase, proxy, timer>>
    BY <1>2 DEF TimerR_timer, Delivers, OwnerWatches
  <2>2. CASE \E t \in Timers, r \in Request : PTimer_watch(t, r, outq)
    <3>1. PICK t \in Timers, r \in Request : PTimer_watch(t, r, outq)
      BY <2>2
    <3> DEFINE m == [kind |-> "watch", t |-> t, req |-> r]
    <3>2. /\ t \in proxy /\ outq' = Append(outq, m) /\ m \in Messages /\ m.kind = "watch"
          /\ want' \subseteq want \cup {t}
      BY <3>1, Watches
    <3> HIDE DEF m
    <3>3. Range(outq') = Range(outq) \cup {m}
      BY <1>0, <3>2, AppendFacts
    <3>4. \A u : Fired(u, outq') <=> Fired(u, outq)
      BY <3>2, <3>3 DEF Fired
    <3> QED
      BY <2>1, <3>2, <3>4 DEF Drained, Owned, Spent, Answering
  <2>3. CASE want' \subseteq want /\ outq' = outq
    BY <2>1, <2>3 DEF Drained, Owned, Spent, Answering
  <2>4. CASE OwnerWatches
    BY <2>2, <2>4 DEF OwnerWatches
  <2>5. CASE TimerR_timer
    <3>1. Head(inq).t \in Timers
      BY <1>0, <2>5, TailFacts, Kinds DEF TimerR_timer, Delivers
    <3> QED
      BY <2>2, <2>3, <2>5, <3>1 DEF TimerR_timer
  <2> QED
    BY <1>2, <2>4, <2>5
<1>3. CASE SwapQueues
  <2>1. /\ phase = "queues" /\ phase' = "sweep" /\ inq' = outq /\ outq' = <<>>
        /\ UNCHANGED <<timer, proxy, want>>
    BY <1>3 DEF SwapQueues, ownerVars
  <2>2. \A t : ~Fired(t, <<>>)
    BY DEF Fired, Range
  <2> QED
    BY <2>1, <2>2 DEF Drained, Owned, Spent, Answering
<1>4. CASE Timer_destroy
  <2>1. /\ phase = "sweep" /\ phase' \in {"host", "idle"}
        /\ UNCHANGED <<inq, outq, proxy, want>>
        /\ \A t \in Timers : /\ timer'[t].live <=> timer[t].live /\ ~timer[t].unused
                             /\ ~timer'[t].unused
    BY <1>4, SweepFacts
  <2>2. outq = <<>> /\ \A t : ~Fired(t, <<>>)
    BY <2>1 DEF Drained, Fired, Range
  <2> QED
    BY <2>1, <2>2 DEF Drained, Owned, Spent, Answering
<1>5. CASE OwnerDropsProxy
  <2>1. PICK t \in Timers : Dropping(t)
    BY <1>5, DropFacts
  <2> QED
    BY <1>0, <2>1 DEF Dropping, Drained, Owned, Spent, Answering
<1>6. CASE UNCHANGED <<inq, outq, timer, phase, proxy, want>>
  BY <1>6 DEF Drained, Owned, Spent, Answering
<1>7. CASE PollReturns
  <2>1. PICK firing \in SUBSET Timers : Fire(firing)
    BY <1>7 DEF PollReturns
  <2>2. /\ phase = "poll" /\ phase' = "queues" /\ UNCHANGED <<inq, proxy, want>>
    BY <1>7 DEF PollReturns, Polled, ownerVars
  <2> DEFINE q == Answers(firing)
  <2>3. /\ \A t \in Timers :
            /\ timer'[t].live = timer[t].live
            /\ timer'[t].unused = (timer[t].unused \/ (timer[t].live /\ t \in firing))
            /\ timer[t].live /\ t \in firing => Fired(t, q)
        /\ \A i \in DOMAIN q : timer[q[i].t].live /\ q[i].t \in firing
        /\ q \in Seq(Messages) /\ outq' = outq \o q
    BY <2>1, FireFacts
  <2> HIDE DEF q
  <2>4. outq = <<>> /\ \A t \in Timers : ~timer[t].unused
    BY <2>2 DEF Drained, Spent
  <2>5. outq' = q
    BY <2>3, <2>4, ConcatEmptySeq
  <2>6. \A t \in Timers : Fired(t, q) => timer[t].live /\ t \in firing
    BY <2>3 DEF Fired, Range
  <2> QED
    BY <2>2, <2>3, <2>4, <2>5, <2>6 DEF Drained, Owned, Spent, Answering
<1>8. CASE LoopMoves
  <2>1. /\ phase \notin {"queues", "sweep"} /\ phase' # "sweep"
        /\ UNCHANGED <<inq, outq, timer, proxy, want>>
    BY <1>8 DEF LoopMoves, ownerVars
  <2>2. outq = <<>> /\ (\A t : ~Fired(t, <<>>)) /\ \A t \in Timers : ~timer[t].unused
    BY <2>1 DEF Drained, Fired, Range, Spent
  <2> QED
    BY <2>1, <2>2 DEF Drained, Owned, Spent, Answering
<1> QED
  BY <1>1, <1>2, <1>3, <1>4, <1>5, <1>6, <1>7, <1>8, Moves DEF Tick, FdReady, ownerVars

-----------------------------------------------------------------------------
(* The steps: messages *)

Post == Single(Mail) /\ Latest(Mail, last) /\ NotForgotten

\* What NotForgotten says of one owner.
Pending(t) ==
    \/ \E m \in Range(Mail) : m.t = t
    \/ /\ timer[t].live /\ ~timer[t].unused
       /\ timer[t].cmd = last[t].cmd /\ timer[t].fd = last[t].fd

LEMMA NotForgottenFacts ==
    ASSUME TypeOK
    PROVE  NotForgotten <=> \A t \in want : Pending(t)
<1>1. Range(Mail) = Queued /\ \A m \in Queued : m.kind \in {"watch", "fired"}
  <2>1. Range(Mail) = Queued
    BY MailTypes DEF Queued
  <2>2. Queued \subseteq Messages
    BY MailTypes, RangeOfSeq, <2>1
  <2> QED
    BY <2>1, <2>2, Kinds
<1>2. \A t : (\E m \in Range(Mail) : m.t = t) <=> Asked(t) \/ Answered(t)
  BY <1>1 DEF Asked, Answered
<1> QED
  BY <1>2 DEF NotForgotten, Pending

LEMMA PostStep ==
    ASSUME TypeOK, TypeOK', ListComplete, Flow, Post, Next
    PROVE  Post'
<1>0. /\ inq \in Seq(Messages) /\ outq \in Seq(Messages) /\ Mail \in Seq(Messages)
      /\ Range(Mail) = Range(inq) \cup Range(outq)
      /\ proxy \subseteq Timers /\ want \subseteq Timers /\ last \in [Timers -> Request]
  BY MailTypes DEF TypeOK
<1>a. Single(Mail) /\ Latest(Mail, last) /\ \A t \in want : Pending(t)
  BY NotForgottenFacts DEF Post
<1>b. ASSUME TypeOK' PROVE (\A t \in want' : Pending(t)') => NotForgotten'
  <2>1. Range(Mail)' = Queued' /\ \A m \in Queued' : m.kind \in {"watch", "fired"}
    <3>1. inq' \in Seq(Messages) /\ outq' \in Seq(Messages)
      BY <1>b DEF TypeOK
    <3>2. Range(Mail)' = Queued'
      BY <3>1, ConcatFacts DEF Mail, Queued
    <3>3. Queued' \subseteq Messages
      BY <3>1, RangeOfSeq DEF Queued
    <3> QED
      BY <3>2, <3>3, Kinds
  <2> QED
    BY <2>1 DEF Pending, NotForgotten, Asked, Answered
<1> SUFFICES Single(Mail)' /\ Latest(Mail, last)' /\ \A t \in want' : Pending(t)'
  BY <1>b DEF Post
<1>1. CASE Timer_Timer_watch
  <2>0. PICK h : h = Head(inq)
    OBVIOUS
  <2>1. /\ inq # <<>> /\ inq' = Tail(inq) /\ h.kind = "watch"
        /\ UNCHANGED <<outq, phase, proxy, last, want>> /\ phase = "queues"
    BY <1>1, <2>0 DEF Timer_Timer_watch, Delivers, ownerVars
  <2>2. /\ h \in Messages /\ Mail # <<>> /\ Head(Mail) = h
        /\ Mail' = Tail(Mail)
    BY <2>0, <2>1, <1>0, Delivered, TailFacts
  <2>3. h.t \in Timers
    BY <2>2, Kinds
  <2>4. Single(Mail') /\ Latest(Mail', last)
    BY <1>0, <1>a, <2>2, SingleTail, LatestTail
  <2>5. Range(Mail) = {h} \cup Range(Mail')
    BY <1>0, <2>2, TailFacts
  <2>6. h.req = last[h.t] \/ \E m \in Range(Mail') : m.t = h.t
    BY <1>0, <1>a, <2>1, <2>2, LatestTail
  <2>7. ASSUME NEW u \in want, u # h.t PROVE Pending(u)'
    <3>1. timer'[u] = timer[u]
      <4>1. CASE h.t \in proxy
        BY <1>0, <1>1, <2>0, <2>3, <2>7, <4>1, Takes, TakeFacts
      <4>2. CASE h.t \notin proxy
        BY <1>1, <2>0, <4>2 DEF Timer_Timer_watch
      <4> QED
        BY <4>1, <4>2
    <3> QED
      BY <1>a, <2>1, <2>5, <2>7, <3>1 DEF Pending
  <2>8. ASSUME h.t \in want PROVE Pending(h.t)'
    <3>1. h.t \in proxy
      BY <2>8 DEF Flow, Owned
    <3>2. /\ timer'[h.t].live /\ timer'[h.t].unused = timer[h.t].unused
          /\ timer'[h.t].cmd = h.req.cmd /\ timer'[h.t].fd = h.req.fd
      BY <1>1, <2>0, <2>3, <3>1, Takes, TakeFacts
    <3>3. CASE timer[h.t].unused
      <4>1. Fired(h.t, outq)
        BY <2>1, <2>3, <3>3 DEF Flow, Spent
      <4>2. PICK m \in Range(outq) : m.kind = "fired" /\ m.t = h.t
        BY <4>1 DEF Fired
      <4>3. m \in Range(Mail')
        BY <1>0, <2>1, <2>5, <4>2
      <4> QED
        BY <4>2, <4>3 DEF Pending
    <3>4. CASE ~timer[h.t].unused /\ h.req = last[h.t]
      BY <2>1, <3>2, <3>4 DEF Pending
    <3>5. CASE \E m \in Range(Mail') : m.t = h.t
      BY <3>5 DEF Pending
    <3> QED
      BY <2>6, <3>3, <3>4, <3>5
  <2> QED
    BY <2>1, <2>4, <2>7, <2>8
<1>2. CASE TimerR_timer
  <2>0. PICK h : h = Head(inq)
    OBVIOUS
  <2>1. /\ inq # <<>> /\ inq' = Tail(inq) /\ h.kind = "fired" /\ timer' = timer
        /\ \/ \E r \in Request : PTimer_watch(h.t, r, outq)
           \/ want' = want \ {h.t} /\ UNCHANGED <<outq, last, count>>
    BY <1>2, <2>0 DEF TimerR_timer, Delivers
  <2>2. h \in Messages /\ h.t \in Timers
    BY <1>0, <2>0, <2>1, TailFacts, Kinds
  <2>3. CASE want' = want \ {h.t} /\ UNCHANGED <<outq, last>>
    <3>1. Mail # <<>> /\ Head(Mail) = h /\ Mail' = Tail(Mail)
      BY <1>0, <2>0, <2>1, <2>2, <2>3, Delivered
    <3>2. Single(Mail') /\ Latest(Mail', last)
      BY <1>0, <1>a, <3>1, SingleTail, LatestTail
    <3>3. Range(Mail) = {h} \cup Range(Mail')
      BY <1>0, <3>1, TailFacts
    <3>4. \A u \in want' : Pending(u)'
      BY <1>a, <2>1, <2>3, <3>3 DEF Pending
    <3> QED
      BY <2>3, <3>2, <3>4
  <2>4. CASE \E r \in Request : PTimer_watch(h.t, r, outq)
    <3>1. PICK r \in Request : PTimer_watch(h.t, r, outq)
      BY <2>4
    <3> DEFINE m == [kind |-> "watch", t |-> h.t, req |-> r]
    <3>2. /\ outq' = Append(outq, m) /\ m \in Messages /\ m.kind = "watch" /\ m.t = h.t
          /\ last' = [last EXCEPT ![h.t] = r] /\ want' \subseteq want \cup {h.t}
      BY <2>2, <3>1, Watches
    <3> HIDE DEF m
    <3>3. /\ Mail # <<>> /\ Head(Mail) = h /\ Tail(Mail) \in Seq(Messages)
          /\ Mail' = Append(Tail(Mail), m)
      BY <2>0, <2>1, <3>2, Delivered
    <3>4. Single(Tail(Mail)) /\ Latest(Tail(Mail), last)
      BY <1>0, <1>a, <3>3, SingleTail, LatestTail
    <3>5. Single(Mail')
      BY <3>2, <3>3, <3>4, SingleAppend
    <3>6. Latest(Mail', last')
      BY <1>0, <2>2, <3>2, <3>3, <3>4, LatestAppend DEF m
    <3>7. Range(Mail) = {h} \cup Range(Tail(Mail)) /\ Range(Mail') = Range(Tail(Mail)) \cup {m}
      <4>1. Range(Mail) = {h} \cup Range(Tail(Mail))
        BY <1>0, <3>3, TailFacts
      <4>2. \A q \in Seq(Messages) : Range(Append(q, m)) = Range(q) \cup {m}
        BY <3>2, AppendFacts
      <4> QED
        BY <3>3, <4>1, <4>2
    <3>8. ASSUME NEW u \in want, u # h.t PROVE Pending(u)'
      <4>1. last'[u] = last[u]
        BY <1>0, <3>2, <3>8
      <4> QED
        BY <1>a, <2>1, <3>7, <3>8, <4>1 DEF Pending
    <3>9. Pending(h.t)'
      BY <3>2, <3>7 DEF Pending
    <3> QED
      BY <3>2, <3>5, <3>6, <3>8, <3>9
  <2> QED
    BY <2>1, <2>3, <2>4
<1>3. CASE SwapQueues
  <2>1. inq = <<>> /\ inq' = outq /\ outq' = <<>> /\ UNCHANGED <<timer, last, want>>
    BY <1>3 DEF SwapQueues, ownerVars
  <2>2. Mail' = Mail
    BY <2>1, Swapped
  <2> QED
    BY <1>a, <2>1, <2>2 DEF Pending
<1>4. CASE Timer_destroy
  <2>1. UNCHANGED <<inq, outq, last, want>>
        /\ \A t \in Timers :
                /\ timer'[t].live <=> timer[t].live /\ ~timer[t].unused
                /\ ~timer'[t].unused
                /\ timer'[t].cmd = timer[t].cmd /\ timer'[t].fd = timer[t].fd
    BY <1>4, SweepFacts
  <2>2. Mail' = Mail
    BY <2>1 DEF Mail
  <2> QED
    BY <1>0, <1>a, <2>1, <2>2 DEF Pending
<1>5. CASE OwnerWatches
  <2>1. /\ inq' = inq /\ timer' = timer
        /\ \E t \in Timers, r \in Request : PTimer_watch(t, r, outq)
    BY <1>5 DEF OwnerWatches
  <2>2. PICK t \in Timers, r \in Request : PTimer_watch(t, r, outq)
    BY <2>1
  <2> DEFINE m == [kind |-> "watch", t |-> t, req |-> r]
  <2>3. /\ outq' = Append(outq, m) /\ m \in Messages /\ m.kind = "watch" /\ m.t = t
        /\ last' = [last EXCEPT ![t] = r] /\ want' \subseteq want \cup {t}
    BY <2>2, Watches
  <2> HIDE DEF m
  <2>4. Mail' = Append(Mail, m)
    BY <2>1, <2>3, Sent
  <2>5. Single(Mail') /\ Range(Mail') = Range(Mail) \cup {m}
    BY <1>0, <1>a, <2>3, <2>4, SingleAppend, AppendFacts
  <2>6. Latest(Mail', last')
    BY <1>0, <1>a, <2>3, <2>4, LatestAppend DEF m
  <2>7. ASSUME NEW u \in want, u # t PROVE Pending(u)'
    <3>1. last'[u] = last[u]
      BY <1>0, <2>3, <2>7
    <3> QED
      BY <1>a, <2>1, <2>5, <2>7, <3>1 DEF Pending
  <2>8. Pending(t)'
    BY <2>3, <2>5 DEF Pending
  <2> QED
    BY <2>3, <2>5, <2>6, <2>7, <2>8
<1>6. CASE OwnerDropsProxy
  <2>1. PICK t \in Timers : Dropping(t)
    BY <1>6, DropFacts
  <2>2. Mail' = Mail /\ last' = last
    BY <2>1 DEF Dropping, Mail
  <2> QED
    BY <1>0, <1>a, <2>1, <2>2 DEF Dropping, Pending
<1>7. CASE UNCHANGED <<inq, outq, timer, last, want>>
  BY <1>7, <1>a DEF Mail, Pending
<1>8. CASE PollReturns
  <2>1. PICK firing \in SUBSET Timers : Fire(firing)
    BY <1>8 DEF PollReturns
  <2>2. phase = "poll" /\ UNCHANGED <<inq, proxy, want, last>>
    BY <1>8 DEF PollReturns, Polled, ownerVars
  <2> DEFINE q == Answers(firing)
  <2>3. /\ \A t \in Timers :
            /\ timer'[t].live = timer[t].live /\ timer'[t].cmd = timer[t].cmd
            /\ timer'[t].fd = timer[t].fd
            /\ timer'[t].unused = (timer[t].unused \/ (timer[t].live /\ t \in firing))
            /\ timer[t].live /\ t \in firing => Fired(t, q)
        /\ \A i \in DOMAIN q : q[i].kind = "fired" /\ q[i].t \in Timers /\ timer[q[i].t].live
        /\ q \in Seq(Messages) /\ outq' = outq \o q /\ Single(q)
    BY <2>1, FireFacts
  <2> HIDE DEF q
  <2>4. outq = <<>>
    BY <2>2 DEF Flow, Drained
  <2>5. Mail = inq /\ Mail' = inq \o q
    BY <1>0, <2>2, <2>3, <2>4, ConcatEmptySeq DEF Mail
  <2>6. \A i \in DOMAIN q : ~Fired(q[i].t, inq)
    BY <2>2, <2>3 DEF Flow, Answering
  <2>7. Single(Mail')
    BY <1>0, <1>a, <2>3, <2>5, <2>6, SingleConcat
  <2>8. Latest(Mail', last)
    BY <1>0, <1>a, <2>3, <2>5, LatestConcat
  <2>9. Range(Mail') = Range(Mail) \cup Range(q)
    BY <1>0, <2>3, <2>5, ConcatFacts
  <2>10. ASSUME NEW u \in want PROVE Pending(u)'
    <3>1. CASE \E m \in Range(Mail) : m.t = u
      BY <2>9, <3>1 DEF Pending
    <3>2. CASE timer[u].live /\ u \in firing
      BY <1>0, <2>3, <2>9, <3>2 DEF Pending, Fired
    <3>3. CASE ~(timer[u].live /\ u \in firing)
      BY <1>0, <1>a, <2>2, <2>3, <3>1, <3>3 DEF Pending
    <3> QED
      BY <3>2, <3>3
  <2> QED
    BY <2>2, <2>7, <2>8, <2>10
<1> QED
  BY <1>1, <1>2, <1>3, <1>4, <1>5, <1>6, <1>7, <1>8, Moves DEF Tick, FdReady, LoopMoves, ownerVars

-----------------------------------------------------------------------------
(* The theorems *)

LEMMA InitInv == Init => TimerInv
<1> SUFFICES ASSUME Init PROVE TimerInv
  OBVIOUS
<1>1. TypeOK
  <2>1. TIMER_NONE \in Nat
    BY TimerAssumption DEF TIMER_NONE
  <2>2. [cmd |-> WATCH_STOP, fd |-> NoFd, timeoutms |-> TIMER_NONE] \in Request
    BY DEF Request
  <2>3. /\ timer \in [Timers -> TimerRecord] /\ last \in [Timers -> Request]
        /\ ready \in [Fds -> SUBSET Conditions]
    BY <2>1, <2>2 DEF Init, TimerRecord, WATCH_STOP
  <2> QED
    BY <2>3, TimerAssumption DEF Init, TypeOK, TimerRecord, OwnLoop
<1>2. Mail = <<>> /\ DOMAIN Mail = {} /\ Range(list) = {} /\ DOMAIN list = {}
  BY ConcatEmptySeq DEF Init, Mail, Range
<1>3. \A t \in Timers : ~timer[t].live /\ ~timer[t].unused
  BY DEF Init
<1>4. \A t : ~Fired(t, inq) /\ ~Fired(t, outq)
  BY DEF Init, Fired, Range
<1>5. ListComplete /\ Drained
  BY <1>2, <1>3 DEF Init, ListComplete, Drained
<1>6. Owned /\ Spent
  BY <1>2, <1>3, <1>4 DEF Init, Owned, Spent
<1>7. Answering
  BY <1>4 DEF Answering
<1>8. Single(Mail) /\ Latest(Mail, last)
  BY <1>2 DEF Single, Latest
<1>9. NotForgotten
  BY DEF Init, NotForgotten
<1> QED
  BY <1>1, <1>5, <1>6, <1>7, <1>8, <1>9 DEF TimerInv

LEMMA InvStep == TimerInv /\ [Next]_vars => TimerInv'
<1>1. ASSUME TimerInv, Next PROVE TimerInv'
  <2>1. TypeOK' /\ ListComplete'
    BY <1>1, TypeStep, ListStep DEF TimerInv
  <2>2. Flow'
    BY <1>1, FlowStep DEF TimerInv, Flow
  <2>3. Post'
    BY <1>1, <2>1, PostStep DEF TimerInv, Flow, Post
  <2> QED
    BY <2>1, <2>2, <2>3 DEF TimerInv, Flow, Post
<1>2. ASSUME TimerInv, UNCHANGED vars PROVE TimerInv'
  BY <1>2 DEF vars, ownerVars, TimerInv, TypeOK, ListComplete, Drained, Owned, Spent, Answering,
              Fired, Single, Latest, Mail, NotForgotten, Asked, Answered, Queued
<1> QED
  BY <1>1, <1>2

\* The inductive invariant: where the answer of each Timer that has fired is,
\* and which request through each proxy is the last.
THEOREM TimerInvariance == Spec => []TimerInv
<1> QED
  BY InitInv, InvStep, PTL DEF Spec

\* Timer_run_timer finds all Timers in the list, each once, and none that has
\* been destroyed.
THEOREM ListCorrect == Spec => []ListSound
<1>1. TimerInv => ListSound
  BY DEF TimerInv, ListSound
<1> QED
  BY <1>1, TimerInvariance, PTL

\* An owner is told once of each request.
THEOREM AnswersOnce == Spec => []OneAnswer
<1>1. TimerInv => OneAnswer
  <2> SUFFICES ASSUME TimerInv PROVE OneAnswer
    OBVIOUS
  <2>1. phase = "poll" => \A t \in Timers : ~timer[t].unused
    BY DEF TimerInv, Spent
  <2> QED
    BY <2>1 DEF TimerInv, OneAnswer, Single, Mail
<1> QED
  BY <1>1, TimerInvariance, PTL

\* Whoever waits for an answer has a request on its way, a Timer that works on
\* the last one, or an answer coming.
THEOREM NoneForgotten == Spec => []NotForgotten
<1>1. TimerInv => NotForgotten
  BY DEF TimerInv
<1> QED
  BY <1>1, TimerInvariance, PTL

\* No Timer is overdue by more milliseconds than the int of poll can count
\* down, about 25 days: only then would the time left wrap to a positive one.
NotLongOverdue == \A t \in Range(list) : now - timer[t].nextfire <= INT_MAX + 1

\* The wait of poll ends, if it is limited at all, when the first Timer is due.
THEOREM WaitsNoLonger == Spec /\ []NotLongOverdue => []NoOversleep
<1>1. Init => NoOversleep
  BY DEF Init, NoOversleep
<1>2. ASSUME TimerInv, NotLongOverdue, NoOversleep, [Next]_vars PROVE NoOversleep'
  <2>0. /\ list \in Seq(Timers) /\ Range(list) \subseteq Timers /\ now \in Nat /\ wake \in Nat
        /\ \A t \in Timers : timer[t].nextfire \in Nat
        /\ INT_MAX \in Nat /\ TIMER_MAX \in Nat
    BY <1>2, TimerAssumption, RangeOfSeq DEF TimerInv, TypeOK
  <2>1. /\ nearest \in 0 .. TIMER_MAX
        /\ \A t \in Range(list) : nearest <= timer[t].nextfire
        /\ nearest = TIMER_MAX \/ \E t \in Range(list) : timer[t].nextfire = nearest
    BY <1>2, NearestFacts DEF TimerInv
  <2>2. CASE phase' \notin {"poll", "hostpoll"}
    BY <2>2 DEF NoOversleep
  <2>3. CASE UNCHANGED <<list, timer, phase, wake>> /\ now' \in {now, now + 1}
    <3>1. wake > now' => wake > now
      BY <2>0, <2>3
    <3> QED
      BY <1>2, <2>3, <3>1 DEF NoOversleep
  <2>4. ASSUME NEW ms \in Int, PollFor(ms), ms > 0 => ms <= nearest - now,
               UNCHANGED <<list, timer, now>>
        PROVE  NoOversleep'
    <3>1. ms > 0 => \A t \in Range(list) : now + ms <= timer[t].nextfire
      BY <2>0, <2>1, <2>4
    <3>2. wake' = IF ms < 0 THEN TIMER_NONE ELSE now + ms
      BY <2>4 DEF PollFor
    <3>3. wake' # TIMER_NONE /\ wake' > now => ms > 0 /\ wake' = now + ms
      BY <2>0, <2>4, <3>2
    <3> QED
      BY <2>4, <3>1, <3>3 DEF NoOversleep
  <2>5. CASE StartPoll
    <3> DEFINE toWait == IF OwnLoop \/ inq # <<>> \/ outq # <<>> THEN 0 ELSE -1
               ms == IF toWait # 0 /\ nearest < TIMER_MAX THEN ToInt(nearest - now) ELSE toWait
    <3>1. PollFor(ms) /\ UNCHANGED <<list, timer, now>>
      BY <2>5 DEF StartPoll
    <3>2. nearest < TIMER_MAX => nearest - now >= -(INT_MAX + 1)
      BY <1>2, <2>0, <2>1 DEF NotLongOverdue
    <3>3. nearest - now \in Int
      BY <2>0, <2>1
    <3>4. nearest < TIMER_MAX /\ ToInt(nearest - now) > 0 => ToInt(nearest - now) <= nearest - now
      BY <3>2, <3>3, ToIntFacts
    <3>5. ToInt(nearest - now) \in Int
      BY <3>3, ToIntFacts
    <3>6. ms \in Int /\ (ms > 0 => ms <= nearest - now)
      BY <3>4, <3>5
    <3> HIDE DEF ms
    <3> QED
      BY <2>4, <3>1, <3>6
  <2>6. CASE Timer_watch_list_for_poll
    <3> DEFINE ms == IF inq # <<>> \/ outq # <<>> THEN 0
                     ELSE IF now < nearest THEN ToInt(nearest - now) ELSE -1
    <3>1. PollFor(ms) /\ UNCHANGED <<list, timer, now>>
      BY <2>6 DEF Timer_watch_list_for_poll
    <3>2. nearest - now \in Int /\ (now < nearest => nearest - now >= 0)
      BY <2>0, <2>1
    <3>3. ms \in Int /\ (ms > 0 => ms <= nearest - now)
      BY <3>2, ToIntFacts
    <3> HIDE DEF ms
    <3> QED
      BY <2>4, <3>1, <3>3
  <2>7. CASE UNCHANGED vars
    BY <2>3, <2>7 DEF vars
  <2>8. CASE Timer_Timer_watch \/ TimerR_timer \/ OwnerWatches \/ OwnerDropsProxy
    <3>1. phase' = "queues"
      BY <2>8 DEF Timer_Timer_watch, TimerR_timer, OwnerWatches, OwnerDropsProxy, Delivers
    <3> QED
      BY <2>2, <3>1
  <2>9. CASE Tick \/ FdReady
    BY <2>3, <2>9 DEF Tick, FdReady
  <2>10. CASE \/ SwapQueues \/ Timer_destroy \/ PollReady \/ PollTimesOut \/ PollInterrupted
              \/ NoTimers \/ HostPolled \/ HostUnwatched
    <3>1. phase' \notin {"poll", "hostpoll"}
      BY <2>10 DEF SwapQueues, Timer_destroy, PollReady, PollTimesOut, PollInterrupted, Polled,
                   NoTimers, HostPolled, HostUnwatched
    <3> QED
      BY <2>2, <3>1
  <2> QED
    BY <1>2, <2>5, <2>6, <2>7, <2>8, <2>9, <2>10 DEF Next, LoopStep
<1> QED
  BY <1>1, <1>2, TimerInvariance, PTL DEF Spec
=============================================================================
