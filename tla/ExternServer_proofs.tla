------------------------- MODULE ExternServer_proofs -------------------------
(***************************************************************************)
(* What ExternServer keeps true, for any clients and any number of         *)
(* sockets: it keeps account of its connections, it never stops watching   *)
(* its socket unasked, the path of a socket goes with the server, and the  *)
(* server ends only when something has asked it to.                        *)
(***************************************************************************)
EXTENDS ExternServer, SeqLemmas

-----------------------------------------------------------------------------
(* The inductive invariant *)

Mail == Range(inq) \cup Range(outq)

\* There is no state without an object, and no object without a proxy to it.
Absent == (srv.alive => owned) /\ (~srv.alive => srv = NoServer)

\* The clients that wait are those that have connected, in some order.
Waiting ==
    /\ IsInjective(backlog)
    /\ Range(backlog) = {c \in Client : conn[c] = "backlog"}

\* A socket on its way to the server is one that the owner has opened.
Numbered == \A m \in Mail : m.dest = "server" /\ m.kind = "open" => m.arg[1] \in 1 .. opens

\* Every path is registered; no socket is used twice for one.
Registered == bound \subseteq pathvec

\* The server is marked unused only if something has asked it to end, and a
\* close on its way is the owner's.
Asked ==
    /\ srv.unused => causes # {}
    /\ \A m \in Mail : m.dest = "server" /\ m.kind = "close" => causes # {}

ServerInv ==
    /\ TypeOK /\ Absent /\ Waiting /\ Tracked /\ Numbered /\ Registered /\ Asked
    /\ NotDeaf /\ PathRemoved

-----------------------------------------------------------------------------
(* Messages *)

ServerRecord ==
    [alive : BOOLEAN, fd : Nat, cwe : BOOLEAN, unused : BOOLEAN,
     reply : {Owner} \cup Client, pconn : Seq(Client), timer : {"none", "watching", "fired"}]

\* What a message can be.
LEMMA Kinds ==
    ASSUME NEW m \in Message
    PROVE  /\ m.dest = "server" /\ m.kind = "open" => m.arg \in Nat \X BOOLEAN
           /\ m.kind = "connected" => m.arg \in Client
           /\ m.dest = "server" => m.kind \in {"open", "close", "timer", "connected"}
           /\ m.dest = "timer" => m.kind = "watch"
           /\ m.dest \in Client \cup {Owner} => m.kind \in {"open", "connected"}
<1>1. CASE m \in [dest : {"server"}, kind : {"open"}, arg : Nat \X BOOLEAN]
  BY <1>1, ServerAssumption
<1>2. CASE m \in [dest : {"server"}, kind : {"close", "timer"}, arg : {Owner}]
  BY <1>2, ServerAssumption DEF Owner
<1>3. CASE m \in [dest : {"server"}, kind : {"connected"}, arg : Client]
  BY <1>3, ServerAssumption
<1>4. CASE m \in [dest : {"timer"}, kind : {"watch"}, arg : {Owner}]
  BY <1>4, ServerAssumption DEF Owner
<1>5. CASE m \in [dest : Client, kind : {"open"}, arg : {Owner}]
  BY <1>5, ServerAssumption
<1>6. CASE m \in [dest : {Owner} \cup Client, kind : {"connected"}, arg : Client]
  BY <1>6, ServerAssumption DEF Owner
<1> QED
  BY <1>1, <1>2, <1>3, <1>4, <1>5, <1>6 DEF Message

\* A message that is taken from the queue.
LEMMA Taken ==
    ASSUME TypeOK, inq # <<>>, inq' = Tail(inq)
    PROVE  /\ Head(inq) \in Message /\ inq' \in Seq(Message)
           /\ Range(inq) = {Head(inq)} \cup Range(inq')
<1>1. inq \in Seq(Message)
  BY DEF TypeOK
<1> HIDE DEF Message
<1> QED
  BY <1>1, TailFacts

\* A message that is put into the queue.
LEMMA Posted ==
    ASSUME TypeOK, NEW m \in Message, Post(m)
    PROVE  outq' \in Seq(Message) /\ Range(outq') = Range(outq) \cup {m}
<1>1. outq \in Seq(Message) /\ outq' = Append(outq, m)
  BY DEF TypeOK, Post
<1> QED
  BY <1>1, AppendFacts

-----------------------------------------------------------------------------
(* Accepting *)

\* The object that the first message makes.
LEMMA CreatedFacts ==
    ASSUME TypeOK, Absent, NEW m \in Message
    PROVE  /\ Created(m) \in ServerRecord /\ Created(m).alive
           /\ Created(m).pconn = srv.pconn /\ Created(m).unused = srv.unused
           /\ Created(m).fd = srv.fd /\ Created(m).timer = srv.timer
           /\ Created(m).cwe = srv.cwe
<1>1. CASE srv.alive
  BY <1>1 DEF Created, TypeOK, ServerRecord
<1>2. CASE ~srv.alive
  <2>1. srv = NoServer
    BY <1>2 DEF Absent
  <2>2. <<>> \in Seq(Client) /\ NoFd \in Nat
    BY DEF NoFd
  <2>3. Created(m) = [NoServer EXCEPT !.alive = TRUE,
                          !.reply = IF m.kind = "connected" THEN m.arg ELSE Owner]
    BY <1>2 DEF Created
  <2>4. (IF m.kind = "connected" THEN m.arg ELSE Owner) \in {Owner} \cup Client
    BY Kinds
  <2> QED
    BY <2>1, <2>2, <2>3, <2>4 DEF NoServer, ServerRecord
<1> QED
  BY <1>1, <1>2

\* What an accept of the clients that wait does.
LEMMA AcceptFacts ==
    ASSUME TypeOK, Waiting, Tracked, NEW s \in ServerRecord, s.pconn = srv.pconn, Accept(s)
    PROVE  /\ srv' \in ServerRecord
           /\ srv'.alive = s.alive /\ srv'.fd = s.fd /\ srv'.cwe = s.cwe
           /\ srv'.timer = s.timer /\ srv'.reply = s.reply
           /\ srv'.unused => s.unused \/ causes' # {}
           /\ backlog' \in Seq(Client) /\ conn' \in [Client -> States]
           /\ Waiting' /\ Tracked'
           /\ outq' \in Seq(Message) /\ Range(outq) \subseteq Range(outq')
           /\ \A m \in Range(outq') \ Range(outq) : m.dest # "server"
           /\ srv'.unused \/ \E m \in Range(outq') : m.dest = "timer" /\ m.kind = "watch"
           /\ causes \subseteq causes' /\ causes' \subseteq {"close", "accept", "drop"}
<1> DEFINE New(k) == SubSeq(backlog, 1, k)
           Left(k) == SubSeq(backlog, k + 1, Len(backlog))
           Asks(k) == [i \in DOMAIN New(k) |-> Msg(New(k)[i], "open", Owner)]
<1>1. PICK k \in 0 .. Len(backlog), fails \in BOOLEAN :
        /\ backlog' = Left(k)
        /\ conn' = [c \in Client |-> IF c \in Range(New(k)) THEN "asked" ELSE conn[c]]
        /\ srv' = [s EXCEPT !.pconn = s.pconn \o New(k), !.unused = s.unused \/ fails]
        /\ outq' = outq \o Asks(k) \o WaitNext(New(k), fails)
        /\ causes' = IF fails THEN causes \cup {"accept"} ELSE causes
  BY DEF Accept
<1> DEFINE new == New(k)
           left == Left(k)
           asks == Asks(k)
           wait == WaitNext(new, fails)
<1>2. /\ new \in Seq(Client) /\ left \in Seq(Client)
      /\ Range(backlog) = Range(new) \cup Range(left)
      /\ IsInjective(new) /\ IsInjective(left) /\ Range(new) \cap Range(left) = {}
  <2>1. backlog \in Seq(Client) /\ IsInjective(backlog)
    BY DEF TypeOK, Waiting
  <2> QED
    BY <2>1, SplitFacts
<1>3. asks \in Seq(Message) /\ \A m \in Range(asks) : m.dest \in Client
  <2> HIDE DEF New
  <2>1. Len(new) \in Nat /\ DOMAIN new = 1 .. Len(new) /\ \A i \in DOMAIN new : new[i] \in Client
    BY <1>2
  <2>2. \A i \in DOMAIN new : asks[i] \in Message /\ asks[i].dest \in Client
    BY <2>1 DEF Msg, Message
  <2>3. DOMAIN asks = 1 .. Len(new)
    BY <2>1
  <2>4. asks \in [1 .. Len(new) -> Message]
    BY <2>1, <2>2
  <2> HIDE DEF Asks
  <2>5. asks \in Seq(Message)
    BY <2>1, <2>4
  <2> QED
    BY <2>1, <2>2, <2>3, <2>5 DEF Range
<1> HIDE DEF New, Left, Asks
<1>4. /\ wait \in Seq(Message) /\ \A m \in Range(wait) : m.dest = "timer"
      /\ fails \/ \E m \in Range(wait) : m.dest = "timer" /\ m.kind = "watch"
  <2> DEFINE w == Msg("timer", "watch", Owner)
  <2>1. w \in Message /\ w.dest = "timer" /\ w.kind = "watch"
    BY DEF Msg, Message
  <2> HIDE DEF w
  <2>2. <<w>> \in Seq(Message) /\ Range(<<w>>) = {w} /\ <<>> \in Seq(Message) /\ Range(<<>>) = {}
    BY <2>1 DEF Range
  <2>3. wait = IF fails THEN <<>> ELSE <<w>>
    BY DEF WaitNext, w
  <2> QED
    BY <2>1, <2>2, <2>3
<1> HIDE DEF wait
<1>5. outq' \in Seq(Message) /\ Range(outq') = Range(outq) \cup Range(asks) \cup Range(wait)
  <2>1. outq \in Seq(Message)
    BY DEF TypeOK
  <2> DEFINE all == outq \o asks
  <2>2. all \in Seq(Message) /\ Range(all) = Range(outq) \cup Range(asks)
    BY <1>3, <2>1, ConcatFacts
  <2> HIDE DEF all
  <2>3. all \o wait \in Seq(Message) /\ Range(all \o wait) = Range(all) \cup Range(wait)
    BY <1>4, <2>2, ConcatFacts
  <2> QED
    BY <1>1, <2>2, <2>3 DEF wait, all
<1>6. \A c \in Range(new) : c \in Client /\ conn[c] = "backlog"
  BY <1>2 DEF Waiting
<1>7. conn' \in [Client -> States]
  BY <1>1 DEF TypeOK, States
<1>8. Waiting'
  <2>1. \A c \in Client : conn'[c] = "backlog" <=> c \in Range(left)
    BY <1>1, <1>2 DEF Waiting
  <2>2. Range(left) \subseteq Client
    BY <1>2 DEF Waiting
  <2> QED
    BY <1>1, <1>2, <2>1, <2>2 DEF Waiting
<1>9. s.pconn \o new \in Seq(Client) /\ srv' \in ServerRecord /\ srv'.pconn = s.pconn \o new
  <2>1. s.pconn \in Seq(Client) /\ s.pconn \o new \in Seq(Client)
    BY <1>2 DEF ServerRecord
  <2> QED
    BY <1>1, <2>1 DEF ServerRecord
<1>10. Tracked'
  <2>1. Range(s.pconn) \cap Range(new) = {} /\ IsInjective(s.pconn) /\ s.pconn \in Seq(Client)
    BY <1>6 DEF Tracked, ServerRecord
  <2>2. IsInjective(s.pconn \o new) /\ Range(s.pconn \o new) = Range(s.pconn) \cup Range(new)
    BY <1>2, <2>1, ConcatFacts
  <2>3. \A c \in Client : conn'[c] \in {"asked", "open", "told", "closing"}
                            <=> c \in Range(s.pconn) \cup Range(new)
    BY <1>1, <1>6 DEF Tracked
  <2>4. Range(s.pconn) \cup Range(new) \subseteq Client
    BY <1>6 DEF Tracked
  <2> QED
    BY <1>9, <2>2, <2>3, <2>4 DEF Tracked
<1>11. /\ srv'.alive = s.alive /\ srv'.fd = s.fd /\ srv'.cwe = s.cwe
       /\ srv'.timer = s.timer /\ srv'.reply = s.reply /\ srv'.unused = (s.unused \/ fails)
  BY <1>1 DEF ServerRecord
<1>12. /\ causes \subseteq causes' /\ causes' \subseteq {"close", "accept", "drop"}
       /\ fails => causes' # {}
  BY <1>1 DEF TypeOK
<1>13. \A m \in Range(outq') \ Range(outq) : m.dest # "server"
  BY <1>3, <1>4, <1>5, ServerAssumption
<1> QED
  BY <1>1, <1>2, <1>4, <1>5, <1>7, <1>8, <1>9, <1>10, <1>11, <1>12, <1>13

-----------------------------------------------------------------------------
(* The end of the server, and of its connections *)

\* The server goes with its connections and the path of its socket.
LEMMA DestroyFacts ==
    ASSUME TypeOK, Tracked, Registered, PathRemoved, Waiting,
           UNCHANGED <<aborted, opened, opens>>, backlog' = backlog, ExternServer_destroy
    PROVE  /\ srv' = NoServer /\ srv' \in ServerRecord /\ ~srv'.alive /\ ~srv'.unused
           /\ conn' \in [Client -> States] /\ Waiting' /\ Tracked'
           /\ bound' \subseteq 1 .. opens' /\ pathvec' \subseteq 1 .. opens'
           /\ Registered' /\ PathRemoved'
<1>1. /\ srv' = NoServer /\ conn' = Cut(conn)
      /\ bound' = bound \ (pathvec \cap {srv.fd}) /\ pathvec' = pathvec \ {srv.fd}
  BY DEF ExternServer_destroy, ExternServer_register_local_name
<1>2. <<>> \in Seq(Client) /\ IsInjective(<<>>) /\ Range(<<>>) = {}
  BY DEF IsInjective, Range
<1>3. /\ srv' \in ServerRecord /\ ~srv'.alive /\ ~srv'.unused /\ srv'.pconn = <<>>
  BY <1>1, <1>2 DEF NoServer, ServerRecord, NoFd
<1>4. conn' = [k \in Client |->
        IF k \notin Range(srv.pconn) THEN conn[k]
        ELSE IF conn[k] = "asked" THEN "leaked" ELSE "closed"]
  BY <1>1 DEF Cut
<1>5. conn' \in [Client -> States]
  BY <1>4 DEF TypeOK, States
<1>6. \A c \in Client : /\ conn'[c] \notin {"asked", "open", "told", "closing"}
                        /\ conn'[c] = "backlog" <=> conn[c] = "backlog"
  BY <1>4 DEF Tracked
<1>7. Tracked' /\ Waiting'
  BY <1>2, <1>3, <1>6 DEF Tracked, Waiting
<1>8. Registered' /\ bound' \subseteq 1 .. opens' /\ pathvec' \subseteq 1 .. opens'
  BY <1>1 DEF Registered, TypeOK
<1>9. PathRemoved'
  BY <1>1 DEF PathRemoved, Registered
<1> QED
  BY <1>1, <1>3, <1>5, <1>7, <1>8, <1>9

\* What is left of the server when the Timer that has fired and the connections
\* that have ended are destroyed.
LEMMA SweptFacts ==
    ASSUME TypeOK, Absent, Tracked
    PROVE  /\ Swept \in ServerRecord
           /\ Swept.alive = srv.alive /\ Swept.fd = srv.fd /\ Swept.cwe = srv.cwe
           /\ Swept.reply = srv.reply
           /\ Swept.timer \in {srv.timer, "none"} /\ (srv.timer # "fired" => Swept.timer = srv.timer)
           /\ Swept.unused => srv.unused \/ srv.cwe
           /\ srv.unused => Swept.unused
           /\ IsInjective(Swept.pconn)
           /\ ~Swept.unused => Range(Swept.pconn) = Range(srv.pconn) \ Closing
           /\ ~srv.alive => Swept = srv
<1> DEFINE destroyed(s, gone) == ExternServer_object_destroyed(s, gone)
<1>1. ASSUME NEW s \in ServerRecord, NEW gone, IsInjective(s.pconn)
      PROVE  /\ destroyed(s, gone) \in ServerRecord
             /\ destroyed(s, gone).alive = s.alive /\ destroyed(s, gone).fd = s.fd
             /\ destroyed(s, gone).cwe = s.cwe /\ destroyed(s, gone).reply = s.reply
             /\ destroyed(s, gone).timer = s.timer
             /\ destroyed(s, gone).unused => s.unused \/ s.cwe
             /\ s.unused => destroyed(s, gone).unused
             /\ IsInjective(destroyed(s, gone).pconn)
             /\ Range(destroyed(s, gone).pconn) = Range(s.pconn) \ gone
  <2> DEFINE left == Filter(s.pconn, Client \ gone)
  <2>1. s.pconn \in Seq(Client) /\ s.unused \in BOOLEAN
    BY DEF ServerRecord
  <2>2. left \in Seq(Client) /\ Range(left) = Range(s.pconn) \cap (Client \ gone) /\ IsInjective(left)
    BY <1>1, <2>1, FilterFacts
  <2>3. Range(s.pconn) \subseteq Client
    BY <2>1, RangeOfSeq
  <2>4. destroyed(s, gone) = [s EXCEPT !.pconn = left,
                                       !.unused = s.unused \/ (left = <<>> /\ s.cwe)]
    BY DEF ExternServer_object_destroyed
  <2> HIDE DEF left, destroyed
  <2>5. (s.unused \/ (left = <<>> /\ s.cwe)) \in BOOLEAN
    OBVIOUS
  <2> QED
    BY <2>1, <2>2, <2>3, <2>4, <2>5 DEF ServerRecord
<1> DEFINE fired == srv.alive /\ srv.timer = "fired"
           s1 == IF fired THEN destroyed([srv EXCEPT !.timer = "none"], {}) ELSE srv
<1>2. Swept = IF s1.alive /\ ~s1.unused /\ Closing # {} THEN destroyed(s1, Closing) ELSE s1
  BY DEF Swept
<1> HIDE DEF destroyed
<1>3. srv \in ServerRecord /\ IsInjective(srv.pconn)
  BY DEF TypeOK, ServerRecord, Tracked
<1>4. /\ s1 \in ServerRecord
      /\ s1.alive = srv.alive /\ s1.fd = srv.fd /\ s1.cwe = srv.cwe /\ s1.reply = srv.reply
      /\ s1.timer \in {srv.timer, "none"} /\ (srv.timer # "fired" => s1.timer = srv.timer)
      /\ s1.unused => srv.unused \/ srv.cwe
      /\ srv.unused => s1.unused
      /\ IsInjective(s1.pconn) /\ Range(s1.pconn) = Range(srv.pconn)
      /\ ~srv.alive => s1 = srv
  <2> DEFINE s0 == [srv EXCEPT !.timer = "none"]
  <2>1. /\ s0 \in ServerRecord /\ s0.alive = srv.alive /\ s0.fd = srv.fd /\ s0.cwe = srv.cwe
        /\ s0.reply = srv.reply /\ s0.timer = "none" /\ s0.unused = srv.unused
        /\ s0.pconn = srv.pconn /\ IsInjective(s0.pconn)
    BY <1>3 DEF ServerRecord
  <2> HIDE DEF s0
  <2>2. CASE fired
    <3> DEFINE d == destroyed(s0, {})
    <3>1. s1 = d
      BY <2>2 DEF s0
    <3>2. /\ d \in ServerRecord
          /\ d.alive = s0.alive /\ d.fd = s0.fd /\ d.cwe = s0.cwe /\ d.reply = s0.reply
          /\ d.timer = s0.timer /\ (d.unused => s0.unused \/ s0.cwe) /\ (s0.unused => d.unused)
          /\ IsInjective(d.pconn) /\ Range(d.pconn) = Range(s0.pconn) \ {}
      BY <1>1, <2>1, Zenon
    <3> HIDE DEF d, s1
    <3>3. srv.timer = "fired" /\ srv.alive
      BY <2>2
    <3> QED
      BY <2>1, <3>1, <3>2, <3>3
  <2>3. CASE ~fired
    BY <1>3, <2>3
  <2> QED
    BY <2>2, <2>3
<1> HIDE DEF s1
<1>5. ~srv.alive => srv.pconn = <<>> /\ Closing = {}
  BY DEF Absent, NoServer, Tracked, Closing, Range
<1>6. CASE s1.alive /\ ~s1.unused /\ Closing # {}
  <2> DEFINE d == destroyed(s1, Closing)
  <2>1. Swept = d
    BY <1>2, <1>6
  <2>2. /\ d \in ServerRecord
        /\ d.alive = s1.alive /\ d.fd = s1.fd /\ d.cwe = s1.cwe /\ d.reply = s1.reply
        /\ d.timer = s1.timer /\ (d.unused => s1.unused \/ s1.cwe) /\ (s1.unused => d.unused)
        /\ IsInjective(d.pconn) /\ Range(d.pconn) = Range(s1.pconn) \ Closing
    BY <1>1, <1>4, Zenon
  <2> HIDE DEF d
  <2>3. srv.alive
    BY <1>4, <1>6
  <2> QED
    BY <1>4, <2>1, <2>2, <2>3
<1>7. CASE ~(s1.alive /\ ~s1.unused /\ Closing # {})
  BY <1>2, <1>4, <1>5, <1>7
<1> QED
  BY <1>6, <1>7

\* The process ends because nobody handles that accept has failed.
LEMMA UnhandledFacts ==
    ASSUME ServerInv, ErrorUnhandled
    PROVE  ServerInv' /\ causes' # {}
<1> USE DEF ServerInv
<1> DEFINE opening == Head(inq).kind = "open"
           fd == IF opening THEN Head(inq).arg[1] ELSE srv.fd
<1>1. /\ inq # <<>> /\ Head(inq).dest = "server"
      /\ opening <=> srv.fd = NoFd
      /\ bound' = bound \ (pathvec \cap {fd}) /\ pathvec' = pathvec \ {fd}
      /\ srv' = NoServer /\ owned' = FALSE /\ backlog' = <<>> /\ inq' = <<>> /\ outq' = <<>>
      /\ conn' = [c \in Client |-> "closed"]
      /\ opened' = IF opening THEN opened \cup {fd} ELSE opened
      /\ causes' = causes \cup {"accept"} /\ UNCHANGED <<opens, aborted, told>>
  BY DEF ErrorUnhandled, ExternServer_register_local_name
<1> HIDE DEF fd, opening
<1>2. opening => fd \in 1 .. opens
  <2> SUFFICES ASSUME opening PROVE Head(inq).arg[1] \in 1 .. opens
    BY DEF fd
  <2>1. Head(inq) \in Mail
    <3>1. inq \in Seq(Message)
      BY DEF TypeOK
    <3> HIDE DEF Message
    <3> QED
      BY <1>1, <3>1, TailFacts DEF Mail
  <2> QED
    BY <1>1, <2>1 DEF Numbered, opening
<1>3. /\ <<>> \in Seq(Client) /\ <<>> \in Seq(Message)
      /\ IsInjective(<<>>) /\ Range(<<>>) = {}
  BY DEF IsInjective, Range
<1>4. srv' \in ServerRecord /\ srv'.pconn = <<>> /\ ~srv'.alive /\ ~srv'.unused
  BY <1>1, <1>3 DEF NoServer, ServerRecord, NoFd
<1>5. TypeOK'
  <2>1. conn' \in [Client -> States]
    BY <1>1 DEF States
  <2>2. bound' \subseteq 1 .. opens' /\ pathvec' \subseteq 1 .. opens' /\ opened' \subseteq 1 .. opens'
    BY <1>1, <1>2 DEF TypeOK
  <2>3. /\ aborted' \in BOOLEAN /\ opens' \in 0 .. MaxOpens /\ told' \in Seq(Client)
        /\ causes' \subseteq {"close", "accept", "drop"}
    BY <1>1 DEF TypeOK
  <2> QED
    BY <1>1, <1>3, <1>4, <2>1, <2>2, <2>3 DEF TypeOK, ServerRecord
<1>6. Absent' /\ Waiting' /\ Tracked'
  BY <1>1, <1>3, <1>4 DEF Absent, Waiting, Tracked
<1>7. Mail' = {}
  BY <1>1, <1>3 DEF Mail
<1>8. Numbered' /\ Asked' /\ NotDeaf'
  BY <1>4, <1>7 DEF Numbered, Asked, NotDeaf, Listening
<1>9. Registered' /\ PathRemoved'
  <2>1. bound \cap opened \subseteq {srv.fd} \/ aborted
    BY DEF PathRemoved
  <2>2. opening => bound \cap opened = {} \/ aborted
    <3>1. bound \subseteq 1 .. opens /\ opens \in Nat
      BY DEF TypeOK
    <3> QED
      BY <1>1, <2>1, <3>1 DEF NoFd
  <2>3. ~opening => fd = srv.fd
    BY DEF fd
  <2> QED
    BY <1>1, <2>1, <2>2, <2>3 DEF Registered, PathRemoved
<1>10. causes' # {}
  BY <1>1
<1> QED
  BY <1>5, <1>6, <1>8, <1>9, <1>10

-----------------------------------------------------------------------------
(* The steps: types *)

LEMMA TypeStep ==
    ASSUME ServerInv, Next
    PROVE  TypeOK'
<1> USE DEF ServerInv
<1>0. /\ srv \in ServerRecord /\ owned \in BOOLEAN /\ aborted \in BOOLEAN /\ opens \in 0 .. MaxOpens
      /\ conn \in [Client -> States] /\ backlog \in Seq(Client)
      /\ inq \in Seq(Message) /\ outq \in Seq(Message)
      /\ bound \subseteq 1 .. opens /\ pathvec \subseteq 1 .. opens
      /\ told \in Seq(Client) /\ opened \subseteq 1 .. opens
      /\ causes \subseteq {"close", "accept", "drop"} /\ MaxOpens \in Nat
  BY ServerAssumption DEF TypeOK, ServerRecord
<1> DEFINE Typed ==
        /\ srv' \in ServerRecord /\ owned' \in BOOLEAN /\ aborted' \in BOOLEAN
        /\ opens' \in 0 .. MaxOpens
        /\ conn' \in [Client -> States] /\ backlog' \in Seq(Client)
        /\ inq' \in Seq(Message) /\ outq' \in Seq(Message)
        /\ bound' \subseteq 1 .. opens' /\ pathvec' \subseteq 1 .. opens'
        /\ told' \in Seq(Client) /\ opened' \subseteq 1 .. opens'
        /\ causes' \subseteq {"close", "accept", "drop"}
<1> SUFFICES Typed
  BY DEF TypeOK, ServerRecord
<1>1. CASE PExternServer_bind
  <2>1. opens + 1 \in 1 .. MaxOpens /\ 1 .. opens \subseteq 1 .. opens + 1
    BY <1>0, <1>1 DEF PExternServer_bind
  <2>2. Msg("server", "open", <<opens + 1, FALSE>>) \in Message
    <3>1. opens + 1 \in Nat /\ FALSE \in BOOLEAN
      BY <1>0
    <3>2. <<opens + 1, FALSE>> \in Nat \X BOOLEAN
      BY <3>1, Zenon
    <3> QED
      BY <3>2 DEF Msg, Message
  <2>3. outq' \in Seq(Message)
    BY <1>1, <2>2, Posted DEF PExternServer_bind
  <2> QED
    BY <1>0, <1>1, <2>1, <2>3 DEF PExternServer_bind, clients, history
<1>2. CASE PExternServer_open
  <2>1. opens + 1 \in 1 .. MaxOpens /\ 1 .. opens \subseteq 1 .. opens + 1
    BY <1>0, <1>2 DEF PExternServer_open
  <2>2. Msg("server", "open", <<opens + 1, TRUE>>) \in Message
    <3>1. opens + 1 \in Nat /\ TRUE \in BOOLEAN
      BY <1>0
    <3>2. <<opens + 1, TRUE>> \in Nat \X BOOLEAN
      BY <3>1, Zenon
    <3> QED
      BY <3>2 DEF Msg, Message
  <2>3. outq' \in Seq(Message)
    BY <1>2, <2>2, Posted DEF PExternServer_open
  <2> QED
    BY <1>0, <1>2, <2>1, <2>3 DEF PExternServer_open, clients, history
<1>3. CASE PExternServer_close
  <2>2. Msg("server", "close", Owner) \in Message
    BY DEF Msg, Message
  <2>3. outq' \in Seq(Message)
    BY <1>3, <2>2, Posted DEF PExternServer_close
  <2> QED
    BY <1>0, <1>3, <2>3 DEF PExternServer_close, clients, socket
<1>4. CASE OwnerDrops
  <2>1. /\ UNCHANGED <<backlog, inq, outq, opens, aborted, told, opened>> /\ owned' = FALSE
        /\ causes' = causes \cup {"drop"}
    BY <1>4 DEF OwnerDrops, queues
  <2>2. CASE srv.alive
    <3>1. ExternServer_destroy
      BY <1>4, <2>2 DEF OwnerDrops
    <3> QED
      BY <1>0, <2>1, <3>1, DestroyFacts
  <2>3. CASE ~srv.alive
    <3>1. UNCHANGED <<srv, conn, pathvec, bound>>
      BY <1>4, <2>3 DEF OwnerDrops
    <3> QED
      BY <1>0, <2>1, <3>1
  <2> QED
    BY <2>2, <2>3
<1>5. CASE ExternServer_ExternServer_open
  <2> DEFINE m == Head(inq)
             s == [Created(m) EXCEPT !.fd = m.arg[1], !.cwe = m.arg[2]]
  <2>1. inq # <<>> /\ inq' = Tail(inq) /\ m.dest = "server" /\ m.kind = "open"
    BY <1>5 DEF ExternServer_ExternServer_open, Delivers
  <2>2. m \in Message /\ inq' \in Seq(Message) /\ m \in Mail
    BY <2>1, Taken DEF Mail
  <2>3. m.arg \in Nat \X BOOLEAN /\ m.arg[1] \in 1 .. opens
    BY <2>1, <2>2, Kinds DEF Numbered
  <2>4. /\ UNCHANGED <<owned, pathvec, bound, opens, told>> /\ opened' = opened \cup {m.arg[1]}
        /\ aborted' = (Created(m).fd # NoFd)
        /\ IF aborted' THEN UNCHANGED <<srv, conn, backlog, outq, causes>> ELSE Accept(s)
    BY <1>5 DEF ExternServer_ExternServer_open, clients, socket
  <2>5. aborted' \in BOOLEAN /\ opened' \subseteq 1 .. opens
    BY <1>0, <2>3, <2>4
  <2> HIDE DEF m
  <2>6. s \in ServerRecord /\ s.pconn = srv.pconn
    BY <2>2, <2>3, CreatedFacts DEF ServerRecord
  <2> HIDE DEF s
  <2>7. CASE aborted'
    BY <1>0, <2>2, <2>4, <2>5, <2>7
  <2>8. CASE ~aborted'
    BY <1>0, <2>2, <2>4, <2>5, <2>6, <2>8, AcceptFacts
  <2> QED
    BY <2>7, <2>8
<1>6. CASE ExternServer_TimerR_timer
  <2> DEFINE m == Head(inq)
             s == Created(m)
  <2>1. inq # <<>> /\ inq' = Tail(inq)
    BY <1>6 DEF ExternServer_TimerR_timer, Delivers
  <2>2. m \in Message /\ inq' \in Seq(Message)
    BY <2>1, Taken
  <2>4. /\ UNCHANGED <<owned, pathvec, bound, opens, told, opened>>
        /\ aborted' = (s.fd = NoFd)
        /\ IF aborted' THEN UNCHANGED <<srv, conn, backlog, outq, causes>> ELSE Accept(s)
    BY <1>6 DEF ExternServer_TimerR_timer, clients, socket
  <2>5. aborted' \in BOOLEAN
    BY <2>4
  <2> HIDE DEF m
  <2>6. s \in ServerRecord /\ s.pconn = srv.pconn
    BY <2>2, CreatedFacts
  <2> HIDE DEF s
  <2>7. CASE aborted'
    BY <1>0, <2>2, <2>4, <2>5, <2>7
  <2>8. CASE ~aborted'
    BY <1>0, <2>2, <2>4, <2>5, <2>6, <2>8, AcceptFacts
  <2> QED
    BY <2>7, <2>8
<1>7. CASE ExternServer_ExternServer_close
  <2>1. /\ inq # <<>> /\ inq' = Tail(inq) /\ srv' = [Created(Head(inq)) EXCEPT !.unused = TRUE]
        /\ UNCHANGED <<owned, conn, backlog, outq, pathvec, bound, opens, aborted, told, opened, causes>>
    BY <1>7 DEF ExternServer_ExternServer_close, Delivers, clients, socket, history
  <2>2. Head(inq) \in Message /\ inq' \in Seq(Message)
    BY <2>1, Taken
  <2>3. srv' \in ServerRecord
    BY <2>1, <2>2, CreatedFacts DEF ServerRecord
  <2> QED
    BY <1>0, <2>1, <2>2, <2>3
<1>8. CASE ExternServer_ExternR_connected
  <2>1. /\ inq # <<>> /\ inq' = Tail(inq) /\ srv' = Created(Head(inq))
        /\ Head(inq).kind = "connected"
        /\ Post(Msg(srv'.reply, "connected", Head(inq).arg))
        /\ UNCHANGED <<owned, conn, backlog, pathvec, bound, opens, aborted, told, opened, causes>>
    BY <1>8 DEF ExternServer_ExternR_connected, Delivers, clients, socket, history
  <2>2. Head(inq) \in Message /\ inq' \in Seq(Message) /\ Head(inq).arg \in Client
    BY <2>1, Taken, Kinds
  <2>3. srv' \in ServerRecord
    BY <2>1, <2>2, CreatedFacts
  <2>4. Msg(srv'.reply, "connected", Head(inq).arg) \in Message
    BY <2>2, <2>3 DEF ServerRecord, Msg, Message
  <2>5. outq' \in Seq(Message)
    BY <2>1, <2>4, Posted
  <2> QED
    BY <1>0, <2>1, <2>2, <2>3, <2>5
<1>9. CASE DropMessage
  <2>1. inq' \in Seq(Message)
    BY <1>9, Taken DEF DropMessage
  <2> QED
    BY <1>0, <1>9, <2>1 DEF DropMessage, clients, socket, history
<1>10. CASE TimerWatches
  <2>1. inq' \in Seq(Message)
    BY <1>10, Taken DEF TimerWatches, Delivers
  <2>2. srv' \in ServerRecord
    BY <1>0, <1>10 DEF TimerWatches, ServerRecord
  <2> QED
    BY <1>0, <1>10, <2>1, <2>2 DEF TimerWatches, clients, socket, history
<1>11. CASE OwnerTold
  <2>1. inq' \in Seq(Message) /\ Head(inq) \in Message /\ Head(inq).kind = "connected"
    BY <1>11, Taken DEF OwnerTold, Delivers
  <2>2. told' \in Seq(Client)
    BY <1>0, <1>11, <2>1, Kinds DEF OwnerTold
  <2> QED
    BY <1>0, <1>11, <2>1, <2>2 DEF OwnerTold, clients, socket
<1>12. CASE EndRound
  <2> DEFINE fires == ~Swept.unused /\ Swept.timer = "watching" /\ backlog # <<>>
  <2>1. /\ inq' = outq /\ outq' = IF fires THEN <<Msg("server", "timer", Owner)>> ELSE <<>>
        /\ UNCHANGED <<owned, backlog, opens, aborted, told, opened, causes>>
    BY <1>12 DEF EndRound, history
  <2>2. outq' \in Seq(Message)
    <3>1. Msg("server", "timer", Owner) \in Message
      BY DEF Msg, Message
    <3> QED
      BY <2>1, <3>1
  <2>3. CASE Swept.alive /\ Swept.unused
    <3>1. ExternServer_destroy
      BY <1>12, <2>3 DEF EndRound
    <3> QED
      BY <1>0, <2>1, <2>2, <3>1, DestroyFacts
  <2>4. CASE ~(Swept.alive /\ Swept.unused)
    <3>1. /\ srv' = IF fires THEN [Swept EXCEPT !.timer = "fired"] ELSE Swept
          /\ conn' = [c \in Client |-> IF c \in Closing THEN "closed" ELSE conn[c]]
          /\ UNCHANGED <<pathvec, bound>>
      BY <1>12, <2>4 DEF EndRound
    <3>2. srv' \in ServerRecord
      BY <3>1, SweptFacts DEF ServerRecord
    <3>3. conn' \in [Client -> States]
      BY <1>0, <3>1 DEF States
    <3> QED
      BY <1>0, <2>1, <2>2, <3>1, <3>2, <3>3
  <2> QED
    BY <2>3, <2>4
<1>13. ASSUME NEW c \in Client, ExternOpens(c) PROVE Typed
  <2>1. inq' \in Seq(Message)
    BY <1>13, Taken DEF ExternOpens, Delivers
  <2>2. conn' \in [Client -> States]
    BY <1>0, <1>13 DEF ExternOpens, States
  <2> QED
    BY <1>0, <1>13, <2>1, <2>2 DEF ExternOpens, socket, history
<1>14. ASSUME NEW c \in Client, ExternConnected(c) PROVE Typed
  <2>1. Msg("server", "connected", c) \in Message
    BY DEF Msg, Message
  <2>2. outq' \in Seq(Message)
    BY <1>14, <2>1, Posted DEF ExternConnected
  <2>3. conn' \in [Client -> States]
    BY <1>0, <1>14 DEF ExternConnected, States
  <2> QED
    BY <1>0, <1>14, <2>2, <2>3 DEF ExternConnected, socket, history
<1>15. ASSUME NEW c \in Client, Connects(c) PROVE Typed
  <2>1. backlog' \in Seq(Client)
    BY <1>0, <1>15 DEF Connects
  <2>2. conn' \in [Client -> States]
    BY <1>0, <1>15 DEF Connects, States
  <2> QED
    BY <1>0, <1>15, <2>1, <2>2 DEF Connects, socket, history, queues
<1>16. ASSUME NEW c \in Client, ExternEnds(c) PROVE Typed
  <2>1. conn' \in [Client -> States]
    BY <1>0, <1>16 DEF ExternEnds, States
  <2> QED
    BY <1>0, <1>16, <2>1 DEF ExternEnds, socket, history, queues
<1>17. CASE ErrorUnhandled
  <2>1. TypeOK'
    BY <1>17, UnhandledFacts
  <2> QED
    BY <2>1 DEF TypeOK, ServerRecord
<1> QED
  BY <1>1, <1>2, <1>3, <1>4, <1>5, <1>6, <1>7, <1>8, <1>9, <1>10, <1>11, <1>12, <1>13, <1>14,
     <1>15, <1>16, <1>17 DEF Next, Loop, OwnerActs

-----------------------------------------------------------------------------
(* The steps: connections *)

LEMMA ConnStep ==
    ASSUME ServerInv, Next
    PROVE  Absent' /\ Waiting' /\ Tracked'
<1> USE DEF ServerInv
<1>0. /\ srv \in ServerRecord /\ conn \in [Client -> States] /\ backlog \in Seq(Client)
      /\ inq \in Seq(Message)
  BY DEF TypeOK, ServerRecord
<1>1. ASSUME UNCHANGED <<srv, owned, conn, backlog>>
      PROVE  Absent' /\ Waiting' /\ Tracked'
  BY <1>1 DEF Absent, Waiting, Tracked
<1>2. CASE PExternServer_bind \/ PExternServer_open \/ PExternServer_close \/ DropMessage \/ OwnerTold
  BY <1>1, <1>2 DEF PExternServer_bind, PExternServer_open, PExternServer_close, DropMessage,
         OwnerTold, clients
<1>3. CASE OwnerDrops
  <2>1. /\ UNCHANGED <<backlog, aborted, opened, opens>> /\ owned' = FALSE
    BY <1>3 DEF OwnerDrops
  <2>2. CASE srv.alive
    <3>1. ExternServer_destroy
      BY <1>3, <2>2 DEF OwnerDrops
    <3>2. srv' = NoServer /\ ~srv'.alive /\ Waiting' /\ Tracked'
      BY <2>1, <3>1, DestroyFacts
    <3> QED
      BY <3>2 DEF Absent
  <2>3. CASE ~srv.alive
    <3>1. UNCHANGED <<srv, conn>>
      BY <1>3, <2>3 DEF OwnerDrops
    <3> QED
      BY <2>1, <2>3, <3>1 DEF Absent, Waiting, Tracked
  <2> QED
    BY <2>2, <2>3
<1>4. CASE ExternServer_ExternServer_open
  <2> DEFINE m == Head(inq)
             s == [Created(m) EXCEPT !.fd = m.arg[1], !.cwe = m.arg[2]]
  <2>1. inq # <<>> /\ inq' = Tail(inq) /\ m.dest = "server" /\ m.kind = "open"
    BY <1>4 DEF ExternServer_ExternServer_open, Delivers
  <2>2. m \in Message
    BY <2>1, Taken
  <2>3. m.arg \in Nat \X BOOLEAN
    BY <2>1, <2>2, Kinds
  <2>4. /\ owned' = owned /\ owned
        /\ IF aborted' THEN UNCHANGED <<srv, conn, backlog>> ELSE Accept(s)
    BY <1>4 DEF ExternServer_ExternServer_open, clients
  <2> HIDE DEF m
  <2>6. s \in ServerRecord /\ s.pconn = srv.pconn /\ s.alive
    BY <2>2, <2>3, CreatedFacts DEF ServerRecord
  <2> HIDE DEF s
  <2>7. CASE aborted'
    BY <1>1, <2>4, <2>7
  <2>8. CASE ~aborted'
    BY <2>4, <2>6, <2>8, AcceptFacts DEF Absent
  <2> QED
    BY <2>7, <2>8
<1>5. CASE ExternServer_TimerR_timer
  <2> DEFINE m == Head(inq)
             s == Created(m)
  <2>1. inq # <<>> /\ inq' = Tail(inq)
    BY <1>5 DEF ExternServer_TimerR_timer, Delivers
  <2>2. m \in Message
    BY <2>1, Taken
  <2>4. /\ owned' = owned /\ owned
        /\ IF aborted' THEN UNCHANGED <<srv, conn, backlog>> ELSE Accept(s)
    BY <1>5 DEF ExternServer_TimerR_timer, clients
  <2> HIDE DEF m
  <2>6. s \in ServerRecord /\ s.pconn = srv.pconn /\ s.alive
    BY <2>2, CreatedFacts
  <2> HIDE DEF s
  <2>7. CASE aborted'
    BY <1>1, <2>4, <2>7
  <2>8. CASE ~aborted'
    BY <2>4, <2>6, <2>8, AcceptFacts DEF Absent
  <2> QED
    BY <2>7, <2>8
<1>6. CASE ExternServer_ExternServer_close \/ ExternServer_ExternR_connected \/ TimerWatches
  <2>1. inq # <<>> /\ inq' = Tail(inq) /\ owned' = owned /\ UNCHANGED <<conn, backlog>>
    BY <1>6 DEF ExternServer_ExternServer_close, ExternServer_ExternR_connected, TimerWatches,
           Delivers, clients
  <2>2. Head(inq) \in Message
    BY <2>1, Taken
  <2>3. owned /\ srv'.alive /\ srv'.pconn = srv.pconn
    <3>1. CASE ExternServer_ExternServer_close
      <4>1. owned /\ srv' = [Created(Head(inq)) EXCEPT !.unused = TRUE]
        BY <3>1 DEF ExternServer_ExternServer_close
      <4> QED
        BY <2>2, <4>1, CreatedFacts DEF ServerRecord
    <3>2. CASE ExternServer_ExternR_connected
      <4>1. owned /\ srv' = Created(Head(inq))
        BY <3>2 DEF ExternServer_ExternR_connected
      <4> QED
        BY <2>2, <4>1, CreatedFacts
    <3>3. CASE TimerWatches
      BY <1>0, <3>3 DEF TimerWatches, ServerRecord, Absent
    <3> QED
      BY <1>6, <3>1, <3>2, <3>3
  <2> QED
    BY <2>1, <2>3 DEF Absent, Waiting, Tracked
<1>7. CASE EndRound
  <2> DEFINE fires == ~Swept.unused /\ Swept.timer = "watching" /\ backlog # <<>>
  <2>1. UNCHANGED <<owned, backlog, opens, aborted, opened>>
    BY <1>7 DEF EndRound, history
  <2>2. CASE Swept.alive /\ Swept.unused
    <3>1. ExternServer_destroy
      BY <1>7, <2>2 DEF EndRound
    <3>2. srv' = NoServer /\ ~srv'.alive /\ Waiting' /\ Tracked'
      BY <2>1, <3>1, DestroyFacts
    <3> QED
      BY <3>2 DEF Absent
  <2>3. CASE ~(Swept.alive /\ Swept.unused)
    <3>1. /\ srv' = IF fires THEN [Swept EXCEPT !.timer = "fired"] ELSE Swept
          /\ conn' = [c \in Client |-> IF c \in Closing THEN "closed" ELSE conn[c]]
      BY <1>7, <2>3 DEF EndRound
    <3>2. srv'.pconn = Swept.pconn /\ srv'.alive = srv.alive
      BY <3>1, SweptFacts DEF ServerRecord
    <3>3. ~srv.alive => srv = NoServer /\ ~srv.unused /\ srv.timer = "none"
      BY DEF Absent, NoServer
    <3>4. ~srv.alive => srv' = NoServer
      BY <3>1, <3>3, SweptFacts
    <3>5. ~Swept.unused
      BY <2>3, <3>3, SweptFacts
    <3>6. IsInjective(Swept.pconn) /\ Range(Swept.pconn) = Range(srv.pconn) \ Closing
      BY <3>5, SweptFacts
    <3>7. \A c \in Client :
            /\ conn'[c] \in {"asked", "open", "told", "closing"}
                 <=> conn[c] \in {"asked", "open", "told", "closing"} /\ c \notin Closing
            /\ conn'[c] = "backlog" <=> conn[c] = "backlog"
      BY <3>1 DEF Closing
    <3>8. Tracked'
      BY <3>2, <3>6, <3>7 DEF Tracked
    <3>9. Waiting'
      BY <2>1, <3>7 DEF Waiting
    <3> QED
      BY <2>1, <3>2, <3>4, <3>8, <3>9 DEF Absent
  <2> QED
    BY <2>2, <2>3
<1>8. ASSUME NEW c \in Client, ExternOpens(c) \/ ExternConnected(c) \/ ExternEnds(c)
      PROVE  Absent' /\ Waiting' /\ Tracked'
  <2>1. /\ UNCHANGED <<srv, owned, backlog>>
        /\ conn[c] \in {"asked", "open", "told", "closing"}
        /\ \E l \in {"open", "told", "closing"} : conn' = [conn EXCEPT ![c] = l]
    BY <1>8 DEF ExternOpens, ExternConnected, ExternEnds, Tracked
  <2>2. \A k \in Client : /\ conn'[k] \in {"asked", "open", "told", "closing"}
                               <=> conn[k] \in {"asked", "open", "told", "closing"}
                          /\ conn'[k] = "backlog" <=> conn[k] = "backlog"
    BY <1>0, <2>1
  <2> QED
    BY <2>1, <2>2 DEF Absent, Waiting, Tracked
<1>9. ASSUME NEW c \in Client, Connects(c)
      PROVE  Absent' /\ Waiting' /\ Tracked'
  <2>1. /\ UNCHANGED <<srv, owned>> /\ conn[c] = "out"
        /\ conn' = [conn EXCEPT ![c] = "backlog"] /\ backlog' = Append(backlog, c)
    BY <1>9 DEF Connects
  <2>2. c \notin Range(backlog) /\ IsInjective(backlog)
    BY <2>1 DEF Waiting
  <2>3. IsInjective(backlog') /\ Range(backlog') = Range(backlog) \cup {c}
    BY <1>0, <2>1, <2>2, AppendFacts
  <2>4. \A k \in Client : /\ conn'[k] \in {"asked", "open", "told", "closing"}
                               <=> conn[k] \in {"asked", "open", "told", "closing"}
                          /\ conn'[k] = "backlog" <=> (conn[k] = "backlog" \/ k = c)
    BY <1>0, <2>1
  <2>5. Waiting'
    BY <2>3, <2>4 DEF Waiting
  <2>6. Absent' /\ Tracked'
    BY <2>1, <2>4 DEF Absent, Tracked
  <2> QED
    BY <2>5, <2>6
<1>10. CASE ErrorUnhandled
  BY <1>10, UnhandledFacts
<1> QED
  BY <1>2, <1>3, <1>4, <1>5, <1>6, <1>7, <1>8, <1>9, <1>10 DEF Next, Loop, OwnerActs

-----------------------------------------------------------------------------
(* The steps: messages *)

\* What a message that is put into the queue must be, and what one that is
\* taken from it may not be.
Harmless(m) ==
    \/ m.dest # "server"
    \/ m.kind = "open" /\ m.arg[1] \in 1 .. opens'
    \/ m.kind = "close" /\ causes' # {}
    \/ m.kind \in {"timer", "connected"}
Wakes(m) == (m.dest = "timer" /\ m.kind = "watch") \/ (m.dest = "server" /\ m.kind = "timer")

LEMMA KeptMail ==
    ASSUME TypeOK, Numbered, Asked, opens' \in {opens, opens + 1}, causes \subseteq causes',
           \A m \in Mail' : m \in Mail \/ Harmless(m), srv'.unused => causes' # {}
    PROVE  Numbered' /\ Asked'
<1>1. opens \in Nat /\ 1 .. opens \subseteq 1 .. opens'
  BY DEF TypeOK
<1>2. Numbered'
  BY <1>1 DEF Numbered, Harmless
<1> QED
  BY <1>2 DEF Asked, Harmless

LEMMA StillHears ==
    ASSUME ServerInv, UNCHANGED <<srv, aborted>>, srv.alive => \A m \in Mail : m \in Mail' \/ ~Wakes(m)
    PROVE  NotDeaf'
  BY DEF ServerInv, NotDeaf, Listening, Queued, Mail, Wakes

LEMMA MailStep ==
    ASSUME ServerInv, Next
    PROVE  Numbered' /\ Asked' /\ NotDeaf'
<1> USE DEF ServerInv
<1>0. /\ srv \in ServerRecord /\ conn \in [Client -> States]
      /\ inq \in Seq(Message) /\ outq \in Seq(Message)
      /\ causes \subseteq {"close", "accept", "drop"} /\ opens \in Nat
  BY DEF TypeOK, ServerRecord
<1> DEFINE Goal == Numbered' /\ Asked' /\ NotDeaf'
<1>1. CASE PExternServer_bind \/ PExternServer_open
  <2>1. PICK b \in BOOLEAN : Post(Msg("server", "open", <<opens + 1, b>>))
    <3>1. FALSE \in BOOLEAN /\ TRUE \in BOOLEAN
      OBVIOUS
    <3> QED
      BY <1>1, <3>1, Zenon DEF PExternServer_bind, PExternServer_open
  <2>2. UNCHANGED <<srv, aborted, inq, causes>> /\ opens' = opens + 1
    BY <1>1 DEF PExternServer_bind, PExternServer_open, history
  <2> DEFINE m == Msg("server", "open", <<opens + 1, b>>)
  <2>3. m \in Message /\ m.kind = "open" /\ m.arg[1] = opens + 1
    <3>1. opens + 1 \in Nat
      BY <1>0
    <3>2. <<opens + 1, b>> \in Nat \X BOOLEAN
      BY <2>1, <3>1, Zenon
    <3> QED
      BY <3>2 DEF Msg, Message
  <2>4. Range(outq') = Range(outq) \cup {m}
    BY <2>1, <2>3, Posted
  <2>5. Harmless(m)
    BY <1>0, <2>2, <2>3 DEF Harmless
  <2> HIDE DEF m
  <2>6. Mail' = Mail \cup {m}
    BY <2>2, <2>4 DEF Mail
  <2>7. srv'.unused => causes' # {}
    BY <2>2 DEF Asked
  <2> QED
    BY <2>2, <2>5, <2>6, <2>7, KeptMail, StillHears
<1>2. CASE PExternServer_close
  <2> DEFINE m == Msg("server", "close", Owner)
  <2>1. m \in Message /\ m.kind = "close"
    BY DEF Msg, Message
  <2>2. /\ UNCHANGED <<srv, aborted, inq, opens>> /\ causes' = causes \cup {"close"}
        /\ Range(outq') = Range(outq) \cup {m}
    BY <1>2, <2>1, Posted DEF PExternServer_close, socket
  <2>3. Harmless(m)
    BY <2>1, <2>2 DEF Harmless
  <2> HIDE DEF m
  <2>4. Mail' = Mail \cup {m}
    BY <2>2 DEF Mail
  <2> QED
    BY <2>2, <2>3, <2>4, KeptMail, StillHears
<1>3. CASE OwnerDrops
  <2>1. /\ UNCHANGED <<inq, outq, opens, aborted, opened, backlog>> /\ causes' = causes \cup {"drop"}
    BY <1>3 DEF OwnerDrops, queues
  <2>2. Mail' = Mail /\ Numbered' /\ Asked'
    BY <2>1, KeptMail DEF Mail
  <2>3. ~srv'.alive
    <3>1. CASE srv.alive
      BY <1>3, <2>1, <3>1, DestroyFacts DEF OwnerDrops
    <3>2. CASE ~srv.alive
      BY <1>3, <3>2 DEF OwnerDrops
    <3> QED
      BY <3>1, <3>2
  <2> QED
    BY <2>2, <2>3 DEF NotDeaf, Listening
<1>4. CASE ExternServer_ExternServer_open \/ ExternServer_TimerR_timer
  <2> DEFINE m == Head(inq)
  <2>1. inq # <<>> /\ inq' = Tail(inq) /\ m.dest = "server" /\ m.kind \in {"open", "timer"}
    BY <1>4 DEF ExternServer_ExternServer_open, ExternServer_TimerR_timer, Delivers
  <2>2. m \in Message /\ Range(inq) = {m} \cup Range(inq')
    BY <2>1, Taken
  <2>3. m.kind = "open" => m.arg \in Nat \X BOOLEAN
    BY <2>1, <2>2, Kinds
  <2>4. /\ opens' = opens
        /\ \E s \in ServerRecord :
              /\ s.pconn = srv.pconn /\ s.unused = srv.unused
              /\ IF aborted' THEN UNCHANGED <<srv, outq, causes>> ELSE Accept(s)
    <3>1. CASE ExternServer_ExternServer_open
      <4> DEFINE s == [Created(m) EXCEPT !.fd = m.arg[1], !.cwe = m.arg[2]]
      <4>1. opens' = opens /\ m.kind = "open"
            /\ IF aborted' THEN UNCHANGED <<srv, outq, causes>> ELSE Accept(s)
        BY <3>1 DEF ExternServer_ExternServer_open, Delivers, socket
      <4> HIDE DEF m
      <4>2. s \in ServerRecord /\ s.pconn = srv.pconn /\ s.unused = srv.unused
        BY <2>2, <2>3, <4>1, CreatedFacts DEF ServerRecord
      <4> HIDE DEF s
      <4> QED
        BY <4>1, <4>2
    <3>2. CASE ExternServer_TimerR_timer
      <4> DEFINE s == Created(m)
      <4>1. opens' = opens
            /\ IF aborted' THEN UNCHANGED <<srv, outq, causes>> ELSE Accept(s)
        BY <3>2 DEF ExternServer_TimerR_timer, socket
      <4> HIDE DEF m
      <4>2. s \in ServerRecord /\ s.pconn = srv.pconn /\ s.unused = srv.unused
        BY <2>2, CreatedFacts
      <4> HIDE DEF s
      <4> QED
        BY <4>1, <4>2
    <3> QED
      BY <1>4, <3>1, <3>2
  <2> HIDE DEF m
  <2>5. CASE aborted'
    <3>1. UNCHANGED <<srv, outq, causes>> /\ \A n \in Mail' : n \in Mail
      BY <2>2, <2>4, <2>5 DEF Mail
    <3>2. Numbered' /\ Asked'
      BY <2>4, <3>1, KeptMail DEF Asked
    <3> QED
      BY <2>5, <3>2 DEF NotDeaf, Listening
  <2>6. CASE ~aborted'
    <3>1. PICK s \in ServerRecord : s.pconn = srv.pconn /\ s.unused = srv.unused /\ Accept(s)
      BY <2>4, <2>6
    <3>2. /\ srv'.unused => srv.unused \/ causes' # {}
          /\ Range(outq) \subseteq Range(outq')
          /\ \A n \in Range(outq') \ Range(outq) : n.dest # "server"
          /\ srv'.unused \/ \E n \in Range(outq') : n.dest = "timer" /\ n.kind = "watch"
          /\ causes \subseteq causes'
      BY <3>1, AcceptFacts
    <3>3. srv'.unused => causes' # {}
      BY <3>2 DEF Asked
    <3>4. \A n \in Mail' : n \in Mail \/ Harmless(n)
      BY <2>2, <3>2 DEF Mail, Harmless
    <3>5. Numbered' /\ Asked'
      BY <2>4, <3>2, <3>3, <3>4, KeptMail
    <3>6. NotDeaf'
      BY <3>2 DEF NotDeaf, Queued
    <3> QED
      BY <3>5, <3>6
  <2> QED
    BY <2>5, <2>6
<1>5. CASE ExternServer_ExternServer_close
  <2>1. /\ inq # <<>> /\ inq' = Tail(inq) /\ srv' = [Created(Head(inq)) EXCEPT !.unused = TRUE]
        /\ Head(inq).dest = "server" /\ Head(inq).kind = "close"
        /\ UNCHANGED <<outq, opens, aborted, causes>>
    BY <1>5 DEF ExternServer_ExternServer_close, Delivers, clients, socket, history
  <2>2. Head(inq) \in Message /\ Range(inq) = {Head(inq)} \cup Range(inq')
    BY <2>1, Taken
  <2>3. srv'.unused
    BY <2>1, <2>2, CreatedFacts DEF ServerRecord
  <2>4. causes # {}
    BY <2>1, <2>2 DEF Asked, Mail
  <2>5. \A n \in Mail' : n \in Mail
    BY <2>1, <2>2 DEF Mail
  <2> QED
    BY <2>1, <2>3, <2>4, <2>5, KeptMail DEF NotDeaf
<1>6. CASE ExternServer_ExternR_connected
  <2>1. /\ inq # <<>> /\ inq' = Tail(inq) /\ srv' = Created(Head(inq))
        /\ Head(inq).kind = "connected"
        /\ Post(Msg(srv'.reply, "connected", Head(inq).arg))
        /\ UNCHANGED <<opens, aborted, causes>>
    BY <1>6 DEF ExternServer_ExternR_connected, Delivers, clients, socket, history
  <2>2. /\ Head(inq) \in Message /\ Head(inq).arg \in Client
        /\ Range(inq) = {Head(inq)} \cup Range(inq')
    BY <2>1, Taken, Kinds
  <2>3. srv' \in ServerRecord /\ srv'.fd = srv.fd /\ srv'.unused = srv.unused /\ srv'.timer = srv.timer
    BY <2>1, <2>2, CreatedFacts
  <2> DEFINE m == Msg(srv'.reply, "connected", Head(inq).arg)
  <2>4. m \in Message /\ m.kind = "connected"
    BY <2>2, <2>3 DEF ServerRecord, Msg, Message
  <2>5. Range(outq') = Range(outq) \cup {m}
    BY <2>1, <2>4, Posted
  <2>6. Harmless(m)
    BY <2>4 DEF Harmless
  <2> HIDE DEF m
  <2>7. \A n \in Mail' : n \in Mail \/ Harmless(n)
    BY <2>2, <2>5, <2>6 DEF Mail
  <2>8. Numbered' /\ Asked'
    BY <2>1, <2>3, <2>7, KeptMail DEF Asked
  <2>9. ~srv.alive => srv.fd = NoFd
    BY DEF Absent, NoServer
  <2>10. \A n \in Mail : n \in Mail' \/ ~Wakes(n)
    BY <2>1, <2>2, <2>5 DEF Mail, Wakes
  <2>11. NotDeaf'
    BY <2>1, <2>3, <2>9, <2>10 DEF NotDeaf, Listening, Queued, Mail, Wakes
  <2> QED
    BY <2>8, <2>11
<1>7. CASE DropMessage \/ OwnerTold
  <2>1. /\ inq # <<>> /\ inq' = Tail(inq) /\ UNCHANGED <<srv, outq, opens, aborted, causes>>
        /\ \/ Head(inq).dest \in Client \cup {Owner}
           \/ Head(inq).dest = "server" /\ ~owned
           \/ Head(inq).dest = "timer" /\ ~srv.alive
    BY <1>7 DEF DropMessage, OwnerTold, Delivers, clients, socket, history
  <2>2. Range(inq) = {Head(inq)} \cup Range(inq')
    BY <2>1, Taken
  <2>3. srv.alive => \A n \in Mail : n \in Mail' \/ ~Wakes(n)
    <3>1. srv.alive => ~Wakes(Head(inq))
      BY <2>1, ServerAssumption DEF Absent, Wakes, Owner
    <3> QED
      BY <2>1, <2>2, <3>1 DEF Mail
  <2>4. \A n \in Mail' : n \in Mail
    BY <2>1, <2>2 DEF Mail
  <2>5. Numbered' /\ Asked'
    BY <2>1, <2>4, KeptMail DEF Asked
  <2> QED
    BY <2>1, <2>3, <2>5, StillHears
<1>8. CASE TimerWatches
  <2>1. /\ inq # <<>> /\ inq' = Tail(inq) /\ srv' = [srv EXCEPT !.timer = "watching"]
        /\ UNCHANGED <<outq, opens, aborted, causes>>
    BY <1>8 DEF TimerWatches, Delivers, clients, socket, history
  <2>2. Range(inq) = {Head(inq)} \cup Range(inq')
    BY <2>1, Taken
  <2>3. srv'.timer = "watching" /\ srv'.unused = srv.unused
    BY <1>0, <2>1 DEF ServerRecord
  <2>4. \A n \in Mail' : n \in Mail
    BY <2>1, <2>2 DEF Mail
  <2> QED
    BY <2>1, <2>3, <2>4, KeptMail DEF NotDeaf, Asked
<1>9. CASE EndRound
  <2> DEFINE fires == ~Swept.unused /\ Swept.timer = "watching" /\ backlog # <<>>
             m == Msg("server", "timer", Owner)
  <2>1. /\ inq = <<>> /\ inq' = outq /\ outq' = IF fires THEN <<m>> ELSE <<>>
        /\ UNCHANGED <<opens, aborted, causes, backlog, opened>>
    BY <1>9 DEF EndRound, history
  <2>2. m.dest = "server" /\ m.kind = "timer" /\ Range(<<>>) = {} /\ Range(<<m>>) = {m}
    BY DEF Msg, Range
  <2> HIDE DEF m
  <2>3. Mail' = IF fires THEN Mail \cup {m} ELSE Mail
    BY <2>1, <2>2 DEF Mail
  <2>4. \A n \in Mail' : n \in Mail \/ Harmless(n)
    BY <2>2, <2>3 DEF Harmless
  <2>5. CASE Swept.alive /\ Swept.unused
    <3>1. ExternServer_destroy
      BY <1>9, <2>5 DEF EndRound
    <3>2. ~srv'.alive /\ ~srv'.unused
      BY <2>1, <3>1, DestroyFacts
    <3> QED
      BY <2>1, <2>4, <3>2, KeptMail DEF NotDeaf, Listening
  <2>6. CASE ~(Swept.alive /\ Swept.unused)
    <3>1. srv' = IF fires THEN [Swept EXCEPT !.timer = "fired"] ELSE Swept
      BY <1>9, <2>6 DEF EndRound
    <3>2. ~srv.alive => srv = NoServer /\ ~srv.unused
      BY DEF Absent, NoServer
    <3>3. ~Swept.unused /\ ~srv.unused
      BY <2>6, <3>2, SweptFacts
    <3>4. /\ srv'.alive = srv.alive /\ srv'.fd = srv.fd /\ ~srv'.unused
          /\ ~fires => srv'.timer = Swept.timer
      BY <3>1, <3>3, SweptFacts DEF ServerRecord
    <3>5. Numbered' /\ Asked'
      BY <2>1, <2>4, <3>4, KeptMail
    <3>6. ASSUME Listening' PROVE Queued("server", "timer")' \/ srv'.timer = "watching"
                                    \/ Queued("timer", "watch")'
      <4>1. srv.timer = "watching" \/ \E n \in Mail : Wakes(n)
        BY <2>1, <3>3, <3>4, <3>6 DEF NotDeaf, Listening, Queued, Mail, Wakes
      <4>2. CASE fires
        BY <2>2, <2>3, <4>2 DEF Queued, Mail
      <4>3. CASE ~fires
        <5>1. srv.timer = "watching" => srv'.timer = "watching"
          BY <3>4, <4>3, SweptFacts
        <5> HIDE DEF fires
        <5>2. Mail' = Mail
          BY <2>3, <4>3
        <5> QED
          BY <4>1, <5>1, <5>2 DEF Queued, Mail, Wakes
      <4> QED
        BY <4>2, <4>3
    <3> QED
      BY <3>5, <3>6 DEF NotDeaf
  <2> QED
    BY <2>5, <2>6
<1>10. ASSUME NEW c \in Client, ExternOpens(c) PROVE Goal
  <2>1. /\ inq # <<>> /\ inq' = Tail(inq) /\ UNCHANGED <<srv, outq, opens, aborted, causes>>
        /\ Head(inq).dest = c
    BY <1>10 DEF ExternOpens, Delivers, socket, history
  <2>2. Range(inq) = {Head(inq)} \cup Range(inq')
    BY <2>1, Taken
  <2>3. ~Wakes(Head(inq))
    BY <2>1, ServerAssumption DEF Wakes
  <2>4. (\A n \in Mail : n \in Mail' \/ ~Wakes(n)) /\ (\A n \in Mail' : n \in Mail)
    BY <2>1, <2>2, <2>3 DEF Mail
  <2> QED
    BY <2>1, <2>4, KeptMail, StillHears DEF Asked
<1>11. ASSUME NEW c \in Client, ExternConnected(c) PROVE Goal
  <2> DEFINE m == Msg("server", "connected", c)
  <2>1. m \in Message /\ m.kind = "connected"
    BY DEF Msg, Message
  <2>2. UNCHANGED <<srv, inq, opens, aborted, causes>> /\ Range(outq') = Range(outq) \cup {m}
    BY <1>11, <2>1, Posted DEF ExternConnected, socket, history
  <2> HIDE DEF m
  <2>3. Mail' = Mail \cup {m} /\ Harmless(m)
    BY <2>1, <2>2 DEF Mail, Harmless
  <2> QED
    BY <2>2, <2>3, KeptMail, StillHears DEF Asked
<1>12. ASSUME NEW c \in Client, Connects(c) \/ ExternEnds(c) PROVE Goal
  <2>1. UNCHANGED <<srv, inq, outq, opens, aborted, causes>>
    BY <1>12 DEF Connects, ExternEnds, queues, socket, history
  <2>2. Mail' = Mail
    BY <2>1 DEF Mail
  <2> QED
    BY <2>1, <2>2, KeptMail, StillHears DEF Asked
<1>13. CASE ErrorUnhandled
  BY <1>13, UnhandledFacts
<1> QED
  BY <1>1, <1>2, <1>3, <1>4, <1>5, <1>6, <1>7, <1>8, <1>9, <1>10, <1>11, <1>12, <1>13
  DEF Next, Loop, OwnerActs

-----------------------------------------------------------------------------
(* The steps: paths *)

\* The same sockets, of a server that is still there.
LEMMA SamePaths ==
    ASSUME Registered, PathRemoved, UNCHANGED <<bound, pathvec, opened>>, aborted => aborted',
           srv.alive => srv'.alive /\ srv'.fd = srv.fd
    PROVE  Registered' /\ PathRemoved'
  BY DEF Registered, PathRemoved

LEMMA PathStep ==
    ASSUME ServerInv, Next
    PROVE  Registered' /\ PathRemoved'
<1> USE DEF ServerInv
<1>0. /\ srv \in ServerRecord /\ opened \subseteq 1 .. opens /\ bound \subseteq 1 .. opens
      /\ opens \in Nat
  BY DEF TypeOK, ServerRecord
<1>1. CASE PExternServer_bind
  <2>1. /\ UNCHANGED <<srv, aborted, opened>> /\ bound' = bound \cup {opens + 1}
        /\ pathvec' = pathvec \cup {opens + 1}
    BY <1>1 DEF PExternServer_bind, history
  <2>2. opens + 1 \notin opened
    BY <1>0
  <2> QED
    BY <2>1, <2>2 DEF Registered, PathRemoved
<1>2. CASE \/ PExternServer_open \/ PExternServer_close \/ DropMessage \/ OwnerTold
           \/ \E c \in Client : \/ ExternOpens(c) \/ ExternConnected(c)
                                \/ Connects(c) \/ ExternEnds(c)
  <2>1. UNCHANGED <<srv, bound, pathvec, opened, aborted>>
    BY <1>2 DEF PExternServer_open, PExternServer_close, DropMessage, OwnerTold, ExternOpens,
           ExternConnected, Connects, ExternEnds, socket, history
  <2> QED
    BY <2>1, SamePaths
<1>3. CASE OwnerDrops
  <2>1. UNCHANGED <<opens, aborted, opened, backlog>>
    BY <1>3 DEF OwnerDrops
  <2>2. CASE srv.alive
    BY <1>3, <2>1, <2>2, DestroyFacts DEF OwnerDrops
  <2>3. CASE ~srv.alive
    BY <1>3, <2>1, <2>3, SamePaths DEF OwnerDrops
  <2> QED
    BY <2>2, <2>3
<1>4. CASE ExternServer_ExternServer_open
  <2> DEFINE m == Head(inq)
             s == [Created(m) EXCEPT !.fd = m.arg[1], !.cwe = m.arg[2]]
  <2>1. inq # <<>> /\ inq' = Tail(inq) /\ m.dest = "server" /\ m.kind = "open"
    BY <1>4 DEF ExternServer_ExternServer_open, Delivers
  <2>2. m \in Message /\ m.arg \in Nat \X BOOLEAN
    BY <2>1, Taken, Kinds
  <2>3. /\ UNCHANGED <<bound, pathvec>> /\ opened' = opened \cup {m.arg[1]} /\ ~aborted
        /\ aborted' = (Created(m).fd # NoFd) /\ (aborted' \/ Accept(s))
    BY <1>4 DEF ExternServer_ExternServer_open, Delivers, socket
  <2> HIDE DEF m
  <2>4. s \in ServerRecord /\ s.pconn = srv.pconn /\ s.alive /\ s.fd = m.arg[1]
    BY <2>2, CreatedFacts DEF ServerRecord
  <2>5. Created(m).fd = srv.fd
    BY <2>2, CreatedFacts
  <2> HIDE DEF s
  <2>6. CASE aborted'
    BY <2>3, <2>6 DEF Registered, PathRemoved
  <2>7. CASE ~aborted'
    <3>1. srv'.alive /\ srv'.fd = m.arg[1]
      BY <2>3, <2>4, <2>7, AcceptFacts
    <3>2. srv.fd = 0
      BY <2>3, <2>5, <2>7 DEF NoFd
    <3>3. bound \cap opened = {}
      BY <1>0, <2>3, <3>2 DEF PathRemoved
    <3> QED
      BY <2>3, <3>1, <3>3 DEF Registered, PathRemoved
  <2> QED
    BY <2>6, <2>7
<1>5. CASE ExternServer_TimerR_timer
  <2> DEFINE m == Head(inq)
             s == Created(m)
  <2>1. inq # <<>> /\ inq' = Tail(inq)
    BY <1>5 DEF ExternServer_TimerR_timer, Delivers
  <2>2. m \in Message
    BY <2>1, Taken
  <2>3. /\ UNCHANGED <<bound, pathvec, opened>> /\ ~aborted
        /\ IF aborted' THEN srv' = srv ELSE Accept(s)
    BY <1>5 DEF ExternServer_TimerR_timer, Delivers, socket
  <2> HIDE DEF m
  <2>4. s \in ServerRecord /\ s.pconn = srv.pconn /\ s.alive /\ s.fd = srv.fd
    BY <2>2, CreatedFacts
  <2> HIDE DEF s
  <2>5. srv.alive => srv'.alive /\ srv'.fd = srv.fd
    BY <2>3, <2>4, AcceptFacts
  <2> QED
    BY <2>3, <2>5, SamePaths
<1>6. CASE ExternServer_ExternServer_close \/ ExternServer_ExternR_connected \/ TimerWatches
  <2>1. /\ inq # <<>> /\ inq' = Tail(inq) /\ UNCHANGED <<bound, pathvec, opened, aborted>>
        /\ \/ srv' = [Created(Head(inq)) EXCEPT !.unused = TRUE]
           \/ srv' = Created(Head(inq))
           \/ srv' = [srv EXCEPT !.timer = "watching"]
    BY <1>6 DEF ExternServer_ExternServer_close, ExternServer_ExternR_connected, TimerWatches,
           Delivers, socket, history
  <2>2. Head(inq) \in Message
    BY <2>1, Taken
  <2>3. srv.alive => srv'.alive /\ srv'.fd = srv.fd
    BY <1>0, <2>1, <2>2, CreatedFacts DEF ServerRecord
  <2> QED
    BY <2>1, <2>3, SamePaths
<1>7. CASE EndRound
  <2>1. UNCHANGED <<opens, aborted, opened, backlog>>
    BY <1>7 DEF EndRound, history
  <2>2. CASE Swept.alive /\ Swept.unused
    BY <1>7, <2>1, <2>2, DestroyFacts DEF EndRound
  <2>3. CASE ~(Swept.alive /\ Swept.unused)
    <3>1. /\ srv' = Swept \/ srv' = [Swept EXCEPT !.timer = "fired"]
          /\ UNCHANGED <<pathvec, bound>>
      BY <1>7, <2>3 DEF EndRound
    <3>2. srv'.alive = srv.alive /\ srv'.fd = srv.fd
      BY <3>1, SweptFacts DEF ServerRecord
    <3> QED
      BY <2>1, <3>1, <3>2, SamePaths
  <2> QED
    BY <2>2, <2>3
<1>8. CASE ErrorUnhandled
  BY <1>8, UnhandledFacts
<1> QED
  BY <1>1, <1>2, <1>3, <1>4, <1>5, <1>6, <1>7, <1>8 DEF Next, Loop, OwnerActs

-----------------------------------------------------------------------------
(* The theorems *)

\* Before anything happens there is no server, no client and no message.
LEMMA InitServer == Init => ServerInv
<1> SUFFICES ASSUME Init PROVE ServerInv
  OBVIOUS
<1> USE DEF Init
<1>1. <<>> \in Seq(Client) /\ <<>> \in Seq(Message) /\ IsInjective(<<>>) /\ Range(<<>>) = {}
  BY DEF IsInjective, Range
<1>2. srv \in ServerRecord /\ srv.pconn = <<>> /\ ~srv.alive /\ ~srv.unused
  BY <1>1 DEF NoServer, ServerRecord, NoFd
<1>3. TypeOK
  <2>1. opens \in 0 .. MaxOpens
    BY ServerAssumption
  <2>2. conn \in [Client -> States]
    BY DEF States
  <2>3. /\ owned \in BOOLEAN /\ aborted \in BOOLEAN /\ backlog \in Seq(Client)
        /\ inq \in Seq(Message) /\ outq \in Seq(Message) /\ told \in Seq(Client)
    BY <1>1
  <2>4. bound \subseteq 1 .. opens /\ pathvec \subseteq 1 .. opens /\ opened \subseteq 1 .. opens
        /\ causes \subseteq {"close", "accept", "drop"}
    OBVIOUS
  <2> QED
    BY <1>2, <2>1, <2>2, <2>3, <2>4 DEF TypeOK, ServerRecord
<1>4. Mail = {}
  BY <1>1 DEF Mail
<1>5. Absent /\ Waiting /\ Tracked
  BY <1>1, <1>2 DEF Absent, Waiting, Tracked
<1>6. Numbered /\ Registered /\ Asked /\ NotDeaf /\ PathRemoved
  BY <1>2, <1>4 DEF Numbered, Registered, Asked, NotDeaf, Listening, PathRemoved
<1> QED
  BY <1>3, <1>5, <1>6 DEF ServerInv

LEMMA StepServer == ServerInv /\ [Next]_vars => ServerInv'
<1> SUFFICES ASSUME ServerInv, [Next]_vars PROVE ServerInv'
  OBVIOUS
<1>1. CASE Next
  BY <1>1, TypeStep, ConnStep, MailStep, PathStep DEF ServerInv
<1>2. CASE UNCHANGED vars
  BY <1>2 DEF vars, clients, queues, socket, history, ServerInv, TypeOK, Absent, Waiting, Tracked,
         Numbered, Registered, Asked, NotDeaf, Listening, Queued, PathRemoved, Mail
<1> QED
  BY <1>1, <1>2

\* The inductive invariant holds in every state of the server.
THEOREM ServerInvariance == Spec => []ServerInv
  BY InitServer, StepServer, PTL DEF Spec

\* ExternServer keeps account of its connections: pconn has each accepted
\* connection that has not ended, once, whatever ended the others.
THEOREM ConnectionsCorrect == Spec => []ConnectionsSound
<1>1. ServerInv => ConnectionsSound
  BY DEF ServerInv, ConnectionsSound
<1> QED
  BY <1>1, ServerInvariance, PTL

\* ExternServer, after every accept that did not fail, waits for its socket again:
\* no order of answers, requests and sweeps leaves a server that listens deaf.
THEOREM NeverDeaf == Spec => []NotDeaf
<1>1. ServerInv => NotDeaf
  BY DEF ServerInv
<1> QED
  BY <1>1, ServerInvariance, PTL

\* ExternServer_destroy unlinks the path of the socket the server has: no path of
\* a socket that it was opened with is in the file system without it.
THEOREM PathsGoWithServer == Spec => []PathRemoved
<1>1. ServerInv => PathRemoved
  BY DEF ServerInv
<1> QED
  BY <1>1, ServerInvariance, PTL

\* A server that is to listen on ends only when its owner closes or drops it, or
\* when accept has failed; never because the last connection is gone.
LEMMA EndStep ==
    ASSUME ServerInv, [Next]_vars, srv.alive, ~srv.cwe, ~srv'.alive
    PROVE  causes' # {}
<1> USE DEF ServerInv
<1>0. srv \in ServerRecord
  BY DEF TypeOK, ServerRecord
<1>1. CASE OwnerDrops
  BY <1>1 DEF OwnerDrops
<1>2. CASE EndRound
  <2>1. causes' = causes
    BY <1>2 DEF EndRound, history
  <2>2. CASE Swept.unused
    BY <2>1, <2>2, SweptFacts DEF Asked
  <2>3. CASE ~Swept.unused
    <3>1. srv' = Swept \/ srv' = [Swept EXCEPT !.timer = "fired"]
      BY <1>2, <2>3 DEF EndRound
    <3> QED
      BY <3>1, SweptFacts DEF ServerRecord
  <2> QED
    BY <2>2, <2>3
<1>3. CASE ~OwnerDrops /\ ~EndRound
  <2>1. CASE ExternServer_ExternServer_open \/ ExternServer_TimerR_timer
    <3>1. inq # <<>> /\ inq' = Tail(inq) /\ Head(inq) \in Message
      BY <2>1, Taken DEF ExternServer_ExternServer_open, ExternServer_TimerR_timer, Delivers
    <3>2. Created(Head(inq)) = srv
      BY DEF Created
    <3>3. CASE aborted'
      BY <2>1, <3>3 DEF ExternServer_ExternServer_open, ExternServer_TimerR_timer
    <3>4. CASE ExternServer_TimerR_timer /\ ~aborted'
      <4>1. Accept(srv)
        BY <3>2, <3>4 DEF ExternServer_TimerR_timer
      <4> QED
        BY <1>0, <4>1, AcceptFacts
    <3>5. CASE ExternServer_ExternServer_open /\ ~aborted'
      <4> DEFINE s == [srv EXCEPT !.fd = Head(inq).arg[1], !.cwe = Head(inq).arg[2]]
      <4>1. Accept(s) /\ Head(inq).dest = "server" /\ Head(inq).kind = "open"
        BY <3>2, <3>5 DEF ExternServer_ExternServer_open, Delivers
      <4>2. Head(inq).arg \in Nat \X BOOLEAN
        BY <3>1, <4>1, Kinds
      <4>3. s \in ServerRecord /\ s.pconn = srv.pconn /\ s.alive
        BY <1>0, <4>2 DEF ServerRecord
      <4> HIDE DEF s
      <4> QED
        BY <4>1, <4>3, AcceptFacts
    <3> QED
      BY <2>1, <3>3, <3>4, <3>5
  <2>2. CASE ExternServer_ExternServer_close \/ ExternServer_ExternR_connected \/ TimerWatches
    BY <1>0, <2>2 DEF ExternServer_ExternServer_close, ExternServer_ExternR_connected, TimerWatches,
           Created, ServerRecord
  <2>3. CASE \/ PExternServer_bind \/ PExternServer_open \/ PExternServer_close \/ DropMessage
             \/ OwnerTold
             \/ \E c \in Client : \/ ExternOpens(c) \/ ExternConnected(c)
                                  \/ Connects(c) \/ ExternEnds(c)
    BY <2>3 DEF PExternServer_bind, PExternServer_open, PExternServer_close, DropMessage, OwnerTold,
           ExternOpens, ExternConnected, Connects, ExternEnds
  <2>4. CASE UNCHANGED vars
    BY <2>4 DEF vars
  <2>5. CASE ErrorUnhandled
    BY <2>5, UnhandledFacts
  <2> QED
    BY <1>3, <2>1, <2>2, <2>3, <2>4, <2>5 DEF Next, Loop, OwnerActs
<1> QED
  BY <1>1, <1>2, <1>3

\* A server that is to listen on does not end because connections come and go.
THEOREM ListensOn == Spec => ServesOn
<1>1. ServerInv /\ [Next]_vars => [srv.alive /\ ~srv.cwe /\ ~srv'.alive => causes' # {}]_vars
  BY EndStep
<1> QED
  BY <1>1, ServerInvariance, PTL DEF Spec, ServesOn
=============================================================================
