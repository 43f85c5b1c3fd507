---------------------------- MODULE ExternRoutes -----------------------------
(***************************************************************************)
(* What the proofs about ExternProtocol speak of: what is always true of   *)
(* the two processes, as a conjunction of named parts, and what a step may *)
(* do to them, as relations between a process before and after it.         *)
(*                                                                         *)
(*   RelaysInv - each process by itself: connections, relays and types;    *)
(*   RoutesInv - every relay, connection, object and message belongs to a  *)
(*               proxy of the client;                                      *)
(*   WaysInv   - calls and replies go through pipelines, in order.         *)
(***************************************************************************)
EXTENDS ExternProtocol, SeqLemmas

-----------------------------------------------------------------------------
(* Processes, their relays and messages *)

\* The fields of a process.
Field == {"ext", "told", "interfaces", "conns", "applinks", "extlinks", "relay", "objects",
          "inq", "outq", "out"}

\* An extid that the other side has made.
Foreign(p, e) == e # extid_COM /\ InRange(p, e)

\* What the connections of an Extern have.
ConnsOK(p, P) ==
    /\ \A c \in P.conns : /\ c.oid \in Oids \cap P.extlinks
                          /\ c.extid = NewExtid(p, c.oid) \/ Foreign(p, c.extid)
    /\ \A c, d \in P.conns : c.oid = d.oid <=> c.extid = d.extid

\* Messages and written messages, with calls of D.
Message(D) == {m \in Queued : /\ m.src \in {App, Ext} \cup Oids
                              /\ m.kind = "call" => m.n \in D}
Sendable(D) == {w \in Written : /\ w.extid = extid_COM => w.kind \in {"export", "delete"}
                                /\ w.kind = "call" => w.n \in D}

\* And its relays.
RelaysOK(P) ==
    \A o \in DOMAIN P.relay :
        /\ P.relay[o].pExtern => P.ext \in {"open", "closed"}
        /\ P.relay[o].serves => P.relay[o].localp \in Oids

\* The invariant of one process.  A connection has the extid of its oid or one
\* that the other side makes, and the ranges do not meet; its oid is linked from
\* the Extern, so that a new one, made for a free oid, has another.
Good(p, P, D) ==
    /\ DOMAIN P = Field /\ IsProcess(P)
    /\ P.inq \in Seq(Message(D)) /\ P.outq \in Seq(Message(D)) /\ P.out \in Seq(Sendable(D))
    /\ ConnsOK(p, P) /\ RelaysOK(P)
    /\ \A s \in DOMAIN P.objects : P.objects[s].calls \in Seq(D) \ {<<>>}

-----------------------------------------------------------------------------
(* What the operators do to the fields of a process *)

\* Q is P but for the fields in S.
Same(P, Q, S) == DOMAIN Q = Field /\ \A f \in Field \ S : Q[f] = P[f]

\* The connection that a message of oid leaves by.
Leaves(p, P, oid, c) ==
    \/ c \in P.conns /\ c.oid = oid
    \/ (\A d \in P.conns : d.oid # oid) /\ c = [oid |-> oid, extid |-> NewExtid(p, oid)]

\* The message leaves by connection c.
SentBy(p, P, Q, oid, kind, iid, n, c) ==
    /\ Leaves(p, P, oid, c) /\ c.oid = oid
    /\ Q.conns = IF kind = "delete" THEN P.conns \ {c} ELSE P.conns \cup {c}
    /\ Q.extlinks = IF c \in P.conns THEN P.extlinks ELSE P.extlinks \cup {oid}
    /\ Q.out = IF P.ext = "open"
               THEN Append(P.out, [extid |-> c.extid, kind |-> kind, iid |-> iid, n |-> n])
               ELSE P.out

\* The relay with its local object.
Local(p, P, m, r) ==
    IF r.localp # NoOid THEN r
    ELSE [localp |-> Min(Free(P)), serves |-> IsExported(p, m.iid), pExtern |-> r.pExtern,
          unused |-> r.unused]

\* The relay's delete makes Q of P, and its removal R of Q.
Deletes(P, o) == IF P.relay[o].localp = NoOid THEN NoOid ELSE o
Removed(p, P, Q, o, R) ==
    /\ Q = IF P.relay[o].pExtern THEN Outgoing(p, P, Deletes(P, o), "delete", "COM", 0) ELSE P
    /\ Same(Q, R, {"relay", "objects"})
    /\ R.relay = [x \in DOMAIN P.relay \ {o} |-> P.relay[x]]
    /\ R.objects = IF P.relay[o].serves
                   THEN [x \in DOMAIN P.objects \ {P.relay[o].localp} |-> P.objects[x]]
                   ELSE P.objects

-----------------------------------------------------------------------------
(* casycom_destroy_unused_objects *)

\* What the walk over the relays has left before oid o, when f did the oids before it.
Sweep(p, Q, U, f, o) ==
    IF o = 0 THEN Q ELSE IF o \in U THEN COMRelay_destroy(p, f[o - 1], o) ELSE f[o - 1]
Sweeps(p, Q, U, f, n) == \A o \in 0 .. n : f[o] = Sweep(p, Q, U, f, o)

-----------------------------------------------------------------------------
(* What is read *)

\* The imported interfaces that Extern_COM_export finds in the list.
Found(p) ==
    {i \in Imports[p] : Exports[Other(p)] # <<>> /\ <<i, Exports[Other(p)][1]>> \in Begins}

\* What comes of a message that is valid.
TakesExport(p, P, m, Q) ==
    /\ m.extid = extid_COM /\ m.kind = "export"
    /\ Same(P, Q, {"interfaces", "outq"}) /\ Q.interfaces = Found(p) /\ Found(p) \subseteq Iface
    /\ Q.outq = Append(P.outq, Msg(Ext, App, "connected", "COM", 0))
TakesKnown(p, P, m, c, Q) ==
    /\ m.extid # extid_COM /\ c \in P.conns /\ c.extid = m.extid
    /\ Same(P, Q, {"extlinks", "outq"}) /\ Q.extlinks = P.extlinks \cup {c.oid}
    /\ Q.outq = Append(P.outq, Msg(Ext, c.oid, m.kind, m.iid, m.n))
TakesNew(p, P, m, o, Q) ==
    /\ m.extid # extid_COM /\ m.iid # "COM" /\ \A c \in P.conns : c.extid # m.extid
    /\ o = Min(Free(P))
    /\ Same(P, Q, {"conns", "extlinks", "outq"}) /\ Q.extlinks = P.extlinks \cup {o}
    /\ Q.conns = P.conns \cup {[oid |-> o, extid |-> m.extid]}
    /\ Q.outq = Append(Append(P.outq, Msg(Ext, o, "create", "COM", 0)),
                       Msg(Ext, o, m.kind, m.iid, m.n))

-----------------------------------------------------------------------------
(* The invariant of both processes *)

\* The history names calls that were made.
HistoryOK ==
    /\ sent \in Seq(Procs \X Oids) /\ taken \in Seq(DOMAIN sent)
    /\ answers \in Seq([proc : Procs, oid : Nat, kind : Kinds, n : Nat])
    /\ replied \subseteq DOMAIN sent
    /\ dropped \subseteq Procs \X Oids /\ died \subseteq Procs \X Oids
    /\ lost \subseteq [proc : Procs, kind : Kinds, n : Nat]
    /\ refused \subseteq [proc : Procs, kind : Kinds, n : Nat]

\* The inductive invariant.
RelaysInv ==
    /\ DOMAIN proc = Procs /\ \A p \in Procs : Good(p, proc[p], DOMAIN sent)
    /\ HistoryOK

\* The object s has taken call n.
Calling(P, s, n) ==
    LET old == IF s \in DOMAIN P.objects THEN P.objects[s] ELSE [calls |-> <<>>, unused |-> FALSE]
    IN [old EXCEPT !.calls = Append(@, n)]

-----------------------------------------------------------------------------
(* The client *)

\* The client exports nothing, as in test/ipcom.c.  Objects of a client cannot be
\* used in any case: Extern_validate_message refuses what the server makes.
OneWay == Exports["client"] = <<>>

HasExt(P) == P.ext \in {"open", "closed"}
Mail(P) == P.inq \o P.outq

\* A proxy of the client, and the extid of its connection.
Proxy(o) == <<"client", o>>
Key(o) == NewExtid("client", o)

\* The messages in the queues of the client, where s is sent and di is died.
AppCall(P, m, s) ==
    /\ m.kind = "call" /\ m.src = App /\ m.dest \in Oids /\ m.iid \in Iface
    /\ m.n \in DOMAIN s /\ s[m.n] = Proxy(m.dest)
    /\ HasExt(P) => m.iid \in P.interfaces
ExtReply(P, m, s) ==
    /\ m.kind = "reply" /\ m.src = Ext /\ m.dest \in Oids /\ m.iid = "R"
    /\ m.n \in DOMAIN s /\ s[m.n] = Proxy(m.dest)
    /\ HasExt(P) => m.dest \in P.extlinks
AppReply(m, s) ==
    /\ m.kind = "reply" /\ m.src \in Oids /\ m.dest = App
    /\ m.n \in DOMAIN s /\ s[m.n] = Proxy(m.src)
ExtEnd(P, m, di) ==
    /\ m.kind \in {"error", "delete"} /\ m.src = Ext /\ m.dest \in Oids /\ m.iid = "COM"
    /\ Proxy(m.dest) \in di
    /\ HasExt(P) => m.dest \in P.extlinks
ToSelf(m) ==
    \/ m.kind = "connected" /\ m.src = Ext /\ m.dest = App
    \/ m.kind = "close" /\ m.src = App /\ m.dest = Ext
ClientMail(P, m, s, di) ==
    AppCall(P, m, s) \/ ExtReply(P, m, s) \/ AppReply(m, s) \/ ExtEnd(P, m, di) \/ ToSelf(m)

\* What the client writes; dr is dropped.
ClientOut(w, s, dr) ==
    \/ w.extid = extid_COM /\ w.kind = "export"
    \/ \E o \in Oids :
        /\ w.extid = Key(o)
        /\ \/ w.kind = "call" /\ w.iid \in Iface /\ w.n \in DOMAIN s /\ s[w.n] = Proxy(o)
           \/ w.kind = "delete" /\ w.iid = "COM" /\ Proxy(o) \in dr

\* The relay of a proxy has its Extern, and is there when something comes for it.
Kept(P, o) ==
    /\ o \in DOMAIN P.relay => P.relay[o].pExtern
    /\ \A d \in P.conns : d.oid = o => o \in DOMAIN P.relay
    /\ \A m \in Range(Mail(P)) : m.src = Ext /\ m.dest = o => o \in DOMAIN P.relay

ClientRelays(P) ==
    /\ DOMAIN P.objects = {} /\ \A d \in P.conns : d.extid = Key(d.oid)
    /\ \A o \in DOMAIN P.relay : /\ ~P.relay[o].serves
                                 /\ P.relay[o].pExtern => /\ P.relay[o].localp = App /\ ~P.relay[o].unused
                                                          /\ \E d \in P.conns : d.oid = o
    /\ HasExt(P) => DOMAIN P.relay \subseteq P.extlinks
    /\ P.interfaces \subseteq Found("client")
ClientKept(P, di) == HasExt(P) => \A o \in P.applinks : Proxy(o) \in di \/ Kept(P, o)
ClientSent(P, s, dr) ==
    \A n \in DOMAIN s : \E o \in Oids :
        s[n] = Proxy(o) /\ (P.ext # "exited" => o \in P.applinks \/ Proxy(o) \in dr)

ClientOK(P, s, dr, di) ==
    /\ ClientRelays(P) /\ ClientKept(P, di) /\ ClientSent(P, s, dr)
    /\ \A m \in Range(Mail(P)) : ClientMail(P, m, s, di)
    /\ \A w \in Range(P.out) : ClientOut(w, s, dr)

\* Q is P after message m, one of T, is posted.
Puts(T, P, m, Q) ==
    /\ P.inq \in Seq(T) /\ P.outq \in Seq(T) /\ m \in T
    /\ Q.inq = P.inq /\ Q.outq = Append(P.outq, m)

-----------------------------------------------------------------------------
(* A call or reply at a relay *)

\* R is P with the relay r for message m, as COMRelay_COM_message finds it.
KnownRelay(P, m, r) ==
    m.dest \in DOMAIN P.relay /\ P.relay[m.dest].localp # NoOid /\ r = P.relay[m.dest]
FirstUsed(p, P, m, r) ==
    /\ m.dest \in DOMAIN P.relay /\ P.relay[m.dest].localp = NoOid /\ r.localp \in Free(P)
    /\ r.serves = IsExported(p, m.iid)
    /\ r.pExtern = P.relay[m.dest].pExtern /\ r.unused = P.relay[m.dest].unused
NewRelay(P, m, r) ==
    /\ m.dest \notin DOMAIN P.relay /\ r.localp = m.src /\ ~r.serves /\ ~r.unused
    /\ r.pExtern <=> HasExt(P) /\ m.iid \in P.interfaces
Met(p, P, m, R, r) ==
    /\ Same(P, R, {"relay"}) /\ DOMAIN R.relay = DOMAIN P.relay \cup {m.dest}
    /\ \A o \in DOMAIN P.relay : o # m.dest => R.relay[o] = P.relay[o]
    /\ R.relay[m.dest] = r
    /\ KnownRelay(P, m, r) \/ FirstUsed(p, P, m, r) \/ NewRelay(P, m, r)

\* What becomes of the message: nothing, it goes on in the process, or it leaves.
IsLost(R, r, Q) == ~r.pExtern /\ Q = R
Passed(R, r, m, Q) ==
    /\ r.pExtern /\ m.src # r.localp
    /\ Same(R, Q, {"outq"}) /\ Q.outq = Append(R.outq, Msg(m.dest, r.localp, m.kind, m.iid, m.n))
SentOut(p, R, r, m, Q) ==
    /\ r.pExtern /\ m.src = r.localp
    /\ Same(R, Q, {"conns", "extlinks", "out"})
    /\ \E c : SentBy(p, R, Q, m.dest, m.kind, m.iid, m.n, c)
Relayed(p, m, R, r, Q) ==
    /\ Met(p, Taken(p), m, R, r)
    /\ IsLost(R, r, Q) \/ Passed(R, r, m, Q) \/ SentOut(p, R, r, m, Q)

-----------------------------------------------------------------------------
(* Steps of the client *)

\* Q has the relays of P, and connections and links that are not less.
Calm(P, Q) ==
    /\ Q.relay = P.relay /\ Q.objects = P.objects /\ Q.conns = P.conns /\ Q.applinks = P.applinks
    /\ P.extlinks \subseteq Q.extlinks /\ P.interfaces \subseteq Q.interfaces
    /\ HasExt(Q) => HasExt(P)
    /\ P.ext = "exited" => Q.ext = "exited"
    /\ Range(Q.out) \subseteq Range(P.out)

\* The relay that a call or reply finds at the client: it has its Extern as long
\* as its proxy is not gone.
AtClient(P, m, R, r, s, di) ==
    /\ R.objects = P.objects /\ R.applinks = P.applinks /\ R.interfaces = P.interfaces
    /\ R.ext = P.ext /\ R.extlinks = P.extlinks /\ R.conns = P.conns /\ R.out = P.out
    /\ DOMAIN R.relay = DOMAIN P.relay \cup {m.dest}
    /\ \A x \in DOMAIN P.relay : x # m.dest => R.relay[x] = P.relay[x]
    /\ R.relay[m.dest] = r
    /\ ~r.serves /\ (r.pExtern => r.localp = App /\ ~r.unused)
    /\ HasExt(P) /\ m.dest \in P.applinks /\ Proxy(m.dest) \notin di => r.pExtern
    /\ HasExt(P) /\ ~r.pExtern => m.dest \in P.extlinks
    /\ r.pExtern => (\E d \in P.conns : d.oid = m.dest) \/ AppCall(P, m, s)
    /\ m.dest \in DOMAIN P.relay => (r.pExtern <=> P.relay[m.dest].pExtern)
\* No relay of the client waits for its local object.
NoStray(P) == \A o \in DOMAIN P.relay : P.relay[o].pExtern => P.relay[o].localp # NoOid

\* The end of a server's object reaches the relay, which Q has after it.
Ending(T, m, F, Q) ==
    /\ F = FindOrCreate(T, m)
    /\ Same(F, Q, {"relay"}) /\ DOMAIN Q.relay = DOMAIN F.relay
    /\ \A x \in DOMAIN F.relay : x # m.dest => Q.relay[x] = F.relay[x]
    /\ Q.relay[m.dest].pExtern => Q = F /\ NoStray(Q)
    /\ Q.relay[m.dest].serves = F.relay[m.dest].serves

\* Q is P after a message is taken that is for no relay or object, after the
\* application sent something to itself, or after the connection was lost.
Skipped(P, m) ==
    m.dest \notin Linked(P) \cup {App, Ext} \/ m.dest = App \/ m.kind = "close"
QuietMail(P, Q) ==
    \/ Mail(Q) = Mail(P)
    \/ Mail(P) # <<>> /\ Skipped(P, Head(Mail(P))) /\ Mail(Q) = Tail(Mail(P))
    \/ \E m : ToSelf(m) /\ Mail(Q) = Append(Mail(P), m)
Quiet(P, Q) ==
    /\ Same(P, Q, {"told", "inq", "outq", "out", "ext"})
    /\ HasExt(Q) <=> HasExt(P)
    /\ P.ext = "exited" <=> Q.ext = "exited"
    /\ Q.ext = "open" => P.ext = "open"
    /\ Q.out = P.out \/ (Q.ext # "open" /\ \E k \in 0 .. Len(P.out) : Q.out = SubSeq(P.out, 1, k))
    /\ QuietMail(P, Q)

-----------------------------------------------------------------------------
(* Relays that are destroyed *)

\* A COM delete of relay o in U, which had connection c.
DeleteOf(P, U, w) ==
    /\ w.kind = "delete" /\ w.iid = "COM"
    /\ \E c \in P.conns : c.oid \in U \cap DOMAIN P.relay /\ P.relay[c.oid].pExtern /\ w.extid = c.extid

\* Q is P without the relays U.
Swept(P, Q, U) ==
    /\ Same(P, Q, {"relay", "objects", "conns", "extlinks", "out"})
    /\ DOMAIN Q.relay = DOMAIN P.relay \ U /\ \A x \in DOMAIN Q.relay : Q.relay[x] = P.relay[x]
    /\ DOMAIN Q.objects = DOMAIN P.objects \ {P.relay[o].localp : o \in {r \in U : P.relay[r].serves}}
    /\ \A x \in DOMAIN Q.objects : Q.objects[x] = P.objects[x]
    /\ Q.conns = {c \in P.conns : ~(c.oid \in U /\ P.relay[c.oid].pExtern)}
    /\ Q.extlinks = P.extlinks
    /\ \E t \in Seq(Written) : Q.out = P.out \o t /\ \A w \in Range(t) : DeleteOf(P, U, w)

\* Relays that can be destroyed have a connection as long as they have an Extern.
Connected(P, U) ==
    \A o \in U : /\ o \in DOMAIN P.relay
                 /\ P.relay[o].pExtern => /\ P.relay[o].localp # NoOid
                                          /\ \E c \in P.conns : c.oid = o

-----------------------------------------------------------------------------
(* What is written and read *)

\* What the server writes.
ServerOut(w, s, di) ==
    \/ w.extid = extid_COM /\ w.kind = "export"
    \/ \E o \in Oids :
        /\ w.extid = Key(o)
        /\ \/ w.kind = "reply" /\ w.iid = "R" /\ w.n \in DOMAIN s /\ s[w.n] = Proxy(o)
           \/ w.kind \in {"error", "delete"} /\ w.iid = "COM" /\ Proxy(o) \in di

\* What reading message m makes of P, and of the process that wrote it.
Comes(p, P, m, Q) ==
    \/ Q \in Closed(P)
    \/ TakesExport(p, P, m, Q)
    \/ m.iid = "COM" /\ Q = P /\ \A c \in P.conns : c.extid # m.extid
    \/ \E c : TakesKnown(p, P, m, c, Q)
    \/ IsExported(p, m.iid) /\ InRange(p, m.extid) /\ \E o : TakesNew(p, P, m, o, Q)
Given(S, m, R) == S.out # <<>> /\ m = Head(S.out) /\ Same(S, R, {"out"}) /\ R.out = Tail(S.out)

\* What the end of a round is: the queues, the Extern and the unused relays.
Rounds(p, P, R, G, U, Q) ==
    /\ P.ext # "exited" /\ P.inq = <<>>
    /\ Same(P, R, {"inq", "outq"}) /\ R.inq = P.outq /\ R.outq = <<>> /\ Mail(R) = Mail(P)
    /\ G = IF R.ext = "closed" THEN Extern_destroy(R) ELSE R
    /\ U = UnusedRelays(G)
    /\ Good(p, R, DOMAIN sent) /\ Good(p, G, DOMAIN sent)
    /\ \E f : Sweeps(p, G, U, f, MaxOid) /\ Q = f[MaxOid]

-----------------------------------------------------------------------------
(* The server *)

\* Only the client has proxies.
ServerIdle(P) == P.applinks = {} /\ P.interfaces = {}

\* The connection of relay r, if it has one, is of a proxy in E.
Of(P, r, E) ==
    \A d \in P.conns : d.oid = r => \E o \in Oids : Proxy(o) \in E /\ d.extid = Key(o)
\* The connection of relay r, if it has one, is that of the proxy of call n.
Routed(P, r, n, s) ==
    /\ n \in DOMAIN s
    /\ \E o \in Oids : s[n] = Proxy(o) /\ \A d \in P.conns : d.oid = r => d.extid = Key(o)
\* No message is yet taken for the object of relay r.
Fresh(P, r) == r \in DOMAIN P.relay => ~P.relay[r].pExtern
\* The relays that are to be made.
Waiting(P) == {m.dest : m \in {x \in Range(Mail(P)) : x.kind = "create"}}
Tied(P, r) == r \in Oids /\ (HasExt(P) => r \in P.extlinks)
Through(P, r, x) ==
    /\ Tied(P, r) /\ x \in Oids /\ r \notin Waiting(P)
    /\ r \in DOMAIN P.relay /\ P.relay[r].pExtern => P.relay[r].localp = x

\* The messages in the queues of the server; gone is dropped and died.
Creates(P, m) ==
    m.kind = "create" /\ m.src = Ext /\ m.iid = "COM" /\ Tied(P, m.dest) /\ Fresh(P, m.dest)
ExtCall(P, m, s, gone) ==
    /\ m.kind = "call" /\ m.iid \in Iface /\ m.src = Ext /\ Tied(P, m.dest)
    /\ Routed(P, m.dest, m.n, s)
    /\ HasExt(P) /\ s[m.n] \notin gone => \E d \in P.conns : d.oid = m.dest
ToObject(P, m, s, gone) ==
    /\ m.kind = "call" /\ m.iid \in Iface /\ Through(P, m.src, m.dest) /\ Fresh(P, m.dest)
    /\ Routed(P, m.src, m.n, s)
    /\ HasExt(P) /\ s[m.n] \notin gone => m.src \in DOMAIN P.relay /\ P.relay[m.src].pExtern
FromObject(P, m, s) ==
    m.kind = "reply" /\ m.iid = "R" /\ Through(P, m.dest, m.src) /\ Routed(P, m.dest, m.n, s)
ExtDelete(P, m, dr) ==
    m.kind = "delete" /\ m.iid = "COM" /\ m.src = Ext /\ Tied(P, m.dest) /\ Of(P, m.dest, dr)
ServerMail(P, m, s, dr, di) ==
    \/ Creates(P, m) \/ ExtCall(P, m, s, dr \cup di) \/ ToObject(P, m, s, dr \cup di)
    \/ FromObject(P, m, s) \/ ExtDelete(P, m, dr) \/ ToSelf(m)

\* A relay is made ahead of the first message for it, and after those for an
\* object that had its oid.
First(m, r) == m.kind = "call" /\ m.src = Ext /\ m.dest = r /\ IsExported("server", m.iid)
Apart(a, b) == b.dest = a.dest => b.kind # "create" /\ (b.kind = "call" => b.src = Ext)
Paired(M) ==
    \A i \in DOMAIN M : M[i].kind = "create" =>
        /\ i + 1 \in DOMAIN M /\ First(M[i + 1], M[i].dest)
        /\ \A j \in DOMAIN M : i < j => Apart(M[i], M[j])

ServerRelay(P, r, dr) ==
    LET q == P.relay[r] IN
    /\ q.pExtern => ~q.unused /\ (q.localp = NoOid \/ q.serves) /\ \E d \in P.conns : d.oid = r
    /\ q.serves => /\ q.localp \in Oids \ P.extlinks
                   /\ \A x \in DOMAIN P.relay : P.relay[x].serves /\ P.relay[x].localp = q.localp => x = r
    /\ q.unused => Of(P, r, dr)
    /\ q.localp = NoOid \/ q.serves \/ q.unused => r \in P.extlinks
Serving(P, x, s, dr, di) ==
    /\ Servers(P, x) # {}
    /\ P.objects[x].unused => \A r \in Servers(P, x) : Of(P, r, di)
    /\ \A n \in Range(P.objects[x].calls) : n \in DOMAIN s /\ (s[n] \notin dr \cup di =>
            \E r \in Servers(P, x), o \in Oids : s[n] = Proxy(o) /\ [oid |-> r, extid |-> Key(o)] \in P.conns)

ServerRelays(P, dr) ==
    /\ ServerIdle(P) /\ \A d \in P.conns : \E o \in Oids : d.extid = Key(o)
    /\ ~HasExt(P) => P.conns = {} /\ P.extlinks = {} /\ DOMAIN P.relay = {} /\ DOMAIN P.objects = {}
    /\ \A r \in DOMAIN P.relay : ServerRelay(P, r, dr)
ServerCore(P, s, dr, di) ==
    /\ ServerRelays(P, dr)
    /\ \A x \in DOMAIN P.objects : Serving(P, x, s, dr, di)
    /\ \A m \in Range(Mail(P)) : ServerMail(P, m, s, dr, di)
    /\ Paired(Mail(P))
    /\ \A w \in Range(P.out) : ServerOut(w, s, di)
\* The object of a new relay is made by the next message.
Awaits(P) ==
    \A r \in DOMAIN P.relay : P.relay[r].pExtern /\ P.relay[r].localp = NoOid =>
        Mail(P) # <<>> /\ First(Head(Mail(P)), r)
ServerOK(P, s, dr, di) == ServerCore(P, s, dr, di) /\ Awaits(P)

-----------------------------------------------------------------------------
(* Steps of the server *)

\* Q has the connections, relays and objects of P.
Alike(P, Q) ==
    /\ Q.conns = P.conns /\ Q.relay = P.relay /\ Q.objects = P.objects /\ Q.applinks = P.applinks
    /\ Q.interfaces = P.interfaces /\ Q.extlinks = P.extlinks /\ (HasExt(Q) <=> HasExt(P))

\* Q has the relay r, or has it changed.  A relay with an Extern had it before,
\* or is new and nothing is on its way to an object of that oid or from its own.
Unused(P, r) ==
    /\ r \notin Waiting(P)
    /\ \A m \in Range(Mail(P)) :
        /\ m.kind = "call" => m.src # r /\ (m.src # Ext => m.dest # r)
        /\ m.kind = "reply" => m.dest # r
Rerouted(P, Q, r, dr) ==
    /\ Same(P, Q, {"relay"}) /\ HasExt(P) /\ r \in Oids
    /\ DOMAIN Q.relay = DOMAIN P.relay \cup {r}
    /\ \A x \in DOMAIN P.relay : x # r => Q.relay[x] = P.relay[x]
    /\ ServerRelay(Q, r, dr)
    /\ r \in DOMAIN P.relay /\ P.relay[r].serves =>
            Q.relay[r].serves /\ Q.relay[r].localp = P.relay[r].localp
    /\ Q.relay[r].pExtern => \/ /\ r \in DOMAIN P.relay /\ P.relay[r].pExtern
                                /\ Q.relay[r].localp = P.relay[r].localp
                             \/ Unused(P, r)
    /\ r \in DOMAIN P.relay /\ P.relay[r].pExtern => Q.relay[r].pExtern \/ Of(P, r, dr)

\* What is known when the first message m is taken off the queue of P, leaving T.
Delivered(P, T, m, s, dr, di) ==
    /\ Alike(P, T) /\ Good("server", T, DOMAIN s) /\ ServerCore(T, s, dr, di)
    /\ ServerCore(P, s, dr, di) /\ ServerMail(P, m, s, dr, di) /\ m \in Message(DOMAIN s)
    /\ Range(Mail(P)) = {m} \cup Range(Mail(T)) /\ Mail(T) \in Seq(Message(DOMAIN s))
    /\ m.kind = "create" =>
        /\ Mail(T) # <<>> /\ First(Head(Mail(T)), m.dest)
        /\ \A a \in Range(Mail(T)) : Apart(m, a)
    /\ \A r \in DOMAIN P.relay : P.relay[r].pExtern /\ P.relay[r].localp = NoOid => First(m, r)

\* Nothing is on its way to the object of a relay that is being made, or was
\* made and waits for its first message.
Clear(P, s, gone, r) ==
    \A a \in Range(Mail(P)) :
        /\ a.kind = "create" => a.dest # r
        /\ ToObject(P, a, s, gone) => a.src # r /\ a.dest # r
        /\ FromObject(P, a, s) => a.dest # r
\* The relay of a message, as COMRelay_COM_message of the server finds it.
Passes(P, m, s, gone) == ExtCall(P, m, s, gone) \/ ToObject(P, m, s, gone) \/ FromObject(P, m, s)
\* P with that relay: R.
Ready(P, T, m, s, dr, di, R, r) ==
    /\ ServerOK(R, s, dr, di) /\ HasExt(R) /\ m.dest \in Oids /\ Mail(R) = Mail(T)
    /\ R.conns = P.conns /\ R.extlinks = P.extlinks /\ r = R.relay[m.dest] /\ m.dest \in DOMAIN R.relay
    /\ r.pExtern => \/ ExtCall(P, m, s, dr \cup di) /\ r.serves
                    \/ FromObject(P, m, s) /\ r.localp = m.src
    /\ \A x \in DOMAIN R.relay : R.relay[x].pExtern => R.relay[x].localp # NoOid
\* The object x of N has taken call n.
Takes(P, N, x, n) ==
    /\ Same(P, N, {"objects"}) /\ DOMAIN N.objects = DOMAIN P.objects \cup {x}
    /\ \A y \in DOMAIN P.objects : y # x => N.objects[y] = P.objects[y]
    /\ N.objects[x].unused => x \in DOMAIN P.objects /\ P.objects[x].unused
    /\ \A k \in Range(N.objects[x].calls) :
            k = n \/ (x \in DOMAIN P.objects /\ k \in Range(P.objects[x].calls))

-----------------------------------------------------------------------------
(* What a step of the client does to its messages *)

\* The connection of o is left, but its relay has no Extern any more.
Cut(P, o) ==
    /\ HasExt(P) /\ \E d \in P.conns : d.oid = o
    /\ o \in DOMAIN P.relay => ~P.relay[o].pExtern

\* The first message is taken.
Shifts(P, Q) == Mail(P) # <<>> /\ Mail(Q) = Tail(Mail(P))

\* No call and no reply is written, and what was is lost only with the connection.
OutIdle(P, Q) ==
    \/ Q.out = P.out
    \/ Q.ext # "open" /\ \E k \in 0 .. Len(P.out) : Q.out = SubSeq(P.out, 1, k)
    \/ \E t \in Seq(Written) : Q.out = P.out \o t /\ \A w \in Range(t) : w.kind = "delete"

\* No call, reply or end is put into the queues, and while there is a
\* connection no call of a proxy that is not gone is lost.
MailIdle(P, Q, s, gone) ==
    \/ Mail(Q) = Mail(P)
    \/ /\ Shifts(P, Q)
       /\ Q.ext = "open" /\ Head(Mail(P)).kind = "call" => s[Head(Mail(P)).n] \in gone
    \/ \E a : ToSelf(a) /\ Mail(Q) = Append(Mail(P), a)
    \/ Mail(Q) = <<>> /\ Q.ext # "open"

Idles(P, Q, s, gone) == OutIdle(P, Q) /\ MailIdle(P, Q, s, gone)

\* A call leaves.
SendsCall(P, Q, m, s) ==
    /\ Shifts(P, Q) /\ m = Head(Mail(P)) /\ AppCall(P, m, s) /\ P.ext = "open"
    /\ Q.out = Append(P.out, [extid |-> Key(m.dest), kind |-> m.kind, iid |-> m.iid, n |-> m.n])

\* A reply goes on to the application.
PassesReply(P, Q, m, s) ==
    /\ Mail(P) # <<>> /\ m = Head(Mail(P)) /\ ExtReply(P, m, s)
    /\ Mail(Q) = Append(Tail(Mail(P)), Msg(m.dest, App, m.kind, m.iid, m.n)) /\ Q.out = P.out

\* It has it.
GetsReply(P, Q, m, s) ==
    Shifts(P, Q) /\ m = Head(Mail(P)) /\ AppReply(m, s) /\ Q.out = P.out

\* The application calls: n is the number of the call.
MakesCall(P, Q, o, i, n) ==
    o \in Oids /\ Mail(Q) = Append(Mail(P), Msg(App, o, "call", i, n)) /\ Q.out = P.out

\* A message that the server has written is for a relay.
ReadsFor(P, Q, w, o) ==
    /\ o \in Oids /\ w.extid = Key(o) /\ Q.out = P.out
    /\ Mail(Q) = Append(Mail(P), Msg(Ext, o, w.kind, w.iid, w.n))

\* What goes away is only what a delete ends.
CutBy(P, Q) ==
    \A o \in Oids : Cut(Q, o) =>
        \/ Cut(P, o)
        \/ Shifts(P, Q) /\ Head(Mail(P)).kind = "delete" /\ Head(Mail(P)).dest = o

ClientStep(P, Q) ==
    /\ Q.ext = "open" => P.ext = "open"
    /\ CutBy(P, Q)
    /\ \/ /\ Idles(P, Q, sent, dropped \cup died) /\ sent' = sent /\ proc'["server"] = proc["server"]
          /\ answers' = answers \/ \E a : a.kind = "error" /\ answers' = Append(answers, a)
       \/ /\ \E m : SendsCall(P, Q, m, sent) \/ PassesReply(P, Q, m, sent)
          /\ sent' = sent /\ answers' = answers /\ proc'["server"] = proc["server"]
       \/ /\ \E m : /\ GetsReply(P, Q, m, sent)
                    /\ answers' = Append(answers, [proc |-> "client", oid |-> m.src, kind |-> "reply", n |-> m.n])
          /\ sent' = sent /\ proc'["server"] = proc["server"]
       \/ /\ \E o, i : MakesCall(P, Q, o, i, Len(sent) + 1) /\ sent' = Append(sent, Proxy(o))
          /\ answers' = answers /\ proc'["server"] = proc["server"]
       \/ /\ \E w : /\ Given(proc["server"], w, proc'["server"])
                    /\ Idles(P, Q, sent, dropped \cup died) \/ \E o : ReadsFor(P, Q, w, o)
          /\ sent' = sent /\ answers' = answers

\* What a process that exits leaves.
Ceases(P, Q) ==
    /\ Q.ext = "exited" /\ Q.interfaces = {} /\ Q.conns = {} /\ Q.applinks = {} /\ Q.extlinks = {}
    /\ DOMAIN Q.relay = {} /\ DOMAIN Q.objects = {}
    /\ Mail(Q) = <<>> /\ \E k \in 0 .. Len(P.out) : Q.out = SubSeq(P.out, 1, k)

-----------------------------------------------------------------------------
(* What a step of the server does to its messages *)

\* The relay of the connection of proxy o, if there is one, has its Extern.
Open(P, o) ==
    \A d \in P.conns : d.extid = Key(o) /\ d.oid \in DOMAIN P.relay => P.relay[d.oid].pExtern

\* It had it before, unless the proxy is gone.
OpenBy(P, Q, gone) ==
    \A o \in Oids : HasExt(Q) /\ Proxy(o) \notin gone /\ Open(Q, o) => Open(P, o)

\* A call is lost only of a proxy that is gone, with the Extern, or at a relay
\* that has none.
CallLost(Q, m, s, gone) ==
    \/ s[m.n] \in gone
    \/ ~HasExt(Q)
    \/ m.src = Ext /\ \E o \in Oids : s[m.n] = Proxy(o) /\ ~Open(Q, o)

ServerMailIdle(P, Q, s, gone) ==
    \/ Mail(Q) = Mail(P)
    \/ Shifts(P, Q) /\ (Head(Mail(P)).kind = "call" => CallLost(Q, Head(Mail(P)), s, gone))
    \/ \E a : ToSelf(a) /\ Mail(Q) = Append(Mail(P), a)
    \/ Mail(Q) = <<>> /\ ~HasExt(Q)
ServerIdles(P, Q, s, gone) == OutIdle(P, Q) /\ ServerMailIdle(P, Q, s, gone)

\* An object tells of an error, the first of its proxy.
TellsError(P, Q, di) ==
    /\ Mail(Q) = Mail(P)
    /\ \E o \in Oids : \E n : /\ Proxy(o) \notin di
                              /\ Q.out = Append(P.out, [extid |-> Key(o), kind |-> "error", iid |-> "COM", n |-> n])

\* A relay passes a call to its object,
PassesCall(P, Q, m, s, gone) ==
    /\ Mail(P) # <<>> /\ m = Head(Mail(P)) /\ ExtCall(P, m, s, gone) /\ HasExt(P)
    /\ s[m.n] \notin gone => \E o \in Oids : s[m.n] = Proxy(o) /\ Open(P, o)
    /\ \E x \in Oids : Mail(Q) = Append(Tail(Mail(P)), Msg(m.dest, x, "call", m.iid, m.n))
    /\ Q.out = P.out

\* the object takes it, and may reply,
TakesCall(P, Q, m, s, gone) ==
    /\ Mail(P) # <<>> /\ m = Head(Mail(P)) /\ ToObject(P, m, s, gone) /\ HasExt(P)
    /\ \/ Mail(Q) = Tail(Mail(P))
       \/ Mail(Q) = Append(Tail(Mail(P)), Msg(m.dest, m.src, "reply", "R", m.n))
    /\ Q.out = P.out

\* and the reply leaves.
SendsReply(P, Q, m, s) ==
    /\ Shifts(P, Q) /\ m = Head(Mail(P)) /\ FromObject(P, m, s)
    /\ \E o \in Oids : Q.out = Append(P.out, [extid |-> Key(o), kind |-> "reply", iid |-> "R", n |-> m.n])

\* A message that the client has written is for a relay.
ReadsCall(P, Q, w) ==
    /\ Q.out = P.out
    /\ \E o \in Oids :
        \/ Mail(Q) = Append(Mail(P), Msg(Ext, o, w.kind, w.iid, w.n))
        \/ Mail(Q) = Append(Append(Mail(P), Msg(Ext, o, "create", "COM", 0)), Msg(Ext, o, w.kind, w.iid, w.n))

ServerStep(P, Q) ==
    /\ (Q.ext = "open" => P.ext = "open") /\ (HasExt(Q) => HasExt(P))
    /\ OpenBy(P, Q, dropped \cup died)
    /\ sent' = sent /\ answers' = answers
    /\ \/ /\ \/ ServerIdles(P, Q, sent, dropped \cup died)
             \/ TellsError(P, Q, died)
             \/ \E m : PassesCall(P, Q, m, sent, dropped \cup died) \/ SendsReply(P, Q, m, sent)
          /\ taken' = taken /\ proc'["client"] = proc["client"]
       \/ /\ \E m : TakesCall(P, Q, m, sent, dropped \cup died) /\ taken' = Append(taken, m.n)
          /\ proc'["client"] = proc["client"]
       \/ /\ P.ext = "open"
          /\ \E w : /\ Given(proc["client"], w, proc'["client"])
                    /\ \/ ServerIdles(P, Q, sent, dropped \cup died) /\ (w.kind = "call" => Q.ext # "open")
                       \/ ReadsCall(P, Q, w)
          /\ taken' = taken

-----------------------------------------------------------------------------
(* The end of an object is told before its relay is deleted *)

\* A deletion that comes before an error of the same relay or connection.
MailEnds == {p \in Queued \X Queued : p[1].kind = "delete" /\ p[2].kind = "error" /\ p[1].dest = p[2].dest}
OutEnds == {p \in Written \X Written : p[1].kind = "delete" /\ p[2].kind = "error" /\ p[1].extid = p[2].extid}

\* There is a message of a kind for relay o of the client, or for its connection.
Tells(P, kind, o) == \E m \in Range(Mail(P)) : m.kind = kind /\ m.dest = o
Says(W, kind, o) == \E w \in Range(W) : w.kind = kind /\ w.extid = Key(o)

\* Where the server has written W.
EndsOK(P, W, di) ==
    /\ Ordered(Mail(P), MailEnds) /\ Ordered(W, OutEnds)
    /\ \A o \in Oids : Tells(P, "delete", o) => ~Says(W, "error", o)
    /\ \A o \in Oids : Cut(P, o) => Proxy(o) \in di /\ ~Tells(P, "error", o) /\ ~Says(W, "error", o)

\* The client puts no end into its queues itself.
MailThins(P, Q) ==
    \/ Mail(Q) = Mail(P) \/ Mail(Q) = <<>>
    \/ Mail(P) # <<>> /\ Mail(Q) = Tail(Mail(P))
    \/ \E a : /\ a.kind \notin {"error", "delete"}
              /\ \/ Mail(Q) = Append(Mail(P), a)
                 \/ Mail(P) # <<>> /\ Mail(Q) = Append(Tail(Mail(P)), a)

\* The server ends what the client uses.
OutEndsMore(V, W, di) ==
    \/ W = V
    \/ \E k \in 0 .. Len(V) : W = SubSeq(V, 1, k)
    \/ \E t \in Seq(Written) : W = V \o t /\ \A w \in Range(t) : w.kind # "error"
    \/ \E w : /\ W = Append(V, w)
              /\ w.kind = "error" => \E o \in Oids : w.extid = Key(o) /\ Proxy(o) \notin di

-----------------------------------------------------------------------------
(* The invariant of what calls and replies go through *)

RoutesInv ==
    /\ RelaysInv
    /\ ClientOK(proc["client"], sent, dropped, died)
    /\ ServerOK(proc["server"], sent, dropped, died)
    /\ EndsOK(proc["client"], proc["server"].out, died)

Acts(p) == Loop(p) \/ Socket(p) \/ Program(p)

-----------------------------------------------------------------------------
(* The ways of calls and of replies as pipelines *)

\* The messages at each stage: for a call the application, the client's socket, the
\* relay of the server and its object; back for a reply.
Calls == {m \in Queued : m.kind = "call"}
RelayCalls == {m \in Calls : m.src = Ext}
ObjectCalls == {m \in Calls : m.src # Ext}
SentCalls == {w \in Written : w.kind = "call"}
Replies == {m \in Queued : m.kind = "reply"}
RelayReplies == {m \in Replies : m.src = Ext}
AppReplies == {m \in Replies : m.src # Ext}
SentReplies == {w \in Written : w.kind = "reply"}
Answers == {a \in [proc : Procs, oid : Nat, kind : Kinds, n : Nat] : a.kind = "reply"}

CallsWay(tk, S, C) ==
    <<Order(tk), Stage(Mail(S), ObjectCalls), Stage(Mail(S), RelayCalls), Stage(C.out, SentCalls),
      Stage(Mail(C), Calls)>>
RepliesWay(an, S, C) ==
    <<Stage(an, Answers), Stage(Mail(C), AppReplies), Stage(Mail(C), RelayReplies),
      Stage(S.out, SentReplies), Stage(Mail(S), Replies)>>

\* The proxies for which no call is lost up to a stage.
Reaches(S, C, k, o) ==
    /\ k > 1 => HasExt(S)
    /\ k > 2 => Open(S, o)
    /\ k > 3 => S.ext = "open"
    /\ k > 4 => C.ext = "open"
Reach(S, C) == [k \in Places |-> {Proxy(o) : o \in {x \in Oids : Reaches(S, C, k, x)}}]

-----------------------------------------------------------------------------
(* Steps, seen from a stage *)

Typed(P) == Mail(P) \in Seq(Queued) /\ P.out \in Seq(Written)

\* A process that is read from, or not.
Unmoved(S, T) ==
    /\ Mail(T) = Mail(S) /\ T.ext = S.ext /\ (HasExt(T) <=> HasExt(S)) /\ T.conns = S.conns /\ T.relay = S.relay

\* The queues lose messages, and no call or reply is posted.
Thins(P, Q) ==
    \/ Mail(Q) = Mail(P) \/ Shifts(P, Q) \/ Mail(Q) = <<>>
    \/ \E a : ToSelf(a) /\ Mail(Q) = Append(Mail(P), a)

-----------------------------------------------------------------------------
(* Calls and replies in order *)

CallsOK(tk, S, C, s, gone) ==
    /\ InOrder(CallsWay(tk, S, C), s, gone)
    /\ Complete(CallsWay(tk, S, C), Reach(S, C), s, gone)

RepliesOK(an, tk, S, C, s, gone) ==
    /\ InOrder(RepliesWay(an, S, C), s, gone)
    /\ Within(RepliesWay(an, S, C), 5) \subseteq Range(tk)

\* An answer is for the proxy of its call, or for one whose object has ended.
Answered(a, s, di) ==
    /\ a.proc = "client" /\ a.kind \in {"reply", "error"}
    /\ a.kind = "reply" => a.n \in DOMAIN s /\ s[a.n] = Proxy(a.oid)
    /\ a.kind = "error" /\ a.oid # Ext => Proxy(a.oid) \in di

WaysInv ==
    /\ RoutesInv
    /\ CallsOK(taken, proc["server"], proc["client"], sent, dropped \cup died)
    /\ RepliesOK(answers, taken, proc["server"], proc["client"], sent, dropped \cup died)
    /\ \A a \in Range(answers) : Answered(a, sent, died)

=============================================================================
