---------------------------- MODULE ExternServer -----------------------------
(***************************************************************************)
(* ExternServer: the object that accepts connections on a socket and makes *)
(* an Extern for each (xsrv.c).                                            *)
(*                                                                         *)
(* One ExternServer with its owner, its Timer, the Externs of the accepted *)
(* clients, the two message queues and the socket.  The Timer is what      *)
(* TimerWatch shows it to be: a readable socket fires it once, and it is   *)
(* destroyed in the idle before its answer is delivered.  Of an Extern     *)
(* there is what its creator sees: that it is opened, connected, fails and *)
(* ends.                                                                   *)
(***************************************************************************)
EXTENDS Integers, Sequences, Functions, SeqFilter

CONSTANTS
    Client,         \* clients, each of which connects once
    Conduct,        \* what the owner does: "bind", "pass", "close", "drop";
                    \*   what goes wrong: "accept", "extern"
    MaxOpens        \* bound: sockets that the owner opens

NoFd == 0
Owner == "owner"

ASSUME ServerAssumption ==
    /\ Client \cap {Owner, "server", "timer"} = {}
    /\ Conduct \subseteq {"bind", "pass", "close", "drop", "accept", "extern"}
    /\ MaxOpens \in Nat

VARIABLES
    srv,            \* the ExternServer; alive says that the object exists
    owned,          \* the owner has its proxy
    conn,           \* for each client, its connection
    backlog,        \* the clients that the socket has not accepted yet, in order
    inq, outq,      \* the message queues
    pathvec,        \* the fds with a local socket path
    bound,          \*   and the fds whose path is in the file system
    opens,          \* sockets opened so far; the fd of the last one
    aborted,        \* an assertion has failed
    told,           \* history: clients that the owner was told of
    opened,         \*   fds that ExternServer_open was called with
    causes          \*   what has asked the server to end

vars == <<srv, owned, conn, backlog, inq, outq, pathvec, bound, opens, aborted,
          told, opened, causes>>
clients == <<conn, backlog>>
queues == <<inq, outq>>
socket == <<pathvec, bound, opens>>
history == <<told, opened, causes>>

Msg(dest, kind, arg) == [dest |-> dest, kind |-> kind, arg |-> arg]
Message ==
    [dest : {"server"}, kind : {"open"}, arg : Nat \X BOOLEAN]
    \cup [dest : {"server"}, kind : {"close", "timer"}, arg : {Owner}]
    \cup [dest : {"server"}, kind : {"connected"}, arg : Client]
    \cup [dest : {"timer"}, kind : {"watch"}, arg : {Owner}]
    \cup [dest : Client, kind : {"open"}, arg : {Owner}]
    \cup [dest : {Owner} \cup Client, kind : {"connected"}, arg : Client]

\* A connection is "out" before the client connects, "backlog" until accepted,
\* "asked" until PExtern_open is delivered, then "open"; "told" once the Extern
\* has sent ExternR_connected; "closing" when marked unused; "closed"; "leaked"
\* if the accepted fd is left to nobody.
States == {"out", "backlog", "asked", "open", "told", "closing", "closed", "leaked"}

TypeOK ==
    /\ srv \in [alive : BOOLEAN, fd : Nat, cwe : BOOLEAN, unused : BOOLEAN,
                reply : {Owner} \cup Client, pconn : Seq(Client),
                timer : {"none", "watching", "fired"}]
    /\ owned \in BOOLEAN /\ aborted \in BOOLEAN /\ opens \in 0 .. MaxOpens
    /\ conn \in [Client -> States] /\ backlog \in Seq(Client)
    /\ inq \in Seq(Message) /\ outq \in Seq(Message)
    /\ bound \subseteq 1 .. opens /\ pathvec \subseteq 1 .. opens
    /\ told \in Seq(Client) /\ opened \subseteq 1 .. opens
    /\ causes \subseteq {"close", "accept", "drop"}

-----------------------------------------------------------------------------
(* The owner *)

Post(m) == outq' = Append(outq, m)

\* PExternServer_bind: the socket of a local path is registered for removal.
\* bind fails while the path exists.
PExternServer_bind ==
    /\ ~aborted /\ "bind" \in Conduct /\ owned /\ opens < MaxOpens /\ bound = {}
    /\ opens' = opens + 1
    /\ pathvec' = pathvec \cup {opens'} /\ bound' = bound \cup {opens'}
    /\ Post(Msg("server", "open", <<opens', FALSE>>))
    /\ UNCHANGED <<srv, owned, clients, inq, aborted, history>>

\* PExternServer_open with a socket that systemd has passed, and close_when_empty.
PExternServer_open ==
    /\ ~aborted /\ "pass" \in Conduct /\ owned /\ opens < MaxOpens
    /\ opens' = opens + 1
    /\ Post(Msg("server", "open", <<opens', TRUE>>))
    /\ UNCHANGED <<srv, owned, clients, inq, pathvec, bound, aborted, history>>

PExternServer_close ==
    /\ ~aborted /\ "close" \in Conduct /\ owned /\ opens > 0 /\ "close" \notin causes
    /\ Post(Msg("server", "close", Owner))
    /\ causes' = causes \cup {"close"}
    /\ UNCHANGED <<srv, owned, clients, inq, socket, aborted, told, opened>>

-----------------------------------------------------------------------------
(* The end of the server *)

NoServer == [alive |-> FALSE, fd |-> NoFd, cwe |-> FALSE, unused |-> FALSE,
             reply |-> Owner, pconn |-> <<>>, timer |-> "none"]

\* The connections after their links are erased: an Extern closes its fd, and
\* the fd in a PExtern_open that is not delivered stays open.
Cut(c) == [k \in Client |->
    IF k \notin Range(srv.pconn) THEN c[k] ELSE IF c[k] = "asked" THEN "leaked" ELSE "closed"]

\* Mutant: the path is forgotten and not unlinked.
ForgetName(fd) == bound' = bound /\ pathvec' = pathvec \ {fd}

\* ExternServer_register_local_name without a path unlinks that of fd.
ExternServer_register_local_name(fd) ==
    /\ bound' = bound \ (pathvec \cap {fd})
    /\ pathvec' = pathvec \ {fd}

\* ExternServer_destroy, and the removal of the links to its Externs and Timer.
ExternServer_destroy ==
    /\ ExternServer_register_local_name(srv.fd)
    /\ srv' = NoServer /\ conn' = Cut(conn)

\* casycom_destroy_proxy by the owner.
OwnerDrops ==
    /\ ~aborted /\ "drop" \in Conduct /\ owned /\ opens > 0
    /\ owned' = FALSE /\ causes' = causes \cup {"drop"}
    /\ IF srv.alive THEN ExternServer_destroy ELSE UNCHANGED <<srv, conn, pathvec, bound>>
    /\ UNCHANGED <<backlog, queues, opens, aborted, told, opened>>

-----------------------------------------------------------------------------
(* The server's messages *)

\* ExternServer_create, at the first message.
Created(m) ==
    IF srv.alive THEN srv
    ELSE [NoServer EXCEPT !.alive = TRUE,
                          !.reply = IF m.kind = "connected" THEN m.arg ELSE Owner]

Delivers(dest, kind) ==
    /\ ~aborted /\ inq # <<>> /\ Head(inq).dest = dest /\ Head(inq).kind = kind
    /\ inq' = Tail(inq)

\* Mutant: the server waits again only if nobody came.
WaitWhenNobody(new, fails) == IF new # <<>> THEN <<>> ELSE <<Msg("timer", "watch", Owner)>>
WaitNext(new, fails) == IF fails THEN <<>> ELSE <<Msg("timer", "watch", Owner)>>

\* ExternServer_TimerR_timer of server s: an Extern for each client that waits,
\* until accept fails.  If not because nobody is left (EAGAIN), that is an error,
\* which ExternServer_error leaves to the owner; this owner handles it.
Accept(s) ==
    \E k \in 0 .. Len(backlog), fails \in BOOLEAN :
        LET new == SubSeq(backlog, 1, k)
            asks == [i \in DOMAIN new |-> Msg(new[i], "open", Owner)]
        IN
        /\ IF fails THEN "accept" \in Conduct ELSE k = Len(backlog)
        /\ backlog' = SubSeq(backlog, k + 1, Len(backlog))
        /\ conn' = [c \in Client |-> IF c \in Range(new) THEN "asked" ELSE conn[c]]
        /\ srv' = [s EXCEPT !.pconn = @ \o new, !.unused = @ \/ fails]
        /\ outq' = outq \o asks \o WaitNext(new, fails)
        /\ causes' = IF fails THEN causes \cup {"accept"} ELSE causes

\* The assertion that the server has no socket yet, and its first accept.
ExternServer_ExternServer_open ==
    LET s == Created(Head(inq))
        fd == Head(inq).arg[1]
    IN
    /\ Delivers("server", "open") /\ owned
    /\ aborted' = (s.fd # NoFd)
    /\ IF aborted' THEN UNCHANGED <<srv, clients, outq, causes>>
                   ELSE Accept([s EXCEPT !.fd = fd, !.cwe = Head(inq).arg[2]])
    /\ opened' = opened \cup {fd}
    /\ UNCHANGED <<owned, socket, told>>

\* The assertion that the answer is for the server's socket.
ExternServer_TimerR_timer ==
    LET s == Created(Head(inq)) IN
    /\ Delivers("server", "timer") /\ owned
    /\ aborted' = (s.fd = NoFd)
    /\ IF aborted' THEN UNCHANGED <<srv, clients, outq, causes>> ELSE Accept(s)
    /\ UNCHANGED <<owned, socket, told, opened>>

\* The owner does not handle the error of accept: casycom_forward_error empties
\* the queue and quits, and casycom_reset destroys all that the process has.
ErrorUnhandled ==
    LET opening == Head(inq).kind = "open"
        fd == IF opening THEN Head(inq).arg[1] ELSE srv.fd
    IN
    /\ ~aborted /\ owned /\ "accept" \in Conduct /\ inq # <<>>
    /\ Head(inq).dest = "server" /\ Head(inq).kind \in {"open", "timer"}
    /\ opening <=> srv.fd = NoFd
    /\ ExternServer_register_local_name(fd)
    /\ srv' = NoServer /\ owned' = FALSE
    /\ conn' = [c \in Client |-> "closed"] /\ backlog' = <<>>
    /\ inq' = <<>> /\ outq' = <<>>
    /\ opened' = IF opening THEN opened \cup {fd} ELSE opened
    /\ causes' = causes \cup {"accept"}
    /\ UNCHANGED <<opens, aborted, told>>

ExternServer_ExternServer_close ==
    /\ Delivers("server", "close") /\ owned
    /\ srv' = [Created(Head(inq)) EXCEPT !.unused = TRUE]
    /\ UNCHANGED <<owned, clients, outq, socket, aborted, history>>

ExternServer_ExternR_connected ==
    /\ Delivers("server", "connected") /\ owned
    /\ srv' = Created(Head(inq))
    /\ Post(Msg(srv'.reply, "connected", Head(inq).arg))
    /\ UNCHANGED <<owned, clients, socket, aborted, history>>

\* message addressed to object deleted after sending
DropMessage ==
    /\ ~aborted /\ inq # <<>> /\ inq' = Tail(inq)
    /\ \/ Head(inq).dest = "server" /\ ~owned
       \/ Head(inq).dest = "timer" /\ ~srv.alive
       \/ Head(inq).dest \in Client \ Range(srv.pconn)
    /\ UNCHANGED <<srv, owned, clients, outq, socket, aborted, history>>

TimerWatches ==
    /\ Delivers("timer", "watch") /\ srv.alive
    /\ srv' = [srv EXCEPT !.timer = "watching"]
    /\ UNCHANGED <<owned, clients, outq, socket, aborted, history>>

OwnerTold ==
    /\ Delivers(Owner, "connected")
    /\ told' = Append(told, Head(inq).arg)
    /\ UNCHANGED <<srv, owned, clients, outq, socket, aborted, opened, causes>>

-----------------------------------------------------------------------------
(* Clients and their Externs *)

Connects(c) ==
    /\ ~aborted /\ conn[c] = "out" /\ opens > 0
    /\ conn' = [conn EXCEPT ![c] = "backlog"] /\ backlog' = Append(backlog, c)
    /\ UNCHANGED <<srv, owned, queues, socket, aborted, history>>

\* Extern_Extern_open for the server's end.
ExternOpens(c) ==
    /\ Delivers(c, "open") /\ c \in Range(srv.pconn)
    /\ conn' = [conn EXCEPT ![c] = "open"]
    /\ UNCHANGED <<srv, owned, backlog, outq, socket, aborted, history>>

\* Extern_COM_export
ExternConnected(c) ==
    /\ ~aborted /\ conn[c] = "open"
    /\ conn' = [conn EXCEPT ![c] = "told"]
    /\ Post(Msg("server", "connected", c))
    /\ UNCHANGED <<srv, owned, backlog, inq, socket, aborted, history>>

\* The client is gone or sends what is invalid: Extern_Extern_close, and
\* ExternServer_error, which handles the error of a connection in pconn; any
\* other error would go on to the owner.
ExternEnds(c) ==
    /\ ~aborted /\ "extern" \in Conduct /\ conn[c] \in {"open", "told"}
    /\ c \in Range(srv.pconn)
    /\ conn' = [conn EXCEPT ![c] = "closing"]
    /\ UNCHANGED <<srv, owned, backlog, queues, socket, aborted, history>>

-----------------------------------------------------------------------------
(* The end of a round *)

Closing == {c \in Client : conn[c] = "closing"}

\* Mutant: the record of the connection is kept.
DestroyedKeepsRecord(s, gone) ==
    [s EXCEPT !.unused = @ \/ (s.cwe /\ Range(s.pconn) \subseteq gone)]

\* Mutant: close_when_empty is not looked at.
DestroyedClosesAlways(s, gone) ==
    LET left == Filter(s.pconn, Client \ gone)
    IN [s EXCEPT !.pconn = left, !.unused = @ \/ left = <<>>]

\* ExternServer_object_destroyed for each Extern in gone, or for the Timer.
ExternServer_object_destroyed(s, gone) ==
    LET left == Filter(s.pconn, Client \ gone)
    IN [s EXCEPT !.pconn = left, !.unused = @ \/ (left = <<>> /\ s.cwe)]

\* casycom_destroy_unused_objects: the server if it is unused; its Timer, if it
\* has fired; its Externs.  What they tell the server may make it unused too.
Swept ==
    LET fired == srv.alive /\ srv.timer = "fired"
        s1 == IF fired THEN ExternServer_object_destroyed([srv EXCEPT !.timer = "none"], {})
                       ELSE srv
    IN IF s1.alive /\ ~s1.unused /\ Closing # {}
       THEN ExternServer_object_destroyed(s1, Closing) ELSE s1

\* casycom_do_message_queues exchanges the queues; casycom_idle destroys unused
\* objects and runs the Timers, of which the server's fires if a client waits.
EndRound ==
    LET fires == ~Swept.unused /\ Swept.timer = "watching" /\ backlog # <<>>
    IN
    /\ ~aborted /\ inq = <<>>
    /\ outq # <<>> \/ srv.unused \/ srv.timer = "fired" \/ Closing # {} \/ fires
    /\ inq' = outq
    /\ outq' = IF fires THEN <<Msg("server", "timer", Owner)>> ELSE <<>>
    /\ IF Swept.alive /\ Swept.unused
       THEN ExternServer_destroy
       ELSE /\ srv' = IF fires THEN [Swept EXCEPT !.timer = "fired"] ELSE Swept
            /\ conn' = [c \in Client |-> IF c \in Closing THEN "closed" ELSE conn[c]]
            /\ UNCHANGED <<pathvec, bound>>
    /\ UNCHANGED <<owned, backlog, opens, aborted, history>>

-----------------------------------------------------------------------------
(* The specification *)

Init ==
    /\ srv = NoServer /\ owned = TRUE
    /\ conn = [c \in Client |-> "out"] /\ backlog = <<>>
    /\ inq = <<>> /\ outq = <<>>
    /\ pathvec = {} /\ bound = {} /\ opens = 0 /\ aborted = FALSE
    /\ told = <<>> /\ opened = {} /\ causes = {}

Loop ==
    \/ ExternServer_ExternServer_open \/ ExternServer_TimerR_timer \/ ErrorUnhandled
    \/ ExternServer_ExternServer_close \/ ExternServer_ExternR_connected
    \/ DropMessage \/ TimerWatches \/ OwnerTold \/ EndRound
    \/ \E c \in Client : ExternOpens(c) \/ ExternConnected(c)

OwnerActs == PExternServer_bind \/ PExternServer_open \/ PExternServer_close \/ OwnerDrops

Next == Loop \/ OwnerActs \/ \E c \in Client : Connects(c) \/ ExternEnds(c)

Spec == Init /\ [][Next]_vars
FairSpec == Spec /\ WF_vars(Loop)

-----------------------------------------------------------------------------
(* Properties *)

Listening == srv.alive /\ srv.fd # NoFd /\ ~aborted
Queued(dest, kind) ==
    \E m \in Range(inq) \cup Range(outq) : m.dest = dest /\ m.kind = kind

\* pconn has each accepted connection that has not ended, once, and no other,
\* whatever ended it: an error in one of them is then the server's to handle.
Tracked ==
    /\ IsInjective(srv.pconn)
    /\ Range(srv.pconn) = {c \in Client : conn[c] \in {"asked", "open", "told", "closing"}}

\* ExternServer keeps account of its connections.
ConnectionsSound == TypeOK /\ Tracked

\* A server with a socket that has not been asked to end is about to look at the
\* socket: its Timer watches it, or a request or an answer is on its way.
NotDeaf ==
    Listening /\ ~srv.unused
        => srv.timer = "watching" \/ Queued("timer", "watch") \/ Queued("server", "timer")

\* The path of a socket is in the file system only while the server that was
\* opened with it exists, or before it is opened.
PathRemoved == \A fd \in bound \cap opened : aborted \/ (srv.alive /\ srv.fd = fd)

\* A server that is to listen on does not end because connections come and go:
\* it ends when its owner says so or when accept fails.
ServesOn == [][srv.alive /\ ~srv.cwe /\ ~srv'.alive => causes' # {}]_vars

\* While the server listens, no client is left waiting: in the end the owner has
\* been told of every client that came and whose connection has not ended.
ClientServed ==
    <>[](Listening => \A c \in Client :
            c \in Range(told) \/ conn[c] \in {"out", "closing", "closed", "leaked"})

\* A server that closes when empty ends when its last connection has, if no
\* other is accepted before.
EmptyCloses ==
    (Listening /\ srv.cwe /\ Closing # {} /\ Range(srv.pconn) \subseteq Closing)
        ~> (~Listening \/ ~(Range(srv.pconn) \subseteq Closing))

\* The server ends when it should, and only then.
EndsWhenDue == ServesOn /\ EmptyCloses

-----------------------------------------------------------------------------
(* Properties the code does not have *)

\* The assertions of ExternServer hold.
AssertsHold == ~aborted

\* No accepted connection is left open without an Extern.
NoneLeaked == \A c \in Client : conn[c] # "leaked"

\* The owner is told of every client also by a server that it opens after the
\* first was closed.
ServedAgain == Listening => srv.reply = Owner
=============================================================================
