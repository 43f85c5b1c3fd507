--------------------------- MODULE ExternProtocol ----------------------------
(***************************************************************************)
(* Objects used from another process: the Extern at each end of a socket   *)
(* and the COMRelays that stand for the objects of the other side          *)
(* (xcom.c).                                                               *)
(*                                                                         *)
(* Both processes run the same code.  A process is a record, and what the  *)
(* code does in it is an operator from records to records; an action       *)
(* applies one of them.  Of the link map only the links of these objects   *)
(* are kept: those of the application, of the Extern and of the relays.    *)
(* The stream is the FIFO that ExternStream is shown to be.                *)
(***************************************************************************)
EXTENDS Integers, Sequences, SequencesExt, FiniteSetsExt, Functions

CONSTANTS
    Iface,          \* interfaces of served objects
    Exports,        \* for each process, the list given to Extern_open
    Imports,        \* for each process, its imported interfaces
    Begins,         \* pairs <<i, j>>: the name of i begins with the name of j
    Conduct,        \* what each program does of: "reply", "die", "fail", "drop", "close", "exit"
    MaxOid,         \* bounds: the oids,
    MaxCalls,       \*   the calls made through proxies,
    MaxEnds         \*   proxies dropped, objects and connections ended by programs

Procs == {"client", "server"}
Other(p) == IF p = "client" THEN "server" ELSE "client"

ASSUME ProtocolAssumption ==
    /\ Exports \in [Procs -> Seq(Iface)] /\ Imports \in [Procs -> SUBSET Iface]
    /\ Begins \subseteq Iface \X Iface /\ \A i \in Iface : <<i, i>> \in Begins
    /\ Conduct \in [Procs -> SUBSET {"reply", "die", "fail", "drop", "close", "exit"}]
    /\ {"R", "COM"} \cap Iface = {}
    /\ MaxOid \in Nat /\ MaxCalls \in Nat /\ MaxEnds \in Nat

NoOid == 0
App == 1
Ext == 2
Oids == 3 .. MaxOid

\* extid_ClientBase and extid_ServerBase, extid_ClientLast and extid_ServerLast.
oid_Last == MaxOid + 1
extid_COM == 0
extid_Base(p) == IF p = "client" THEN extid_COM ELSE oid_Last + 1
extid_Last(p) == extid_Base(p) + oid_Last

\* A message in the queues, or with an extid on the socket; n is the call it
\* makes, answers or, as an error, reports.
Kinds == {"create", "call", "reply", "error", "delete", "export", "connected", "close"}
Msg(src, dest, kind, iid, n) ==
    [src |-> src, dest |-> dest, kind |-> kind, iid |-> iid, n |-> n]

VARIABLES
    proc,           \* the two processes
    sent,           \* history: the proxy, as <<process, oid>>, of each call
    taken,          \*   the calls that objects have taken
    replied,        \*   the calls that objects have replied to
    answers,        \*   what applications were told: [proc, oid, kind, n]
    dropped,        \*   the proxies that were destroyed
    died,           \*   the proxies whose object destroyed itself or failed
    lost,           \*   messages that relays had no connection for
    refused         \*   messages that closed a connection

vars == <<proc, sent, taken, replied, answers, dropped, died, lost, refused>>
history == <<sent, taken, replied, answers, dropped, died, lost, refused>>


\* Messages between objects, and on the socket.
Queued == [src : Nat, dest : Nat, kind : Kinds, iid : Iface \cup {"R", "COM"}, n : Nat]
Written == [extid : Nat, kind : Kinds, iid : Iface \cup {"R", "COM"}, n : Nat]

\* A process has
\*   ext: the state of its Extern; a closed one is destroyed in the next idle
\*   told: the application has received ExternR_connected
\*   interfaces: info.interfaces
\*   conns: the connections, an oid and an extid each
\*   applinks, extlinks: the oids to which application and Extern have proxies
\*   relay: its COMRelays, by oid; serves says that localp is to an exported
\*       interface, created for a message of the other side
\*   objects: the objects of such proxies, by oid
\*   inq, outq: its message queues
\*   out: outgoing, and what the other side has not read yet
Relay == [localp : 0 .. MaxOid, serves : BOOLEAN, pExtern : BOOLEAN, unused : BOOLEAN]
Object == [calls : Seq(Nat), unused : BOOLEAN]

IsProcess(P) ==
    /\ P.ext \in {"open", "closed", "gone", "exited"} /\ P.told \in BOOLEAN
    /\ P.interfaces \subseteq Iface
    /\ P.conns \subseteq [oid : 0 .. MaxOid, extid : Nat]
    /\ P.applinks \subseteq Oids /\ P.extlinks \subseteq 0 .. MaxOid
    /\ DOMAIN P.relay \subseteq Oids /\ \A o \in DOMAIN P.relay : P.relay[o] \in Relay
    /\ DOMAIN P.objects \subseteq Oids /\ \A o \in DOMAIN P.objects : P.objects[o] \in Object
    /\ P.inq \in Seq(Queued) /\ P.outq \in Seq(Queued) /\ P.out \in Seq(Written)

TypeOK ==
    /\ DOMAIN proc = Procs /\ \A p \in Procs : IsProcess(proc[p])
    /\ sent \in Seq(Procs \X Oids) /\ taken \in Seq(DOMAIN sent)
    /\ answers \in Seq([proc : Procs, oid : Nat, kind : Kinds, n : Nat])
    /\ replied \subseteq DOMAIN sent
    /\ dropped \subseteq Procs \X Oids /\ died \subseteq Procs \X Oids
    /\ lost \subseteq [proc : Procs, kind : Kinds, n : Nat]
    /\ refused \subseteq [proc : Procs, kind : Kinds, n : Nat]

-----------------------------------------------------------------------------
(* Links and queues *)

\* The oids that have links, and those casycom_create_proxy chooses the first of.
Linked(P) == P.applinks \cup P.extlinks \cup {P.relay[o].localp : o \in DOMAIN P.relay}
Free(P) == Oids \ Linked(P)

Post(P, m) == [P EXCEPT !.outq = Append(@, m)]

\* f with v at x.
With(f, x, v) == [y \in DOMAIN f \cup {x} |-> IF y = x THEN v ELSE f[y]]

\* Objects made for an exported interface, and the other destinations: links
\* to the application and the Extern aside, they are of interfaces that only
\* the default class, COMRelay, has.
Servers(P, o) == {r \in DOMAIN P.relay : P.relay[r].serves /\ P.relay[r].localp = o}
IsRelay(P, o) == o \in Linked(P) \cap Oids /\ Servers(P, o) = {}

-----------------------------------------------------------------------------
(* Extern *)

\* Extern_Extern_close.  Messages that have not left outgoing are lost, and
\* the other side reads those before them.
Closed(P) == {[P EXCEPT !.ext = "closed", !.out = SubSeq(@, 1, k)] : k \in 0 .. Len(P.out)}

Extern_COMConn_by_oid(P, oid) == {c \in P.conns : c.oid = oid}

\* Mutant: the search stops at a connection whatever its extid.
FirstConn(P, extid) == P.conns
Extern_COMConn_by_extid(P, extid) == {c \in P.conns : c.extid = extid}

\* Mutant: the extid comes from the source of the message.
ExtidOfSource(p, oid) == App + extid_Base(p)
NewExtid(p, oid) == oid + extid_Base(p)

\* Extern_queue_outgoing_message.  A COM delete ends the connection of its
\* relay; the link from the Extern to the relay stays.
Outgoing(p, P, oid, kind, iid, n) ==
    LET found == Extern_COMConn_by_oid(P, oid)
        conn == IF found = {} THEN [oid |-> oid, extid |-> NewExtid(p, oid)]
                              ELSE CHOOSE c \in found : TRUE
    IN [P EXCEPT
        !.conns = IF kind = "delete" THEN @ \ {conn} ELSE @ \cup {conn},
        !.extlinks = IF found = {} THEN @ \cup {oid} ELSE @,
        !.out = IF P.ext = "open"
                THEN Append(@, [extid |-> conn.extid, kind |-> kind, iid |-> iid, n |-> n])
                ELSE @]

\* Extern_COM_export.  Only the first name of the list is found: the others
\* are compared with the comma before them.  A name is found by its beginning.
Extern_COM_export(p, P) ==
    LET list == Exports[Other(p)]
        found == {i \in Imports[p] : list # <<>> /\ <<i, list[1]>> \in Begins}
    IN Post([P EXCEPT !.interfaces = found], Msg(Ext, App, "connected", "COM", 0))

\* Extern_validate_message: the connection of a message with extid m.extid.
IsExported(p, iid) == iid \in ToSet(Exports[p])
InRange(p, extid) ==
    /\ extid < extid_Last("client")
    /\ p = "client" => extid >= extid_Base("server") /\ extid < extid_Last("server")

Invalid(p, P, m) ==
    /\ m.extid # extid_COM /\ m.iid # "COM"
    /\ Extern_COMConn_by_extid(P, m.extid) = {}
    /\ ~(IsExported(p, m.iid) /\ InRange(p, m.extid))

\* Mutant: interfaces that are not exported are ignored on every connection.
QueueExported(p, m, oid, new) ==
    LET msg == Msg(Ext, oid, m.kind, m.iid, m.n) IN
    IF new THEN <<Msg(Ext, oid, "create", "COM", 0), msg>>
    ELSE IF m.iid = "COM" \/ IsExported(p, m.iid) THEN <<msg>> ELSE <<>>

\* Extern_queue_incoming_message: what is sent to the relay, which is created
\* ahead of its first message.
Extern_queue_incoming_message(p, m, oid, new) ==
    LET msg == Msg(Ext, oid, m.kind, m.iid, m.n)
    IN IF new THEN <<Msg(Ext, oid, "create", "COM", 0), msg>> ELSE <<msg>>

\* A valid message of the socket goes to the Extern itself, to the relay of its
\* connection, to a new relay, or is ignored.
Incoming(p, P, m) ==
    LET found == Extern_COMConn_by_extid(P, m.extid)
        new == found = {}
        conn == IF new THEN [oid |-> Min(Free(P)), extid |-> m.extid]
                       ELSE CHOOSE c \in found : TRUE
    IN CASE m.extid = extid_COM /\ m.kind = "export" -> {Extern_COM_export(p, P)}
         [] m.extid = extid_COM /\ m.kind = "delete" -> Closed(P)
         [] m.extid # extid_COM /\ new /\ m.iid = "COM" -> {P}
         [] OTHER -> {[P EXCEPT
                !.conns = @ \cup {conn}, !.extlinks = @ \cup {conn.oid},
                !.outq = @ \o Extern_queue_incoming_message(p, m, conn.oid, new)]}

\* One message of Extern_reading.  How many of the messages are read before the
\* next step of the process is up to the socket.
Extern_reading(p) ==
    LET P == proc[p]
        Q == proc[Other(p)]
        m == Head(Q.out)
    IN
    /\ P.ext = "open" /\ Q.out # <<>> /\ Free(P) # {}
    /\ \E next \in IF Invalid(p, P, m) THEN Closed(P) ELSE Incoming(p, P, m) :
        proc' = [proc EXCEPT ![p] = next, ![Other(p)].out = Tail(@)]
    /\ refused' = IF Invalid(p, P, m)
                  THEN refused \cup {[proc |-> p, kind |-> m.kind, n |-> m.n]}
                  ELSE refused
    /\ UNCHANGED <<sent, taken, replied, answers, dropped, died, lost>>

\* Mutant: the end of the stream is taken for nothing to read.
ReadNothing(p) == proc[p].ext = "open" /\ UNCHANGED vars

\* recvmsg returns 0.
ReadClosed(p) ==
    /\ proc[p].ext = "open"
    /\ proc[Other(p)].ext # "open" /\ proc[Other(p)].out = <<>>
    /\ \E next \in Closed(proc[p]) : proc' = [proc EXCEPT ![p] = next]
    /\ UNCHANGED history

-----------------------------------------------------------------------------
(* COMRelay *)

\* COMRelay_create for message m.  Extern_find_by_interface finds the Extern by
\* a call's interface, Extern_find_by_id by the oid of a connection.
COMRelay_create(P, m) ==
    LET o == m.dest
        isCOM == m.iid = "COM"
    IN [P EXCEPT !.relay = With(@, o, [
        localp |-> IF isCOM THEN NoOid ELSE m.src, serves |-> FALSE,
        pExtern |-> P.ext \in {"open", "closed"}
                    /\ IF isCOM THEN \E c \in P.conns : c.oid = o ELSE m.iid \in P.interfaces,
        unused |-> FALSE])]

\* casycom_find_or_create_destination
FindOrCreate(P, m) == IF m.dest \in DOMAIN P.relay THEN P ELSE COMRelay_create(P, m)

\* COMRelay_destroy, and casycom_destroy_object's removal of the relay's links.
COMRelay_destroy(p, P, o) ==
    LET r == P.relay[o]
        dest == IF r.localp = NoOid THEN NoOid ELSE o
        Q == IF r.pExtern THEN Outgoing(p, P, dest, "delete", "COM", 0) ELSE P
    IN [Q EXCEPT !.relay = Restrict(@, DOMAIN @ \ {o}),
                 !.objects = IF r.serves THEN Restrict(@, DOMAIN @ \ {r.localp}) ELSE @]

\* The first message of a relay that the Extern has made creates the object, of
\* the message's interface.
WithLocal(p, P, m) ==
    IF P.relay[m.dest].localp # NoOid THEN P
    ELSE [P EXCEPT !.relay[m.dest].localp = Min(Free(P)),
                   !.relay[m.dest].serves = IsExported(p, m.iid)]

Delivers(p) == proc[p].inq # <<>> /\ proc[p].ext # "exited"
Taken(p) == [proc[p] EXCEPT !.inq = Tail(@)]

casymsg_forward(m, r) == [m EXCEPT !.src = m.dest, !.dest = r.localp]

\* COMRelay_COM_message: a call or reply goes on to the local object or out.
COMRelay_COM_message(p) ==
    LET m == Head(proc[p].inq)
        P == WithLocal(p, FindOrCreate(Taken(p), m), m)
        r == P.relay[m.dest]
    IN
    /\ Delivers(p) /\ IsRelay(proc[p], m.dest) /\ m.kind \in {"call", "reply"}
    /\ Free(proc[p]) # {}
    /\ proc' = [proc EXCEPT ![p] =
        IF ~r.pExtern THEN P
        ELSE IF m.src # r.localp THEN Post(P, casymsg_forward(m, r))
        ELSE Outgoing(p, P, m.dest, m.kind, m.iid, m.n)]
    /\ lost' = IF r.pExtern THEN lost
               ELSE lost \cup {[proc |-> p, kind |-> m.kind, n |-> m.n]}
    /\ UNCHANGED <<sent, taken, replied, answers, dropped, died, refused>>

\* COMRelay_COM_error: the application that has the proxy gets the error.
COMRelay_COM_error(p) ==
    LET m == Head(proc[p].inq)
        P == FindOrCreate(Taken(p), m)
        failed == IF P.relay[m.dest].localp = App \/ m.dest \in P.applinks THEN m.dest ELSE Ext
    IN
    /\ Delivers(p) /\ IsRelay(proc[p], m.dest) /\ m.kind = "error"
    /\ proc' = [proc EXCEPT ![p] = P]
    /\ answers' = Append(answers, [proc |-> p, oid |-> failed, kind |-> "error", n |-> m.n])
    /\ UNCHANGED <<sent, taken, replied, dropped, died, lost, refused>>

\* Mutant: the relay stays.
DeleteKeepsRelay(r) == [r EXCEPT !.pExtern = FALSE]
Deleted(r) == [r EXCEPT !.pExtern = FALSE, !.unused = TRUE]

COMRelay_COM_delete(p) ==
    LET m == Head(proc[p].inq) IN
    /\ Delivers(p) /\ IsRelay(proc[p], m.dest) /\ m.kind = "delete"
    /\ proc' = [proc EXCEPT ![p] = [FindOrCreate(Taken(p), m) EXCEPT !.relay[m.dest] = Deleted(@)]]
    /\ UNCHANGED history

PCOM_create_object(p) ==
    LET m == Head(proc[p].inq) IN
    /\ Delivers(p) /\ IsRelay(proc[p], m.dest) /\ m.kind = "create"
    /\ proc' = [proc EXCEPT ![p] = FindOrCreate(Taken(p), m)]
    /\ UNCHANGED history

\* message addressed to object deleted after sending
DropMessage(p) ==
    /\ Delivers(p) /\ Head(proc[p].inq).dest \notin Linked(proc[p]) \cup {App, Ext}
    /\ proc' = [proc EXCEPT ![p] = Taken(p)]
    /\ UNCHANGED history

-----------------------------------------------------------------------------
(* Served objects and applications *)

\* An object is made by its first call, and may reply to the relay.
ObjectCalled(p) ==
    LET m == Head(proc[p].inq)
        old == IF m.dest \in DOMAIN proc[p].objects THEN proc[p].objects[m.dest]
                                                    ELSE [calls |-> <<>>, unused |-> FALSE]
        P == [Taken(p) EXCEPT !.objects = With(@, m.dest, [old EXCEPT !.calls = Append(@, m.n)])]
    IN
    /\ Delivers(p) /\ Servers(proc[p], m.dest) # {} /\ m.kind = "call"
    /\ \/ proc' = [proc EXCEPT ![p] = P] /\ UNCHANGED replied
       \/ /\ "reply" \in Conduct[p]
          /\ proc' = [proc EXCEPT ![p] = Post(P, Msg(m.dest, m.src, "reply", "R", m.n))]
          /\ replied' = replied \cup {m.n}
    /\ taken' = Append(taken, m.n)
    /\ UNCHANGED <<sent, answers, dropped, died, lost, refused>>

\* Objects that serve proxy pr, by the extid of their relay's connection; and
\* the proxies that an object serves.
ServedFor(pr) ==
    LET P == proc[Other(pr[1])] IN
    {s \in DOMAIN P.objects : \E c \in P.conns :
        c.oid \in Servers(P, s) /\ c.extid = pr[2] + extid_Base(pr[1])}
Origin(p, s) == {pr \in {Other(p)} \X Oids : s \in ServedFor(pr)}

\* What a program may end.
Ended == \E p \in Procs : proc[p].ext # "open"
Ends == Cardinality(dropped) + Cardinality(died) + IF Ended THEN 1 ELSE 0
May(p, what) == what \in Conduct[p] /\ Ends < MaxEnds

\* casycom_mark_unused by the object itself.
ObjectDies(p) ==
    /\ May(p, "die")
    /\ \E s \in DOMAIN proc[p].objects :
        /\ ~proc[p].objects[s].unused
        /\ proc' = [proc EXCEPT ![p].objects[s].unused = TRUE]
        /\ died' = died \cup Origin(p, s)
    /\ UNCHANGED <<sent, taken, replied, answers, dropped, lost, refused>>

\* casycom_error in the object, which COMRelay_error of its relay sends out.
\* Where it cannot, the application handles the error.
ObjectFails(p) ==
    /\ May(p, "fail")
    /\ \E s \in DOMAIN proc[p].objects, r \in DOMAIN proc[p].relay :
        /\ r \in Servers(proc[p], s) /\ proc[p].relay[r].pExtern
        /\ Origin(p, s) \cap died = {}
        /\ proc' = [proc EXCEPT ![p] = Outgoing(p, @, r, "error", "COM", Last(@.objects[s].calls))]
        /\ died' = died \cup Origin(p, s)
    /\ UNCHANGED <<sent, taken, replied, answers, dropped, lost, refused>>

AppConnected(p) ==
    LET m == Head(proc[p].inq) IN
    /\ Delivers(p) /\ m.dest = App /\ m.kind = "connected"
    /\ proc' = [proc EXCEPT ![p] = [Taken(p) EXCEPT !.told = TRUE]]
    /\ UNCHANGED history

AppAnswered(p) ==
    LET m == Head(proc[p].inq) IN
    /\ Delivers(p) /\ m.dest = App /\ m.kind = "reply"
    /\ proc' = [proc EXCEPT ![p] = Taken(p)]
    /\ answers' = Append(answers, [proc |-> p, oid |-> m.src, kind |-> "reply", n |-> m.n])
    /\ UNCHANGED <<sent, taken, replied, dropped, died, lost, refused>>

\* A proxy to an imported interface is made with its first call.
AppCalls(p) ==
    LET P == proc[p]
        Send(Q, o, i) == Post(Q, Msg(App, o, "call", i, Len(sent) + 1))
    IN
    /\ P.ext # "exited" /\ P.told /\ Len(sent) < MaxCalls /\ Free(P) # {}
    /\ \E i \in P.interfaces, o \in P.applinks \cup {Min(Free(P))} :
        /\ proc' = [proc EXCEPT ![p] = Send([P EXCEPT !.applinks = @ \cup {o}], o, i)]
        /\ sent' = Append(sent, <<p, o>>)
    /\ UNCHANGED <<taken, replied, answers, dropped, died, lost, refused>>

\* casycom_destroy_proxy
AppDrops(p) ==
    /\ May(p, "drop") /\ proc[p].ext # "exited"
    /\ \E o \in proc[p].applinks :
        LET P == [proc[p] EXCEPT !.applinks = @ \ {o}] IN
        /\ proc' = [proc EXCEPT ![p] = IF o \in DOMAIN P.relay THEN COMRelay_destroy(p, P, o) ELSE P]
        /\ dropped' = dropped \cup {<<p, o>>}
    /\ UNCHANGED <<sent, taken, replied, answers, died, lost, refused>>

\* PExtern_close and its message.
AppCloses(p) ==
    /\ May(p, "close") /\ proc[p].ext = "open"
    /\ ~\E i \in DOMAIN proc[p].outq : proc[p].outq[i].kind = "close"
    /\ ~\E i \in DOMAIN proc[p].inq : proc[p].inq[i].kind = "close"
    /\ proc' = [proc EXCEPT ![p] = Post(@, Msg(App, Ext, "close", "COM", 0))]
    /\ UNCHANGED history

Extern_Extern_close(p) ==
    /\ Delivers(p) /\ Head(proc[p].inq).kind = "close"
    /\ \E next \in IF proc[p].ext = "open" THEN Closed(Taken(p)) ELSE {Taken(p)} :
        proc' = [proc EXCEPT ![p] = next]
    /\ UNCHANGED history

\* The process is killed, or leaves by _Exit: without casycom_reset.
Exit(p) ==
    /\ May(p, "exit") /\ proc[p].ext # "exited"
    /\ \E next \in Closed(proc[p]) :
        proc' = [proc EXCEPT ![p] = [next EXCEPT
            !.ext = "exited", !.interfaces = {}, !.conns = {}, !.applinks = {},
            !.extlinks = {}, !.relay = <<>>, !.objects = <<>>, !.inq = <<>>, !.outq = <<>>]]
    /\ UNCHANGED history

\* casycom_reset destroys relays from the last one to the first, and the Extern
\* after them: each that still has its Extern announces its end.
casycom_reset(p, P) ==
    LET left[o \in 1 .. MaxOid + 1] ==
            IF o > MaxOid THEN P
            ELSE IF o \in DOMAIN P.relay THEN COMRelay_destroy(p, left[o + 1], o)
            ELSE left[o + 1]
    IN left[1]

\* The process quits, or exits on an error that nobody handles.
Quit(p) ==
    /\ May(p, "exit") /\ proc[p].ext # "exited"
    /\ \E next \in Closed(casycom_reset(p, proc[p])) :
        proc' = [proc EXCEPT ![p] = [next EXCEPT
            !.ext = "exited", !.interfaces = {}, !.conns = {}, !.applinks = {},
            !.extlinks = {}, !.relay = <<>>, !.objects = <<>>, !.inq = <<>>, !.outq = <<>>]]
    /\ UNCHANGED history

-----------------------------------------------------------------------------
(* The end of a round *)

\* Mutant: the relay does not look at the notification.
DestroyedIgnored(r) == r

\* COMRelay_object_destroyed for the Extern, which a relay without pExtern has
\* no link to.
COMRelay_object_destroyed(r) ==
    IF r.pExtern THEN [r EXCEPT !.unused = TRUE, !.pExtern = FALSE] ELSE r

\* Extern_destroy.  The relays that only the Extern had a link to go with it.
Extern_destroy(P) ==
    LET orphans == {o \in DOMAIN P.relay : o \notin P.applinks}
        served == {P.relay[o].localp : o \in {r \in orphans : P.relay[r].serves}}
    IN [P EXCEPT
        !.ext = "gone", !.interfaces = {}, !.conns = {}, !.extlinks = {},
        !.relay = [o \in DOMAIN @ \ orphans |-> COMRelay_object_destroyed(@[o])],
        !.objects = Restrict(@, DOMAIN @ \ served)]

\* A destroyed object is reported to its relay by COMRelay_object_destroyed,
\* which marks the relay unused.
UnusedRelays(P) ==
    {o \in DOMAIN P.relay :
        \/ P.relay[o].unused
        \/ \E s \in DOMAIN P.objects : P.objects[s].unused /\ o \in Servers(P, s)}

\* casycom_destroy_unused_objects, in the order of oids.
DestroyUnused(p, P) ==
    LET Q == IF P.ext = "closed" THEN Extern_destroy(P) ELSE P
        left[o \in Nat] ==
            IF o = 0 THEN Q
            ELSE IF o \in UnusedRelays(Q) THEN COMRelay_destroy(p, left[o - 1], o)
            ELSE left[o - 1]
    IN left[MaxOid]

\* casycom_do_message_queues exchanges the queues, and casycom_idle follows.
EndRound(p) ==
    LET P == proc[p]
        Q == DestroyUnused(p, [P EXCEPT !.inq = P.outq, !.outq = <<>>])
    IN
    /\ P.ext # "exited" /\ P.inq = <<>> /\ Q # P
    /\ proc' = [proc EXCEPT ![p] = Q]
    /\ UNCHANGED history

-----------------------------------------------------------------------------
(* The specification *)

\* Both ends have a socket, and Extern_Extern_open has sent COM export.
Init ==
    /\ proc = [p \in Procs |-> [
        ext |-> "open", told |-> FALSE, interfaces |-> {}, conns |-> {},
        applinks |-> {}, extlinks |-> {}, relay |-> <<>>, objects |-> <<>>,
        inq |-> <<>>, outq |-> <<>>,
        out |-> <<[extid |-> extid_COM, kind |-> "export", iid |-> "COM", n |-> 0]>>]]
    /\ sent = <<>> /\ taken = <<>> /\ answers = <<>>
    /\ replied = {} /\ dropped = {} /\ died = {} /\ lost = {} /\ refused = {}

\* What the loop of a process does; and what programs do of their own.
Loop(p) ==
    \/ COMRelay_COM_message(p) \/ COMRelay_COM_error(p) \/ COMRelay_COM_delete(p)
    \/ PCOM_create_object(p) \/ DropMessage(p) \/ ObjectCalled(p)
    \/ AppConnected(p) \/ AppAnswered(p) \/ Extern_Extern_close(p) \/ EndRound(p)
Socket(p) == Extern_reading(p) \/ ReadClosed(p)
Program(p) ==
    AppCalls(p) \/ AppDrops(p) \/ AppCloses(p) \/ ObjectDies(p) \/ ObjectFails(p) \/ Exit(p)

Next == \E p \in Procs : Loop(p) \/ Socket(p) \/ Program(p)

Spec == Init /\ [][Next]_vars
FairSpec == Spec /\ \A p \in Procs : WF_vars(Loop(p) \/ Socket(p))

\* With processes that run casycom_reset when they end.
QuitNext == Next \/ \E p \in Procs : Quit(p)
QuitSpec == Init /\ [][QuitNext]_vars
FairQuitSpec == QuitSpec /\ \A p \in Procs : WF_vars(Loop(p) \/ Socket(p))

-----------------------------------------------------------------------------
(* Properties *)

\* A proxy that the application has, to an object that has not ended by itself.
Live(pr) == pr \notin dropped \cup died

\* A relay that would send has an Extern to send through: the Extern tells its
\* relays when it goes.
NoDangling ==
    \A p \in Procs : \A o \in DOMAIN proc[p].relay :
        proc[p].relay[o].pExtern => proc[p].ext \in {"open", "closed"}

\* In each Extern no two connections have the oid or the extid in common,
\* whichever side made them.
ConnsUnique ==
    \A p \in Procs : \A c, d \in proc[p].conns : c.oid = d.oid <=> c.extid = d.extid

\* The Extern and its relays agree on what is connected.
RelaysSound == TypeOK /\ NoDangling /\ ConnsUnique

\* The calls made through a proxy are taken in their order, none is passed over
\* or taken twice, and no other live proxy's calls go to the same object.
CallsRouted ==
    /\ \A j \in DOMAIN taken : Live(sent[taken[j]]) =>
        /\ \A i \in 1 .. j - 1 : sent[taken[i]] = sent[taken[j]] => taken[i] < taken[j]
        /\ \A n \in 1 .. taken[j] : sent[n] = sent[taken[j]] => n \in Range(taken)
    /\ \A p \in Procs : \A s \in DOMAIN proc[p].objects :
        LET of == {sent[n] : n \in Range(proc[p].objects[s].calls)}
        IN \A a, b \in of : Live(a) /\ Live(b) => a = b

\* A reply comes for the proxy of its call, and an error for one whose object
\* has ended; replies come in the order of the calls, and once.
AnswersMatch ==
    /\ \A i \in DOMAIN answers :
        LET a == answers[i]
            pr == <<a.proc, a.oid>>
        IN IF a.kind = "reply" THEN sent[a.n] = pr ELSE a.oid # Ext => pr \in died
    /\ \A i, j \in DOMAIN answers :
        LET a == answers[i]
            b == answers[j]
        IN i < j /\ a.kind = "reply" /\ b.kind = "reply" /\ a.oid = b.oid /\ Live(<<a.proc, a.oid>>)
            => a.n < b.n

Over(n) == sent[n] \in died \/ dropped # {} \/ Ended

\* As long as the connection lasts and no proxy is dropped, every call is taken
\* by an object in the other process, unless the object has ended.
CallTaken == <>[](\A n \in DOMAIN sent : n \in Range(taken) \/ Over(n))

\* In the same way every reply reaches the application.
ReplyArrives ==
    <>[](\A n \in replied : (\E i \in DOMAIN answers : answers[i].n = n) \/ Over(n))

\* Calls and replies go through two relays and two Externs to their end.
CallsServed == CallTaken /\ ReplyArrives

\* When a proxy is dropped, the object it had in the other process is
\* destroyed.
DropDestroys ==
    <>[](\A pr \in dropped :
            ServedFor(pr) = {} \/ pr \in died \/ pr[2] \in proc[pr[1]].applinks)

\* When the connection ends on one side, both sides are rid of their Extern, of
\* the objects made for the other and of every relay that would send.
ClosedCleans ==
    Ended ~> \A p \in Procs :
        /\ proc[p].ext \in {"gone", "exited"} /\ DOMAIN proc[p].objects = {}
        /\ \A o \in DOMAIN proc[p].relay : ~proc[p].relay[o].pExtern

-----------------------------------------------------------------------------
(* Properties the code does not have *)

\* No message that an Extern sends is refused by the other Extern, which would
\* close the connection.
ConnectionKept == refused = {}

\* A reply is passed on, whatever its object does afterwards.
RepliesKept == \A l \in lost : l.kind # "reply"

\* After the handshake info.interfaces are the imported interfaces that the
\* other side exports.
ImportsFound ==
    \A p \in Procs : proc[p].told /\ proc[p].ext = "open"
        => proc[p].interfaces = Imports[p] \cap ToSet(Exports[Other(p)])

\* The ExternInfo that ExternR_connected points to exists when the message is
\* delivered.
InfoLive ==
    \A p \in Procs :
        proc[p].ext = "gone" => \A i \in DOMAIN proc[p].inq : proc[p].inq[i].kind # "connected"

\* Calls through a live proxy are taken or their failure is known, even when
\* other proxies are dropped.
OthersUndisturbed ==
    \A l \in lost : l.kind = "call" => ~Live(sent[l.n]) \/ Ended
=============================================================================
