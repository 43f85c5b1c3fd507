------------------------------- MODULE Casycom -------------------------------
(***************************************************************************)
(* Objects, proxies and their lifetime: the single-threaded core of main.c.*)
(*                                                                         *)
(* One message at a time is delivered to an object, which is constructed   *)
(* when its first message arrives.  While it runs, the object calls the    *)
(* library; the library calls back destructors, object_destroyed and error *)
(* methods, and these call the library again.  The C stack is therefore    *)
(* part of the state: every variable stack entry is a C function that has  *)
(* been interrupted by a call, and the last entry is the one that runs.    *)
(***************************************************************************)
EXTENDS LinkTable

CONSTANTS
    AppIface,       \* i_App
    OnDestroyed,    \* classes with an object_destroyed method
    OnError,        \* classes with an error method
    ActiveDtor,     \* classes whose destructor calls the library, through
                    \*   functions of another object (COMRelay)
    LinkAny,        \* may an object link to any object, or only reply to one
    MaxOid,         \* bounds: the highest oid,
    MaxLinks,       \*   the links in the map,
    MaxQueue,       \*   the messages in the output queue,
    MaxCalls        \*   the library calls made by one method call

ASSUME CasycomAssumption ==
    /\ AppIface \in Iface
    /\ OnDestroyed \subseteq Class /\ OnError \subseteq Class /\ ActiveDtor \subseteq Class
    /\ LinkAny \in BOOLEAN
    /\ MaxOid \in Nat /\ MaxLinks \in Nat /\ MaxQueue \in Nat /\ MaxCalls \in Nat

VARIABLES
    omap,           \* _casycom_omap
    inq,            \* _casycom_input_queue; its head is being delivered
    outq,           \* _casycom_output_queue
    heap,           \* the objects that have been created and not destroyed
    stack,          \* the C functions in progress
    loop,           \* where casycom_main is, and "crashed" after a null call
    error,          \* _casycom_error: "none", or set during "delivery" or in "idle"
    quitting        \* _casycom_quitting

vars == <<omap, inq, outq, heap, stack, loop, error, quitting>>

(***************************************************************************)
(* A message is queued with the link it was sent through.  The field stale *)
(* is history: no link to dest has been left since the message was sent,   *)
(* so the number dest now means nobody, or somebody else.                  *)
(***************************************************************************)
Msg == [src : Oid, dest : Oid, iface : Iface, stale : BOOLEAN]

(***************************************************************************)
(* The functions that can be interrupted:                                  *)
(*   create     the constructor of obj, whose oid will be oid;             *)
(*   dispatch   a message handler of obj; peer is the sender;              *)
(*   destroy    the destructor of obj.  at is the place in omap of the link*)
(*              casycom_destroy_object works on, 0 when that is a copy;    *)
(*   notify     casycom_destroy_object calling object_destroyed of list;   *)
(*   erase      casycom_destroy_object erasing the links from oid;         *)
(*   destroyed  the method object_destroyed(obj, peer);                    *)
(*   forward    casycom_forward_error(oid, peer);                          *)
(*   failed     the method error(obj, peer), called by forward.            *)
(* calls is what is left of MaxCalls.                                      *)
(***************************************************************************)
Frame ==
    [fn : {"create", "dispatch", "destroy", "notify", "erase", "destroyed",
           "forward", "failed"},
     oid : Oid, obj : Nat, peer : Oid, at : Nat, list : Seq(Oid), calls : Nat]

TypeOK ==
    /\ omap \in Seq(MsgLink)
    /\ inq \in Seq(Msg) /\ outq \in Seq(Msg)
    /\ heap \subseteq Nat \ {Null}
    /\ stack \in Seq(Frame)
    /\ loop \in {"queues", "idle", "sweep", "reset", "done", "crashed"}
    /\ error \in {"none", "delivery", "idle"} /\ quitting \in BOOLEAN

-----------------------------------------------------------------------------
(* The stack *)

top == stack[Len(stack)]
Running(fns) == loop # "crashed" /\ stack # <<>> /\ top.fn \in fns
Pop(s) == [k \in 1 .. Len(s) - 1 |-> s[k]]

NewFrame(fn, oid, obj, peer, at, list, calls) ==
    [fn |-> fn, oid |-> oid, obj |-> obj, peer |-> peer, at |-> at,
     list |-> list, calls |-> calls]

\* casycom_destroy_object of the object on link l, at its call of the destructor.
DestroyFrame(l, at) ==
    NewFrame("destroy", l.dest, l.o, 0, at, <<>>,
             IF find_factory(l.iface) \in ActiveDtor THEN MaxCalls ELSE 0)

\* A running method spends one of its calls.
Called == [stack EXCEPT ![Len(stack)].calls = @ - 1]

-----------------------------------------------------------------------------
(* Links *)

\* The object of oid d, reached through its first link.
Holds(d, obj) == \E p \in DOMAIN omap : IsDestination(omap, d, p) /\ omap[p].o = obj
Live(d) == \E p \in DOMAIN omap : IsDestination(omap, d, p) /\ omap[p].o # Null

NewLink(s, d, i) == [src |-> s, dest |-> d, iface |-> i, o |-> Null, unused |-> FALSE]

\* The history of the messages in queue q when the link at p goes.
Orphaned(q, p) ==
    [k \in DOMAIN q |->
        [q[k] EXCEPT !.stale = @ \/ /\ q[k].dest = omap[p].dest
                                    /\ omap[p].dest \notin Dests(vector_erase(omap, p))]]

casycom_create_proxy_to(i, s, d) ==
    /\ Len(omap) < MaxLinks
    /\ \E p \in 1 .. Len(omap) + 1 :
        /\ IsInsertPoint(omap, d, p)
        /\ omap' = vector_emplace(omap, p, NewLink(s, d, i))

\* Mutant: the link is erased, and the object on it is not destroyed.
EraseOnly(p, fs) ==
    /\ omap' = vector_erase(omap, p)
    /\ inq' = Orphaned(inq, p)
    /\ outq' = Orphaned(outq, p)
    /\ stack' = fs

\* fs is the stack of the caller.  If the link holds the object, the object is
\* destroyed; casycom_destroy_object then works on a copy of the link.
casycom_destroy_link_at(p, fs) ==
    /\ omap' = vector_erase(omap, p)
    /\ inq' = Orphaned(inq, p)
    /\ outq' = Orphaned(outq, p)
    /\ stack' = IF omap[p].o = Null THEN fs
                ELSE Append(fs, DestroyFrame(omap[p], 0))

-----------------------------------------------------------------------------
(***************************************************************************)
(* What a method of an object may call.  Handlers and constructors call    *)
(* all of it.  The error and object_destroyed methods of the repository    *)
(* send, mark themselves unused, and drop proxies to the destroyed object. *)
(* A destructor drops no proxies (the assertion in casycom_queue_message   *)
(* asks for that).  The handlers, the destructor and the error method of   *)
(* COMRelay call Extern_queue_outgoing_message of the Extern that the      *)
(* relay has a link to.  The Extern then writes, and reads too: it makes   *)
(* links, sends, sets errors, and marks itself unused when it closes.      *)
(***************************************************************************)
MayCall(fns) == Running(fns) /\ top.calls > 0

\* The objects whose functions the running method calls directly.
Partners ==
    IF \/ top.fn = "destroy"
       \/ /\ top.fn \in {"dispatch", "failed"}
          /\ \E p \in DOMAIN omap : /\ IsDestination(omap, top.oid, p)
                                   /\ find_factory(omap[p].iface) \in ActiveDtor
    THEN {d \in Dests(omap) \ {top.oid} :
             Live(d) /\ \E p \in DOMAIN omap : omap[p].src = top.oid /\ omap[p].dest = d}
    ELSE {}

\* Whose proxies the running method makes and uses.
Actors == Partners \cup (IF top.fn = "destroy" THEN {} ELSE {top.oid})

\* A running method spends one of its calls to insert a link.  In a destructor
\* that may move the map: the pointer of casycom_destroy_object is then to freed
\* memory, still with the old contents.
CalledInserting ==
    \E at \in {top.at, 0} :
        stack' = [stack EXCEPT ![Len(stack)].calls = @ - 1, ![Len(stack)].at = at]

CreateProxy ==
    /\ MayCall({"create", "dispatch", "destroy"})
    /\ \E i \in Iface, s \in Actors, d \in oid_First .. MaxOid :
        IsFirstGap(omap, d) /\ casycom_create_proxy_to(i, s, d)
    /\ CalledInserting
    /\ UNCHANGED <<inq, outq, heap, loop, error, quitting>>

\* casycom_create_reply_proxy, and with LinkAny a proxy to an oid got otherwise
\* (COMRelay's to its Extern); and the Extern's to the relay that calls it.  The
\* interface must be one the object has, as casycom_queue_message asserts; a
\* dead sender's number has no object, and the link made to it creates one.
CreateProxyTo ==
    /\ MayCall({"create", "dispatch", "destroy"})
    /\ \E i \in Iface, s \in Actors :
       \E d \in IF s # top.oid THEN {top.oid}
                ELSE IF LinkAny THEN Dests(omap) \cup {top.peer} ELSE {top.peer} :
        /\ d # oid_Broadcast /\ d # s
        /\ \A p \in DOMAIN omap :
            IsDestination(omap, d, p) => find_dtable(find_factory(omap[p].iface), i)
        /\ casycom_create_proxy_to(i, s, d)
    /\ CalledInserting
    /\ UNCHANGED <<inq, outq, heap, loop, error, quitting>>

casycom_destroy_proxy ==
    /\ MayCall({"create", "dispatch", "destroyed"})
    /\ \E p \in DOMAIN omap :
        /\ IsLinkForProxy(omap, top.oid, omap[p].dest, p)
        /\ top.fn = "destroyed" => omap[p].dest = top.peer
        /\ casycom_destroy_link_at(p, Called)
    /\ UNCHANGED <<heap, loop, error, quitting>>

casycom_queue_message ==
    /\ MayCall({"create", "dispatch", "destroy", "destroyed", "failed"})
    /\ Len(outq) < MaxQueue
    /\ \E p \in DOMAIN omap :
        /\ omap[p].src \in Actors
        /\ outq' = Append(outq, [src |-> omap[p].src, dest |-> omap[p].dest,
                                 iface |-> omap[p].iface, stale |-> FALSE])
    /\ stack' = Called
    /\ UNCHANGED <<omap, inq, heap, loop, error, quitting>>

\* Nothing happens in a constructor: the link does not yet hold its object.
casycom_mark_unused ==
    /\ MayCall({"create", "dispatch", "destroy", "destroyed", "failed"})
    /\ \E n \in (IF top.fn = "destroy" THEN {} ELSE {top.obj}) \cup
               ({omap[q].o : q \in {r \in DOMAIN omap : omap[r].dest \in Partners}} \ {Null}) :
        omap' = [p \in DOMAIN omap |-> [omap[p] EXCEPT !.unused = @ \/ omap[p].o = n]]
    /\ stack' = Called
    /\ UNCHANGED <<inq, outq, heap, loop, error, quitting>>

\* When the error was set is history.  One set by a destructor in idle waits for
\* the next message, whose own error is appended to it, or for casycom_reset.
casycom_error ==
    /\ MayCall({"create", "dispatch", "destroy", "failed"})
    /\ error' = IF loop = "queues" THEN "delivery"
                ELSE IF error = "none" THEN "idle" ELSE error
    /\ stack' = Called
    /\ UNCHANGED <<omap, inq, outq, heap, loop, quitting>>

casycom_quit ==
    /\ MayCall({"dispatch"})
    /\ quitting' = TRUE
    /\ stack' = Called
    /\ UNCHANGED <<omap, inq, outq, heap, loop, error>>

-----------------------------------------------------------------------------
(* casycom_do_message_queues: delivery of the message at the head of inq *)

Delivering == loop = "queues" /\ stack = <<>> /\ inq # <<>>

\* "message addressed to object deleted after sending"
DropMessage ==
    /\ Delivering
    /\ Head(inq).dest \notin Dests(omap)
    /\ inq' = Tail(inq)
    /\ UNCHANGED <<omap, outq, heap, stack, loop, error, quitting>>

\* Mutant: the object of a failed allocation is used.
CreateNull ==
    /\ Delivering
    /\ \E p \in DOMAIN omap :
        /\ IsDestination(omap, Head(inq).dest, p) /\ omap[p].o = Null
        /\ heap' = heap \cup {Null}
        /\ stack' = <<NewFrame("create", Head(inq).dest, Null, Head(inq).src, 0, <<>>, MaxCalls)>>
    /\ UNCHANGED <<omap, inq, outq, loop, error, quitting>>

\* The memory of a new object is the first that is free.
casycom_create_link_object ==
    /\ Delivering
    /\ \E p \in DOMAIN omap, n \in 1 .. MaxLinks + 1 :
        /\ IsDestination(omap, Head(inq).dest, p) /\ omap[p].o = Null
        /\ n \notin heap /\ 1 .. n - 1 \subseteq heap
        /\ heap' = heap \cup {n}
        /\ stack' = <<NewFrame("create", Head(inq).dest, n, Head(inq).src, 0, <<>>, MaxCalls)>>
    /\ UNCHANGED <<omap, inq, outq, loop, error, quitting>>

\* The link is looked up again, for the constructor may have moved it.
CreateReturns ==
    /\ Running({"create"})
    /\ \E p \in DOMAIN omap :
        /\ IsDestination(omap, top.oid, p) /\ omap[p].o = Null
        /\ omap' = [omap EXCEPT ![p].o = top.obj]
    /\ stack' = Pop(stack)
    /\ UNCHANGED <<inq, outq, heap, loop, error, quitting>>

\* A class without the interface has no dtable for it: a null pointer is used.
Dispatch ==
    /\ Delivering
    /\ \E p \in DOMAIN omap :
        /\ IsDestination(omap, Head(inq).dest, p) /\ omap[p].o # Null
        /\ IF find_dtable(find_factory(omap[p].iface), Head(inq).iface)
           THEN /\ stack' = <<NewFrame("dispatch", Head(inq).dest, omap[p].o,
                                       Head(inq).src, 0, <<>>, MaxCalls)>>
                /\ loop' = loop
           ELSE stack' = stack /\ loop' = "crashed"
    /\ UNCHANGED <<omap, inq, outq, heap, error, quitting>>

DispatchReturns ==
    /\ Running({"dispatch"})
    /\ IF error # "none"
       THEN /\ stack' = <<NewFrame("forward", Head(inq).dest, 0, Head(inq).dest, 0, <<>>, 0)>>
            /\ inq' = inq
       ELSE stack' = <<>> /\ inq' = Tail(inq)
    /\ UNCHANGED <<omap, outq, heap, loop, error, quitting>>

\* And make the output queue the input queue for the next round
SwapQueues ==
    /\ loop = "queues" /\ stack = <<>> /\ inq = <<>>
    /\ inq' = outq /\ outq' = <<>>
    /\ loop' = "idle"
    /\ UNCHANGED <<omap, heap, stack, error, quitting>>

-----------------------------------------------------------------------------
(* casycom_forward_error *)

\* The call of casycom_forward_error, last in stack s, for the creator of top.
Forwarded(s, p) ==
    [s EXCEPT ![Len(s)].peer = s[Len(s)].oid, ![Len(s)].oid = omap[p].src]

\* Mutant: an error that nobody handles does not quit.
ErrorIgnored ==
    /\ Running({"forward"})
    /\ top.oid \notin Dests(omap)
    /\ inq' = <<>>
    /\ stack' = <<>>
    /\ UNCHANGED <<omap, outq, heap, loop, error, quitting>>

\* Nobody handles it: the error is printed and the loop quits, after a break.
ErrorUnhandled ==
    /\ Running({"forward"})
    /\ top.oid \notin Dests(omap)
    /\ quitting' = TRUE
    /\ inq' = <<>>
    /\ stack' = <<>>
    /\ UNCHANGED <<omap, outq, heap, loop, error>>

casycom_forward_error ==
    /\ Running({"forward"})
    /\ \E p \in DOMAIN omap :
        /\ IsDestination(omap, top.oid, p)
        /\ stack' = IF omap[p].o # Null /\ find_factory(omap[p].iface) \in OnError
                    THEN Append(stack, NewFrame("failed", top.oid, omap[p].o, top.peer,
                                                0, <<>>, MaxCalls))
                    ELSE Forwarded(stack, p)
    /\ UNCHANGED <<omap, inq, outq, heap, loop, error, quitting>>

ErrorHandled ==
    /\ Running({"failed"})
    /\ error' = "none"
    /\ inq' = Tail(inq)
    /\ stack' = <<>>
    /\ UNCHANGED <<omap, outq, heap, loop, quitting>>

\* The method returned false: the creator of the object is asked.
ErrorDeclined ==
    /\ Running({"failed"})
    /\ \E p \in DOMAIN omap :
        IsDestination(omap, top.oid, p) /\ stack' = Forwarded(Pop(stack), p)
    /\ UNCHANGED <<omap, inq, outq, heap, loop, error, quitting>>

-----------------------------------------------------------------------------
(* casycom_destroy_object *)

\* The sources of the links to d, 0 for the others and for oid_Broadcast.
Callers(m, d) == [p \in DOMAIN m |-> IF m[p].dest = d THEN m[p].src ELSE 0]

\* The destructor has returned.  The link, in omap or a copy, loses its object
\* and its flags, its dest is read again, and the callers are collected.
DestroyReturns ==
    /\ Running({"destroy"})
    /\ heap' = heap \ {top.obj}
    /\ top.at = 0 \/ top.at \in DOMAIN omap
    /\ omap' = IF top.at = 0 THEN omap
               ELSE [omap EXCEPT ![top.at].o = Null, ![top.at].unused = FALSE]
    /\ LET oid == IF top.at = 0 THEN top.oid ELSE omap[top.at].dest
       IN  stack' = [stack EXCEPT ![Len(stack)] =
                         NewFrame("notify", oid, 0, 0, 0, Callers(omap, oid), 0)]
    /\ UNCHANGED <<inq, outq, loop, error, quitting>>

\* The first caller not yet notified is at place k of list.
NotifyCaller ==
    /\ Running({"notify"})
    /\ \E k \in DOMAIN top.list :
        /\ top.list[k] # 0 /\ \A j \in 1 .. k - 1 : top.list[j] = 0
        /\ LET caller == top.list[k]
               rest == [stack EXCEPT ![Len(stack)].list[k] = 0]
               found == {p \in DOMAIN omap : IsDestination(omap, caller, p)}
               notified == {p \in found : find_factory(omap[p].iface) \in OnDestroyed}
           IN  \/ /\ notified = {}
                  /\ stack' = rest /\ loop' = loop
               \/ \E p \in notified :
                  /\ omap[p].o # Null
                  /\ stack' = Append(rest, NewFrame("destroyed", caller, omap[p].o, top.oid,
                                                    0, <<>>, MaxCalls))
                  /\ loop' = loop
               \/ \E p \in notified :      \* object_destroyed of a null object
                  omap[p].o = Null /\ stack' = stack /\ loop' = "crashed"
    /\ UNCHANGED <<omap, inq, outq, heap, error, quitting>>

AllNotified ==
    /\ Running({"notify"})
    /\ \A k \in DOMAIN top.list : top.list[k] = 0
    /\ stack' = [stack EXCEPT ![Len(stack)].fn = "erase", ![Len(stack)].list = <<>>]
    /\ UNCHANGED <<omap, inq, outq, heap, loop, error, quitting>>

DestroyedReturns ==
    /\ Running({"destroyed"})
    /\ stack' = Pop(stack)
    /\ UNCHANGED <<omap, inq, outq, heap, loop, error, quitting>>

\* Erase all links from this object, starting over after each.
EraseLink ==
    /\ Running({"erase"})
    /\ \E p \in DOMAIN omap :
        /\ omap[p].src = top.oid
        /\ \A q \in 1 .. p - 1 : omap[q].src # top.oid
        /\ casycom_destroy_link_at(p, stack)
    /\ UNCHANGED <<heap, loop, error, quitting>>

\* Mutant: the links from the object are left.
LeaveLinks ==
    /\ Running({"erase"})
    /\ stack' = Pop(stack)
    /\ UNCHANGED <<omap, inq, outq, heap, loop, error, quitting>>

AllErased ==
    /\ Running({"erase"})
    /\ \A p \in DOMAIN omap : omap[p].src # top.oid
    /\ stack' = Pop(stack)
    /\ UNCHANGED <<omap, inq, outq, heap, loop, error, quitting>>

-----------------------------------------------------------------------------
(* The event loop: casycom_main, casycom_idle and, at exit, casycom_reset *)

\* fired: a signal is waiting and becomes a message to the App.
casycom_send_signal_message ==
    /\ loop = "idle"
    /\ \E fired \in BOOLEAN :
        /\ fired => Len(outq) < MaxQueue
        /\ outq' = IF fired
                   THEN Append(outq, [src |-> oid_Broadcast, dest |-> oid_App,
                                      iface |-> AppIface, stale |-> FALSE])
                   ELSE outq
    /\ loop' = "sweep"
    /\ UNCHANGED <<omap, inq, heap, stack, error, quitting>>

\* The first unused link; casycom_destroy_object returns at once if it has no
\* object, and the search starts over.
casycom_destroy_unused_objects ==
    /\ loop = "sweep" /\ stack = <<>>
    /\ \E p \in DOMAIN omap :
        /\ omap[p].unused /\ \A q \in 1 .. p - 1 : ~omap[q].unused
        /\ stack' = IF omap[p].o = Null THEN stack ELSE <<DestroyFrame(omap[p], p)>>
    /\ UNCHANGED <<omap, inq, outq, heap, loop, error, quitting>>

\* Mutant: idle goes on without destroying the unused objects.
IdleWithoutSweep ==
    /\ loop = "sweep" /\ stack = <<>>
    /\ \E haveTimers \in BOOLEAN :
        quitting' = (quitting \/ (~haveTimers /\ inq = <<>> /\ outq = <<>>))
    /\ loop' = IF quitting' THEN "reset" ELSE "queues"
    /\ UNCHANGED <<omap, inq, outq, heap, stack, error>>


\* The rest of casycom_idle and the test of casycom_main.
casycom_idle ==
    /\ loop = "sweep" /\ stack = <<>>
    /\ \A p \in DOMAIN omap : ~omap[p].unused
    /\ \E haveTimers \in BOOLEAN :
        quitting' = (quitting \/ (~haveTimers /\ inq = <<>> /\ outq = <<>>))
    /\ loop' = IF quitting' THEN "reset" ELSE "queues"
    /\ UNCHANGED <<omap, inq, outq, heap, stack, error>>

ResetLink ==
    /\ loop = "reset" /\ stack = <<>> /\ omap # <<>>
    /\ casycom_destroy_link_at(Len(omap), stack)
    /\ UNCHANGED <<heap, loop, error, quitting>>

\* Mutant: the process ends with links in the map.
ResetOnlyQueues ==
    /\ loop = "reset" /\ stack = <<>>
    /\ inq' = <<>> /\ outq' = <<>> /\ error' = "none"
    /\ loop' = "done"
    /\ UNCHANGED <<omap, heap, stack, quitting>>

ResetQueues ==
    /\ loop = "reset" /\ stack = <<>> /\ omap = <<>>
    /\ inq' = <<>> /\ outq' = <<>> /\ error' = "none"
    /\ loop' = "done"
    /\ UNCHANGED <<omap, heap, stack, quitting>>

-----------------------------------------------------------------------------
\* The state casycom_framework_init leaves: a link to the App, and its init.
Init ==
    /\ omap = <<NewLink(oid_Broadcast, oid_App, AppIface)>>
    /\ inq = <<>>
    /\ outq = <<[src |-> oid_Broadcast, dest |-> oid_App, iface |-> AppIface, stale |-> FALSE]>>
    /\ heap = {} /\ stack = <<>>
    /\ loop = "queues" /\ error = "none" /\ quitting = FALSE

LibraryCall ==
    \/ CreateProxy \/ CreateProxyTo \/ casycom_destroy_proxy \/ casycom_queue_message
    \/ casycom_mark_unused \/ casycom_error \/ casycom_quit

MessageStep ==
    \/ DropMessage \/ casycom_create_link_object \/ CreateReturns \/ Dispatch
    \/ DispatchReturns \/ SwapQueues

ErrorStep ==
    ErrorUnhandled \/ casycom_forward_error \/ ErrorHandled \/ ErrorDeclined

DestroyStep ==
    \/ DestroyReturns \/ NotifyCaller \/ AllNotified \/ DestroyedReturns
    \/ EraseLink \/ AllErased

LoopStep ==
    \/ casycom_send_signal_message \/ casycom_destroy_unused_objects \/ casycom_idle
    \/ ResetLink \/ ResetQueues

Step == LibraryCall \/ MessageStep \/ ErrorStep \/ DestroyStep \/ LoopStep

\* The process has ended.
Ended == loop \in {"done", "crashed"} /\ UNCHANGED vars

Next == Step \/ Ended

Spec == Init /\ [][Next]_vars

\* One thread runs it all, and every method returns.
FairSpec == Spec /\ WF_vars(Step)

-----------------------------------------------------------------------------
(* Properties *)

\* The destruction or the construction of the object d is in progress.
InTransit(d) ==
    \E k \in DOMAIN stack :
        stack[k].fn \in {"create", "destroy", "notify", "erase"} /\ stack[k].oid = d

\* The map stays sorted, and only the first of the links to an object holds it
\* ("the first link contains the object pointer", main.c:58).  A link is marked
\* unused only while it holds an object: casycom_destroy_unused_objects starts
\* over until no link is marked, and does nothing for a link without object.
MapWellFormed ==
    /\ IsSorted(omap)
    /\ \A p \in DOMAIN omap : omap[p].o # Null => IsDestination(omap, omap[p].dest, p)
    /\ \A p \in DOMAIN omap : omap[p].unused => omap[p].o # Null

\* The loops of casycom_omap_lower_bound and casycom_create_proxy find what
\* the actions take them to find.
SearchesAgree ==
    /\ \A d \in 0 .. MaxOid + 1 : IsLowerBound(omap, d, casycom_omap_lower_bound(omap, d))
    /\ IsFirstGap(omap, first_gap(omap))

\* No object leaks, is shared by two links, or is destroyed twice: every object
\* in memory is held by one link or by a constructor or destructor in progress.
HeapAccounted ==
    LET held == {omap[p].o : p \in DOMAIN omap} \ {Null}
        making == {k \in DOMAIN stack : stack[k].fn \in {"create", "destroy"} /\ stack[k].at = 0}
        inPlace == {k \in DOMAIN stack : stack[k].fn = "destroy" /\ stack[k].at # 0}
    IN  /\ heap = held \cup {stack[k].obj : k \in making}
        /\ \A k \in making : stack[k].obj \notin held
        /\ \A k \in inPlace : stack[k].obj \in held
        /\ \A p, q \in DOMAIN omap : p # q /\ omap[p].o = omap[q].o => omap[p].o = Null

\* "Once the creator object is destroyed, all objects created by it are also
\* destroyed" (main.c:63): no link outlives its source, so that nothing is left
\* of the objects below it once casycom_destroy_object is through.
SourcesLive ==
    \A p \in DOMAIN omap :
        LET s == omap[p].src IN s = oid_Broadcast \/ Live(s) \/ InTransit(s)

\* The creator path that casycom_forward_error follows never turns back to an
\* object it has passed: of any set of objects, one has its creator elsewhere.
CreatorsAcyclic ==
    \A S \in SUBSET {p \in DOMAIN omap : omap[p].o # Null} :
        S = {} \/ \E p \in S : \A q \in S : omap[p].src # omap[q].dest

\* No object is destroyed under a method of its own: whatever a handler, a
\* constructor or a callback makes the library destroy, the running objects
\* are still there when it returns to them, and the message in delivery too.
RunningLive ==
    \A k \in DOMAIN stack :
        /\ stack[k].fn \in {"dispatch", "destroyed", "failed"} =>
              stack[k].obj # Null /\ Holds(stack[k].oid, stack[k].obj)
        /\ stack[k].fn = "create" => Holds(stack[k].oid, Null)
        /\ stack[k].fn \in {"create", "destroy"} => stack[k].obj \in heap
        /\ stack[k].fn \in {"dispatch", "forward", "failed"} => inq # <<>>

\* Links, creators and running methods lead to objects that are there: nothing
\* outlives its creator, errors find their way up, and no method returns to an
\* object that casycom_destroy_object has destroyed under it.
LinksLive == SourcesLive /\ CreatorsAcyclic /\ RunningLive

\* casycom_reset, which only ever destroys the last link, destroys all objects.
ResetFrees == loop = "done" => heap = {} /\ omap = <<>>

\* An error set while a message is delivered is not pending when the round ends,
\* unless the loop quits.
ErrorKept == error = "delivery" /\ loop \in {"idle", "sweep"} => quitting

\* With the first message that an object gets, an error set before goes too: the
\* message leaves the queue with no error left, or with all the others.
DeliverySettles ==
    [][loop = "queues" /\ stack # <<>> /\ Len(inq') < Len(inq)
          => error' = "none" \/ (quitting' /\ inq' = <<>>)]_vars

\* The way up the creators has an end: the error is handled, or the loop quits.
\* (An object without the interface of the message ends the process otherwise.)
ErrorsEnd ==
    (error # "none" /\ loop = "queues" /\ stack # <<>>)
        ~> (error = "none" \/ quitting \/ loop = "crashed")

\* "Error handling will begin as soon as the failing function returns" and "If
\* nobody handles the error, it will be printed and the process will terminate"
\* (docs/tutipcom.html:83, 91), of errors set while a message is delivered, and
\* of those of destructors once a message is.
ErrorNotLost == []ErrorKept /\ DeliverySettles /\ ErrorsEnd

\* An object marked unused is destroyed.
UnusedDestroyed ==
    \A n \in 1 .. MaxLinks + 1 :
        (\E p \in DOMAIN omap : omap[p].unused /\ omap[p].o = n) ~> (n \notin heap)


-----------------------------------------------------------------------------
(* Properties stated by the repository that the code does not have *)

\* "message addressed to object deleted after sending" (main.c:467) is skipped.
StaleDropped ==
    [][Delivering /\ Head(inq).stale => stack' = stack /\ loop' # "crashed"]_vars

\* ".object_destroyed is called on an object when it has a proxy to an object
\* that has been deleted" (docs/tutipcom.html:158): there is an object to call.
CallersExist == loop # "crashed"

\* "If nobody handles the error, it will be printed and the process will
\* terminate" (docs/tutipcom.html:91): casycom_idle does not end the loop for
\* want of messages while an error waits for one.
ErrorPrinted == [][loop = "sweep" /\ error # "none" /\ quitting' => quitting]_vars

\* "ol->o is one of those locks" (main.c:325): the destructor of an object is
\* called once.
DestroyedOnce == \A k \in DOMAIN stack : stack[k].fn = "destroy" => stack[k].obj \in heap
=============================================================================
