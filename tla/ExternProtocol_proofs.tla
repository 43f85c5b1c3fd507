------------------------ MODULE ExternProtocol_proofs -------------------------
(***************************************************************************)
(* Proofs for ExternProtocol: what is always true of the Externs and       *)
(* relays of two processes, whatever they export and import and however    *)
(* their connection ends; and for a client that exports nothing, that its  *)
(* calls are taken, and answers come, as they were made.                   *)
(*                                                                         *)
(* The operators that xcom.c is modelled by take a process to a process;   *)
(* for each there is a lemma that says which fields it changes, and one    *)
(* that says that it leaves the process good.  A step is made of them.     *)
(* The invariants are in ExternRoutes.  The first part shows RelaysInv,    *)
(* the second RoutesInv, process by process and step by step; the third    *)
(* shows that each step is one of a few kinds, and the last that those     *)
(* keep calls and replies in order.                                        *)
(***************************************************************************)
EXTENDS ExternRoutes


-----------------------------------------------------------------------------

\* The first free oid is one of them.
LEMMA MinIn ==
    ASSUME NEW S \in SUBSET Nat, S # {}
    PROVE  Min(S) \in S
<1>1. PICK n \in S : \A m \in S : n <= m
  BY LeastMember
<1> QED
  BY <1>1 DEF Min

\* The oids of objects are numbers, and none of them is App or Ext.
LEMMA OidFacts ==
    /\ MaxOid \in Nat /\ oid_Last \in Nat /\ Oids \subseteq Nat /\ Oids \subseteq 0 .. MaxOid
    /\ NoOid \notin Oids /\ App \notin Oids /\ Ext \notin Oids
    /\ \A o \in Oids : {NoOid, App, Ext, o} \subseteq 0 .. MaxOid
BY ProtocolAssumption DEF Oids, NoOid, App, Ext, oid_Last

\* The extids a side makes and those it gets are different.
LEMMA ExtidFacts ==
    ASSUME NEW p \in Procs
    PROVE  /\ \A o \in Oids : /\ NewExtid(p, o) \in Nat /\ NewExtid(p, o) # extid_COM
                              /\ ~Foreign(p, NewExtid(p, o))
           /\ \A o, q \in Nat : NewExtid(p, o) = NewExtid(p, q) => o = q
           /\ \A o \in 0 .. MaxOid : NewExtid(p, o) \in Nat
BY OidFacts DEF NewExtid, Foreign, InRange, extid_Base, extid_Last, extid_COM, Procs, Oids, oid_Last

-----------------------------------------------------------------------------
(* What the operators do to the fields of a process *)

\* What casymsg_end changes of a process.
LEMMA PostIs ==
    ASSUME NEW P, DOMAIN P = Field, NEW m, NEW Q, Q = Post(P, m)
    PROVE  Same(P, Q, {"outq"}) /\ Q.outq = Append(P.outq, m)
BY DEF Post, Same, Field

\* What taking a message off the queue changes.
LEMMA TakenIs ==
    ASSUME NEW p, DOMAIN proc[p] = Field, NEW Q, Q = Taken(p)
    PROVE  Same(proc[p], Q, {"inq"}) /\ Q.inq = Tail(proc[p].inq)
BY DEF Taken, Same, Field

\* What Extern_Extern_close changes: messages of outgoing are cut off at its end.
LEMMA ClosedIs ==
    ASSUME NEW P, DOMAIN P = Field, NEW Q \in Closed(P)
    PROVE  /\ Same(P, Q, {"ext", "out"}) /\ Q.ext = "closed"
           /\ \E k \in 0 .. Len(P.out) : Q.out = SubSeq(P.out, 1, k)
BY DEF Closed, Same, Field

\* What Extern_queue_outgoing_message changes.
LEMMA OutgoingIs ==
    ASSUME NEW p, NEW P, DOMAIN P = Field, NEW oid, NEW kind, NEW iid, NEW n,
           NEW Q, Q = Outgoing(p, P, oid, kind, iid, n)
    PROVE  /\ Same(P, Q, {"conns", "extlinks", "out"})
           /\ \E c : SentBy(p, P, Q, oid, kind, iid, n, c)
<1> DEFINE found == Extern_COMConn_by_oid(P, oid)
           new == [oid |-> oid, extid |-> NewExtid(p, oid)]
<1>0. PICK c : c = IF found = {} THEN new ELSE CHOOSE d \in found : TRUE
  OBVIOUS
<1>1. (found = {} /\ c = new) \/ (c \in found /\ found # {})
  BY <1>0
<1>2. \A d : d \in found <=> d \in P.conns /\ d.oid = oid
  BY DEF Extern_COMConn_by_oid
<1>3. Q = [P EXCEPT
        !.conns = IF kind = "delete" THEN @ \ {c} ELSE @ \cup {c},
        !.extlinks = IF found = {} THEN @ \cup {oid} ELSE @,
        !.out = IF P.ext = "open"
                THEN Append(@, [extid |-> c.extid, kind |-> kind, iid |-> iid, n |-> n])
                ELSE @]
  BY <1>0 DEF Outgoing
<1> HIDE DEF found
<1>4. /\ Same(P, Q, {"conns", "extlinks", "out"})
      /\ Q.conns = IF kind = "delete" THEN P.conns \ {c} ELSE P.conns \cup {c}
      /\ Q.extlinks = IF found = {} THEN P.extlinks \cup {oid} ELSE P.extlinks
      /\ Q.out = IF P.ext = "open"
                 THEN Append(P.out, [extid |-> c.extid, kind |-> kind, iid |-> iid, n |-> n])
                 ELSE P.out
  BY <1>3 DEF Same, Field
<1>5. Leaves(p, P, oid, c) /\ c.oid = oid
  BY <1>1, <1>2 DEF Leaves
<1>6. found = {} <=> c \notin P.conns
  BY <1>1, <1>2
<1>7. SentBy(p, P, Q, oid, kind, iid, n, c)
  BY <1>4, <1>5, <1>6 DEF SentBy
<1> QED
  BY <1>4, <1>7

\* The relay that the head of the queue is delivered to, after it was created.
LEMMA FindOrCreateIs ==
    ASSUME NEW P, DOMAIN P = Field, NEW m, NEW Q, Q = FindOrCreate(P, m)
    PROVE  /\ Same(P, Q, {"relay"})
           /\ DOMAIN Q.relay = DOMAIN P.relay \cup {m.dest}
           /\ \A o \in DOMAIN P.relay : Q.relay[o] = P.relay[o]
           /\ m.dest \notin DOMAIN P.relay =>
                Q.relay[m.dest] = [
                    localp |-> IF m.iid = "COM" THEN NoOid ELSE m.src, serves |-> FALSE,
                    pExtern |-> P.ext \in {"open", "closed"}
                                /\ IF m.iid = "COM" THEN \E c \in P.conns : c.oid = m.dest
                                                    ELSE m.iid \in P.interfaces,
                    unused |-> FALSE]
<1>1. CASE m.dest \in DOMAIN P.relay
  BY <1>1 DEF FindOrCreate, Same
<1>2. CASE m.dest \notin DOMAIN P.relay
  <2>1. PICK o : o = m.dest
    OBVIOUS
  <2>2. PICK r : r = [
                    localp |-> IF m.iid = "COM" THEN NoOid ELSE m.src, serves |-> FALSE,
                    pExtern |-> P.ext \in {"open", "closed"}
                                /\ IF m.iid = "COM" THEN \E c \in P.conns : c.oid = o
                                                    ELSE m.iid \in P.interfaces,
                    unused |-> FALSE]
    OBVIOUS
  <2>3. Q = [P EXCEPT !.relay = With(@, o, r)]
    BY <1>2, <2>1, <2>2, Zenon DEF FindOrCreate, COMRelay_create
  <2>4. Same(P, Q, {"relay"}) /\ Q.relay = With(P.relay, o, r)
    BY <2>3 DEF Same, Field
  <2>5. /\ DOMAIN Q.relay = DOMAIN P.relay \cup {o}
        /\ \A x \in DOMAIN P.relay : Q.relay[x] = P.relay[x]
        /\ o \notin DOMAIN P.relay => Q.relay[o] = r
    <3>1. PICK f, g : f = P.relay /\ g = Q.relay
      OBVIOUS
    <3>2. g = With(f, o, r) /\ o \notin DOMAIN f
      BY <1>2, <2>1, <2>4, <3>1, Zenon
    <3>3. /\ DOMAIN g = DOMAIN f \cup {o} /\ g[o] = r
          /\ \A x \in DOMAIN f : x # o => g[x] = f[x]
      BY <3>2 DEF With
    <3> QED
      BY <3>1, <3>2, <3>3
  <2> QED
    BY <1>2, <2>1, <2>2, <2>4, <2>5
<1> QED
  BY <1>1, <1>2

\* What COMRelay_COM_message does to the relay before it passes on the message.
LEMMA WithLocalIs ==
    ASSUME NEW p, NEW P, DOMAIN P = Field, NEW m, m.dest \in DOMAIN P.relay,
           NEW Q, Q = WithLocal(p, P, m), P.relay[m.dest] \in Relay
    PROVE  /\ Same(P, Q, {"relay"}) /\ DOMAIN Q.relay = DOMAIN P.relay
           /\ \A o \in DOMAIN P.relay : o # m.dest => Q.relay[o] = P.relay[o]
           /\ Q.relay[m.dest] = Local(p, P, m, P.relay[m.dest])
<1>1. CASE P.relay[m.dest].localp # NoOid
  BY <1>1 DEF WithLocal, Same, Local
<1>2. CASE P.relay[m.dest].localp = NoOid
  <2>1. PICK o : o = m.dest
    OBVIOUS
  <2>2. PICK f : f = Min(Free(P))
    OBVIOUS
  <2>3. PICK b : b = IsExported(p, m.iid)
    OBVIOUS
  <2>4. Q = [P EXCEPT !.relay[o].localp = f, !.relay[o].serves = b]
    BY <1>2, <2>1, <2>2, <2>3 DEF WithLocal
  <2>5. Same(P, Q, {"relay"}) /\ DOMAIN Q.relay = DOMAIN P.relay
    BY <2>4 DEF Same, Field
  <2>6. \A x \in DOMAIN P.relay : x # o => Q.relay[x] = P.relay[x]
    BY <2>4 DEF Field
  <2>7. Q.relay[o] = [localp |-> f, serves |-> b, pExtern |-> P.relay[o].pExtern,
                      unused |-> P.relay[o].unused]
    <3>1. Q.relay[o] = [P.relay[o] EXCEPT !.localp = f, !.serves = b]
      BY <2>4, <2>1 DEF Field
    <3> QED
      BY <3>1, <2>1 DEF Relay
  <2> QED
    BY <1>2, <2>1, <2>2, <2>3, <2>5, <2>6, <2>7 DEF Local
<1> QED
  BY <1>1, <1>2

\* What COMRelay_destroy changes.
LEMMA DestroyIs ==
    ASSUME NEW p, NEW P, DOMAIN P = Field, NEW o \in DOMAIN P.relay, NEW R, R = COMRelay_destroy(p, P, o)
    PROVE  \E Q : Removed(p, P, Q, o, R)
<1>1. PICK Q : Q = IF P.relay[o].pExtern
                   THEN Outgoing(p, P, Deletes(P, o), "delete", "COM", 0) ELSE P
  OBVIOUS
<1>2. DOMAIN Q = Field /\ Q.relay = P.relay /\ Q.objects = P.objects
  <2>1. CASE P.relay[o].pExtern
    <3>1. PICK d : d = Deletes(P, o)
      OBVIOUS
    <3>2. Q = Outgoing(p, P, d, "delete", "COM", 0)
      BY <1>1, <2>1, <3>1
    <3>3. Same(P, Q, {"conns", "extlinks", "out"})
      BY <3>2, OutgoingIs
    <3> QED
      BY <3>3 DEF Same, Field
  <2>2. CASE ~P.relay[o].pExtern
    BY <1>1, <2>2
  <2> QED
    BY <2>1, <2>2
<1>3. PICK r : r = P.relay[o]
  OBVIOUS
<1>4. R = [Q EXCEPT !.relay = Restrict(@, DOMAIN @ \ {o}),
                 !.objects = IF r.serves THEN Restrict(@, DOMAIN @ \ {r.localp}) ELSE @]
  BY <1>1, <1>3 DEF COMRelay_destroy, Deletes
<1>5. /\ Same(Q, R, {"relay", "objects"})
      /\ R.relay = Restrict(P.relay, DOMAIN P.relay \ {o})
      /\ R.objects = IF r.serves THEN Restrict(P.objects, DOMAIN P.objects \ {r.localp}) ELSE P.objects
  BY <1>2, <1>4 DEF Same, Field
<1> QED
  BY <1>1, <1>3, <1>5, Zenon DEF Restrict, Removed

-----------------------------------------------------------------------------
(* casycom_destroy_unused_objects *)

\* Two such walks are equal as far as both go.
LEMMA SweepsUnique ==
    ASSUME NEW p, NEW Q, NEW U, NEW n \in Nat, NEW f, NEW g,
           Sweeps(p, Q, U, f, n), Sweeps(p, Q, U, g, n)
    PROVE  \A o \in 0 .. n : f[o] = g[o]
<1> DEFINE T == {i \in Nat : i <= n => f[i] = g[i]}
<1>1. 0 \in T
  BY DEF Sweeps, Sweep
<1>2. ASSUME NEW i \in Nat, i \in T PROVE i + 1 \in T
  <2>1. (i + 1) - 1 = i /\ i + 1 # 0
    OBVIOUS
  <2> QED
    BY <1>2, <2>1 DEF Sweeps, Sweep
<1> HIDE DEF T
<1>3. \A i \in Nat : i \in T
  BY <1>1, <1>2, InductiveSet
<1> QED
  BY <1>3 DEF T

\* There is a walk to every oid.
LEMMA SweepsExists ==
    ASSUME NEW p, NEW Q, NEW U
    PROVE  \A n \in Nat : \E f : Sweeps(p, Q, U, f, n)
<1> DEFINE T == {n \in Nat : \E f : Sweeps(p, Q, U, f, n)}
<1>1. 0 \in T
  <2>1. Sweeps(p, Q, U, [i \in {0} |-> Q], 0)
    BY DEF Sweeps, Sweep
  <2> QED
    BY <2>1
<1>2. ASSUME NEW n \in Nat, n \in T PROVE n + 1 \in T
  <2>1. PICK f : Sweeps(p, Q, U, f, n)
    BY <1>2
  <2> DEFINE g == [i \in 0 .. n + 1 |-> IF i <= n THEN f[i] ELSE Sweep(p, Q, U, f, n + 1)]
  <2>2. ASSUME NEW i \in 0 .. n + 1 PROVE g[i] = Sweep(p, Q, U, g, i)
    <3>1. CASE i = 0
      BY <2>1, <3>1 DEF Sweeps, Sweep
    <3>2. CASE i \in 1 .. n
      BY <2>1, <3>2 DEF Sweeps, Sweep
    <3>3. CASE i = n + 1
      BY <3>3 DEF Sweep
    <3> QED
      BY <3>1, <3>2, <3>3
  <2>3. Sweeps(p, Q, U, g, n + 1)
    BY <2>2 DEF Sweeps
  <2> QED
    BY <2>3
<1> HIDE DEF T
<1>3. \A n \in Nat : n \in T
  BY <1>1, <1>2, InductiveSet
<1> QED
  BY <1>3 DEF T

\* casycom_destroy_unused_objects ends with the last value of such a function.
LEMMA DestroyUnusedSweeps ==
    ASSUME NEW p, NEW P, NEW Q, Q = IF P.ext = "closed" THEN Extern_destroy(P) ELSE P,
           NEW U, U = UnusedRelays(Q)
    PROVE  \E f : Sweeps(p, Q, U, f, MaxOid) /\ DestroyUnused(p, P) = f[MaxOid]
<1> DEFINE best(n) == CHOOSE f : Sweeps(p, Q, U, f, n)
           g == [n \in Nat |-> best(n)[n]]
<1>1. ASSUME NEW n \in Nat PROVE Sweeps(p, Q, U, best(n), n)
  BY SweepsExists
<1>2. ASSUME NEW n \in Nat, NEW m \in 0 .. n PROVE best(n)[m] = g[m]
  <2>1. Sweeps(p, Q, U, best(n), m)
    BY <1>1 DEF Sweeps
  <2>2. Sweeps(p, Q, U, best(m), m) /\ m \in 0 .. m
    BY <1>1
  <2> HIDE DEF best
  <2>3. best(n)[m] = best(m)[m]
    BY <2>1, <2>2, SweepsUnique
  <2> QED
    BY <2>3
<1>3. ASSUME NEW n \in Nat PROVE g[n] = Sweep(p, Q, U, g, n)
  <2>1. g[n] = Sweep(p, Q, U, best(n), n)
    BY <1>1 DEF Sweeps
  <2>2. n # 0 => best(n)[n - 1] = g[n - 1]
    <3>1. n # 0 => n - 1 \in 0 .. n
      OBVIOUS
    <3> HIDE DEF best, g
    <3> QED
      BY <1>2, <3>1
  <2> HIDE DEF best, g
  <2> QED
    BY <2>1, <2>2 DEF Sweep
<1> HIDE DEF g
<1> DEFINE F(k) == [o \in Nat |-> IF o = 0 THEN Q
                                  ELSE IF o \in U THEN COMRelay_destroy(p, k[o - 1], o)
                                  ELSE k[o - 1]]
<1>4. \E k : k = F(k)
  <2>1. g = [n \in Nat |-> g[n]]
    BY DEF g
  <2>2. \A n \in Nat : g[n] = IF n = 0 THEN Q
                              ELSE IF n \in U THEN COMRelay_destroy(p, g[n - 1], n)
                              ELSE g[n - 1]
    BY <1>3 DEF Sweep
  <2>3. g = F(g)
    BY <2>1, <2>2, Zenon
  <2> QED
    BY <2>3
<1> DEFINE h == CHOOSE k : k = F(k)
<1>5. h = F(h)
  BY <1>4, Zenon
<1>6. DestroyUnused(p, P) = h[MaxOid]
  BY DEF DestroyUnused
<1> HIDE DEF h
<1>7. Sweeps(p, Q, U, h, MaxOid)
  <2>1. ASSUME NEW n \in Nat PROVE h[n] = Sweep(p, Q, U, h, n)
    BY <1>5, Zenon DEF Sweep
  <2> QED
    BY <2>1, OidFacts DEF Sweeps
<1> QED
  BY <1>6, <1>7

-----------------------------------------------------------------------------
(* What the operators preserve *)

\* A message with a known source keeps the process good.
LEMMA PostGood ==
    ASSUME NEW p, NEW P, NEW D, Good(p, P, D), NEW m \in Message(D), NEW Q, Q = Post(P, m)
    PROVE  Good(p, Q, D)
<1>1. Same(P, Q, {"outq"}) /\ Q.outq = Append(P.outq, m)
  BY PostIs DEF Good
<1>2. Q.outq \in Seq(Message(D)) /\ Q.outq \in Seq(Queued)
  BY <1>1 DEF Good, IsProcess, Message
<1> QED
  BY <1>1, <1>2 DEF Same, Field, Good, IsProcess, ConnsOK, RelaysOK

\* So does a message taken off the queue, which is one of Message.
LEMMA TakenGood ==
    ASSUME NEW p, NEW D, Good(p, proc[p], D), proc[p].inq # <<>>, NEW Q, Q = Taken(p)
    PROVE  /\ Good(p, Q, D) /\ Same(proc[p], Q, {"inq"})
           /\ Head(proc[p].inq) \in Message(D)
<1>1. Same(proc[p], Q, {"inq"}) /\ Q.inq = Tail(proc[p].inq)
  BY TakenIs DEF Good
<1>2. /\ Q.inq \in Seq(Message(D)) /\ Q.inq \in Seq(Queued)
      /\ Head(proc[p].inq) \in Message(D)
  BY <1>1 DEF Good, IsProcess
<1>3. Good(p, Q, D)
  BY <1>1, <1>2 DEF Same, Field, Good, IsProcess, ConnsOK, RelaysOK
<1> QED
  BY <1>1, <1>2, <1>3

\* So does Extern_Extern_close.
LEMMA ClosedGood ==
    ASSUME NEW p, NEW P, NEW D, Good(p, P, D), NEW Q \in Closed(P)
    PROVE  Good(p, Q, D)
<1>1. Same(P, Q, {"ext", "out"}) /\ Q.ext = "closed"
  BY ClosedIs DEF Good
<1>2. PICK k \in 0 .. Len(P.out) : Q.out = SubSeq(P.out, 1, k)
  BY ClosedIs DEF Good
<1>3. Q.out \in Seq(Sendable(D)) /\ Q.out \in Seq(Written)
  BY <1>2 DEF Good, IsProcess
<1> QED
  BY <1>1, <1>3 DEF Same, Field, Good, IsProcess, ConnsOK, RelaysOK

\* A new link is to an oid that no link and, with ConnsOK, no connection has.
LEMMA FreeIs ==
    ASSUME NEW P, Free(P) # {}
    PROVE  /\ Min(Free(P)) \in Oids \ P.extlinks /\ Min(Free(P)) \notin P.applinks
           /\ \A r \in DOMAIN P.relay : P.relay[r].localp # Min(Free(P))
<1>1. Free(P) \in SUBSET Nat
  BY OidFacts DEF Free
<1>2. Min(Free(P)) \in Free(P)
  BY <1>1, MinIn
<1> QED
  BY <1>2 DEF Free, Linked

\* A message that leaves, or a delete, which may be of oid NoOid.
LEMMA OutgoingGood ==
    ASSUME NEW p \in Procs, NEW P, NEW D, Good(p, P, D), NEW oid, NEW kind \in Kinds,
           NEW iid \in Iface \cup {"R", "COM"}, NEW n \in Nat, kind = "call" => n \in D,
           oid \in Oids \/ (kind = "delete" /\ oid = NoOid),
           NEW Q, Q = Outgoing(p, P, oid, kind, iid, n)
    PROVE  Good(p, Q, D) /\ Same(P, Q, {"conns", "extlinks", "out"})
<1>1. /\ Same(P, Q, {"conns", "extlinks", "out"})
      /\ \E c : SentBy(p, P, Q, oid, kind, iid, n, c)
  BY OutgoingIs DEF Good
<1>2. PICK c : /\ Leaves(p, P, oid, c) /\ c.oid = oid
               /\ Q.conns = IF kind = "delete" THEN P.conns \ {c} ELSE P.conns \cup {c}
               /\ Q.extlinks = IF c \in P.conns THEN P.extlinks ELSE P.extlinks \cup {oid}
               /\ Q.out = IF P.ext = "open"
                          THEN Append(P.out, [extid |-> c.extid, kind |-> kind,
                                              iid |-> iid, n |-> n])
                          ELSE P.out
  BY <1>1, Zenon DEF SentBy
<1>3. P.conns \subseteq [oid : 0 .. MaxOid, extid : Nat] /\ ConnsOK(p, P)
  BY DEF Good, IsProcess
<1>4. oid \in 0 .. MaxOid
  <2>1. CASE oid \in Oids
    BY <2>1, OidFacts
  <2>2. CASE oid = NoOid
    BY <2>2, OidFacts DEF NoOid
  <2> QED
    BY <2>1, <2>2
<1>5. NewExtid(p, oid) \in Nat
  BY <1>4, ExtidFacts
<1>6. /\ c \in [oid : 0 .. MaxOid, extid : Nat]
      /\ c \in P.conns \/ (c.extid = NewExtid(p, oid) /\ \A d \in P.conns : d.oid # oid)
  BY <1>2, <1>3, <1>4, <1>5 DEF Leaves
<1>7. oid \in Oids => c.extid # extid_COM
  BY <1>3, <1>6, ExtidFacts DEF ConnsOK, Foreign
<1>8. /\ Q.conns \subseteq [oid : 0 .. MaxOid, extid : Nat] /\ Q.extlinks \subseteq 0 .. MaxOid
      /\ P.extlinks \subseteq Q.extlinks
  BY <1>2, <1>3, <1>4, <1>6 DEF Good, IsProcess
<1>9. ConnsOK(p, Q)
  <2>1. CASE kind = "delete"
    BY <1>2, <1>3, <1>8, <2>1 DEF ConnsOK
  <2>2. CASE kind # "delete" /\ c \in P.conns
    BY <1>2, <1>3, <1>8, <2>2 DEF ConnsOK
  <2>3. CASE kind # "delete" /\ c \notin P.conns
    <3>1. oid \in Oids /\ Q.conns = P.conns \cup {c} /\ oid \in Q.extlinks
      BY <1>2, <2>3
    <3>2. c.oid = oid /\ c.extid = NewExtid(p, oid) /\ \A d \in P.conns : d.oid # oid
      BY <1>2, <1>6, <2>3
    <3>3. \A d \in P.conns : d.extid # c.extid
      <4> SUFFICES ASSUME NEW d \in P.conns, d.extid = NewExtid(p, oid) PROVE FALSE
        BY <3>2
      <4>1. d.oid \in Oids /\ (d.extid = NewExtid(p, d.oid) \/ Foreign(p, d.extid))
        BY <1>3 DEF ConnsOK
      <4>2. d.oid \in Nat /\ oid \in Nat /\ ~Foreign(p, NewExtid(p, oid))
        BY <4>1, <3>1, OidFacts, ExtidFacts
      <4>3. NewExtid(p, d.oid) = NewExtid(p, oid)
        BY <4>1, <4>2
      <4>4. d.oid = oid
        BY <4>2, <4>3, ExtidFacts
      <4> QED
        BY <3>2, <4>4
    <3>4. \A d \in Q.conns : /\ d.oid \in Oids \cap Q.extlinks
                             /\ d.extid = NewExtid(p, d.oid) \/ Foreign(p, d.extid)
      BY <1>3, <1>8, <3>1, <3>2 DEF ConnsOK
    <3>5. \A d, e \in Q.conns : d.oid = e.oid <=> d.extid = e.extid
      BY <1>3, <3>1, <3>2, <3>3 DEF ConnsOK
    <3> QED
      BY <3>4, <3>5 DEF ConnsOK
  <2> QED
    BY <2>1, <2>2, <2>3
<1>10. Q.out \in Seq(Sendable(D)) /\ Q.out \in Seq(Written)
  <2>1. PICK w : w = [extid |-> c.extid, kind |-> kind, iid |-> iid, n |-> n]
    OBVIOUS
  <2>2. w \in Written /\ w \in Sendable(D)
    BY <1>6, <1>7, <2>1 DEF Written, Sendable
  <2>3. P.out \in Seq(Sendable(D)) /\ P.out \in Seq(Written)
    BY DEF Good, IsProcess
  <2>4. Q.out = P.out \/ Q.out = Append(P.out, w)
    BY <1>2, <2>1
  <2>5. Append(P.out, w) \in Seq(Sendable(D)) /\ Append(P.out, w) \in Seq(Written)
    BY ONLY <2>2, <2>3, AppendProperties
  <2> QED
    BY <2>3, <2>4, <2>5
<1>11. Good(p, Q, D)
  BY <1>1, <1>8, <1>9, <1>10 DEF Same, Field, Good, IsProcess, RelaysOK
<1> QED
  BY <1>1, <1>11

\* casycom_find_or_create_destination makes a relay with an Extern only while there is one.
LEMMA FindOrCreateGood ==
    ASSUME NEW p, NEW P, NEW D, Good(p, P, D), NEW m \in Message(D), m.dest \in Oids,
           NEW Q, Q = FindOrCreate(P, m)
    PROVE  /\ Good(p, Q, D) /\ Same(P, Q, {"relay"}) /\ m.dest \in DOMAIN Q.relay
           /\ Q.relay[m.dest].localp = NoOid => Free(Q) = Free(P)
<1>1. PICK o : o = m.dest
  OBVIOUS
<1>2. /\ Same(P, Q, {"relay"})
      /\ DOMAIN Q.relay = DOMAIN P.relay \cup {o}
      /\ \A x \in DOMAIN P.relay : Q.relay[x] = P.relay[x]
      /\ o \notin DOMAIN P.relay =>
           Q.relay[o] = [
               localp |-> IF m.iid = "COM" THEN NoOid ELSE m.src, serves |-> FALSE,
               pExtern |-> P.ext \in {"open", "closed"}
                           /\ IF m.iid = "COM" THEN \E c \in P.conns : c.oid = o
                                               ELSE m.iid \in P.interfaces,
               unused |-> FALSE]
  BY <1>1, FindOrCreateIs DEF Good
<1>3. m.src \in 0 .. MaxOid
  <2>1. m.src \in {App, Ext} \cup Oids /\ o \in Oids
    BY <1>1 DEF Message
  <2> QED
    BY <2>1, OidFacts
<1>4. ASSUME o \notin DOMAIN P.relay
      PROVE  /\ Q.relay[o] \in Relay /\ ~Q.relay[o].serves
             /\ Q.relay[o].pExtern => P.ext \in {"open", "closed"}
  <2>1. PICK l, b : /\ l = IF m.iid = "COM" THEN NoOid ELSE m.src
                    /\ b = (P.ext \in {"open", "closed"}
                           /\ IF m.iid = "COM" THEN \E c \in P.conns : c.oid = o
                                               ELSE m.iid \in P.interfaces)
    OBVIOUS
  <2>2. b \in BOOLEAN /\ (b => P.ext \in {"open", "closed"})
    BY <2>1
  <2>3. l \in 0 .. MaxOid
    BY <1>3, <2>1, OidFacts DEF NoOid
  <2>4. Q.relay[o] = [localp |-> l, serves |-> FALSE, pExtern |-> b, unused |-> FALSE]
    BY <1>2, <1>4, <2>1, Zenon
  <2> QED
    BY <2>2, <2>3, <2>4 DEF Relay
<1>5. /\ \A x \in DOMAIN Q.relay : Q.relay[x] \in Relay
      /\ DOMAIN Q.relay \subseteq Oids
      /\ RelaysOK(Q)
  <2>1. /\ \A x \in DOMAIN P.relay : P.relay[x] \in Relay
        /\ DOMAIN P.relay \subseteq Oids /\ RelaysOK(P) /\ Q.ext = P.ext
    BY <1>2 DEF Good, IsProcess, Same, Field
  <2> QED
    BY <1>1, <1>2, <1>4, <2>1 DEF RelaysOK
<1>6. Good(p, Q, D)
  BY <1>2, <1>5 DEF Same, Field, Good, IsProcess, ConnsOK
<1>7. ASSUME Q.relay[o].localp = NoOid PROVE Free(Q) = Free(P)
  <2>1. \A x \in DOMAIN Q.relay : x \in DOMAIN P.relay \/ Q.relay[x].localp = NoOid
    BY <1>2, <1>7
  <2>2. Oids \cap {Q.relay[x].localp : x \in DOMAIN Q.relay}
           = Oids \cap {P.relay[x].localp : x \in DOMAIN P.relay}
    BY <1>2, <2>1, OidFacts
  <2>3. Q.applinks = P.applinks /\ Q.extlinks = P.extlinks
    BY <1>2 DEF Same, Field
  <2> QED
    BY <2>2, <2>3 DEF Free, Linked
<1> QED
  BY <1>1, <1>2, <1>6, <1>7

\* The oid of a new local object is free.
LEMMA WithLocalGood ==
    ASSUME NEW p, NEW P, NEW D, Good(p, P, D), NEW m, m.dest \in DOMAIN P.relay,
           P.relay[m.dest].localp = NoOid => Free(P) # {}, NEW Q, Q = WithLocal(p, P, m)
    PROVE  /\ Good(p, Q, D) /\ Same(P, Q, {"relay"}) /\ m.dest \in DOMAIN Q.relay
<1>1. PICK o : o = m.dest
  OBVIOUS
<1>2. P.relay[o] \in Relay /\ o \in DOMAIN P.relay
  BY <1>1 DEF Good, IsProcess
<1>3. /\ Same(P, Q, {"relay"}) /\ DOMAIN Q.relay = DOMAIN P.relay
      /\ \A x \in DOMAIN P.relay : x # o => Q.relay[x] = P.relay[x]
      /\ Q.relay[o] = Local(p, P, m, P.relay[o])
  BY <1>1, <1>2, WithLocalIs DEF Good
<1>4. /\ Q.relay[o] \in Relay /\ Q.relay[o].pExtern = P.relay[o].pExtern
      /\ Q.relay[o].serves => Q.relay[o].localp \in Oids
  <2>1. CASE P.relay[o].localp # NoOid
    BY <1>2, <1>3, <2>1 DEF Good, RelaysOK, Local
  <2>2. CASE P.relay[o].localp = NoOid
    <3>1. Min(Free(P)) \in Oids
      BY <1>1, <2>2, FreeIs
    <3>2. PICK b, f, r : b = IsExported(p, m.iid) /\ f = Min(Free(P)) /\ r = P.relay[o]
      OBVIOUS
    <3>3. b \in BOOLEAN /\ f \in Oids /\ f \in 0 .. MaxOid /\ r \in Relay
      <4>1. b \in BOOLEAN
        BY <3>2 DEF IsExported
      <4>2. f \in Oids /\ f \in 0 .. MaxOid
        BY <3>1, <3>2, OidFacts
      <4>3. r \in Relay
        BY <1>2, <3>2
      <4> QED
        BY <4>1, <4>2, <4>3
    <3>4. Q.relay[o] = [localp |-> f, serves |-> b, pExtern |-> r.pExtern, unused |-> r.unused]
      BY <1>3, <2>2, <3>2 DEF Local
    <3> QED
      BY <3>2, <3>3, <3>4 DEF Relay
  <2> QED
    BY <2>1, <2>2
<1>5. /\ \A x \in DOMAIN Q.relay : Q.relay[x] \in Relay
      /\ DOMAIN Q.relay \subseteq Oids
      /\ RelaysOK(Q)
  <2>1. /\ \A x \in DOMAIN P.relay : P.relay[x] \in Relay
        /\ DOMAIN P.relay \subseteq Oids /\ RelaysOK(P) /\ Q.ext = P.ext
    BY <1>3 DEF Good, IsProcess, Same, Field
  <2> QED
    BY <1>2, <1>3, <1>4, <2>1 DEF RelaysOK
<1>6. Good(p, Q, D)
  BY <1>3, <1>5 DEF Same, Field, Good, IsProcess, ConnsOK
<1> QED
  BY <1>1, <1>2, <1>3, <1>6

\* COMRelay_destroy keeps the process good.
LEMMA DestroyGood ==
    ASSUME NEW p \in Procs, NEW P, NEW D, Good(p, P, D), NEW o \in DOMAIN P.relay,
           NEW R, R = COMRelay_destroy(p, P, o)
    PROVE  /\ Good(p, R, D) /\ DOMAIN R.relay = DOMAIN P.relay \ {o}
           /\ Same(P, R, {"relay", "objects", "conns", "extlinks", "out"})
<1>0. \E Q : Removed(p, P, Q, o, R)
  BY DestroyIs DEF Good
<1>1. PICK Q : /\ Q = IF P.relay[o].pExtern
                      THEN Outgoing(p, P, Deletes(P, o), "delete", "COM", 0) ELSE P
               /\ Same(Q, R, {"relay", "objects"})
               /\ R.relay = [x \in DOMAIN P.relay \ {o} |-> P.relay[x]]
               /\ R.objects = IF P.relay[o].serves
                              THEN [x \in DOMAIN P.objects \ {P.relay[o].localp} |-> P.objects[x]]
                              ELSE P.objects
  BY <1>0 DEF Removed
<1>2. Good(p, Q, D) /\ Same(P, Q, {"conns", "extlinks", "out"})
  <2>1. CASE P.relay[o].pExtern
    <3>1. PICK d : d = Deletes(P, o)
      OBVIOUS
    <3>2. Q = Outgoing(p, P, d, "delete", "COM", 0)
      BY <1>1, <2>1, <3>1
    <3>3. d \in Oids \/ ("delete" = "delete" /\ d = NoOid)
      BY <3>1 DEF Good, IsProcess, Deletes
    <3>4. "delete" \in Kinds /\ "COM" \in Iface \cup {"R", "COM"} /\ 0 \in Nat /\ "delete" # "call"
      BY DEF Kinds
    <3> QED
      BY <3>2, <3>3, <3>4, OutgoingGood
  <2>2. CASE ~P.relay[o].pExtern
    BY <1>1, <2>2 DEF Same, Good
  <2> QED
    BY <2>1, <2>2
<1>3. Q.relay = P.relay /\ Q.objects = P.objects
  BY <1>2 DEF Same, Field
<1>4. /\ DOMAIN R.relay = DOMAIN P.relay \ {o} /\ \A x \in DOMAIN R.relay : R.relay[x] = P.relay[x]
      /\ DOMAIN R.objects \subseteq DOMAIN P.objects
      /\ \A x \in DOMAIN R.objects : R.objects[x] = P.objects[x]
  BY <1>1
<1>5. Good(p, R, D)
  BY <1>1, <1>2, <1>3, <1>4 DEF Same, Field, Good, IsProcess, ConnsOK, RelaysOK
<1>6. Same(P, R, {"relay", "objects", "conns", "extlinks", "out"})
  BY <1>1, <1>2 DEF Same, Field
<1> QED
  BY <1>4, <1>5, <1>6

\* Relays that are left have no Extern any more.
LEMMA ExternDestroyGood ==
    ASSUME NEW p, NEW P, NEW D, Good(p, P, D), NEW Q, Q = Extern_destroy(P)
    PROVE  Good(p, Q, D)
<1> DEFINE orphans == {o \in DOMAIN P.relay : o \notin P.applinks}
           served == {P.relay[o].localp : o \in {r \in orphans : P.relay[r].serves}}
<1>1. /\ DOMAIN Q = Field
      /\ Q.ext = "gone" /\ Q.interfaces = {} /\ Q.conns = {} /\ Q.extlinks = {}
      /\ Q.relay = [o \in DOMAIN P.relay \ orphans |-> COMRelay_object_destroyed(P.relay[o])]
      /\ Q.objects = [x \in DOMAIN P.objects \ served |-> P.objects[x]]
      /\ Q.told = P.told /\ Q.applinks = P.applinks
      /\ Q.inq = P.inq /\ Q.outq = P.outq /\ Q.out = P.out
  BY DEF Extern_destroy, Restrict, Good, Field
<1> HIDE DEF orphans, served
<1>2. /\ DOMAIN Q.relay \subseteq DOMAIN P.relay
      /\ \A o \in DOMAIN Q.relay : Q.relay[o] = COMRelay_object_destroyed(P.relay[o])
      /\ DOMAIN Q.objects \subseteq DOMAIN P.objects
      /\ \A o \in DOMAIN Q.objects : Q.objects[o] = P.objects[o]
  BY <1>1
<1>3. ASSUME NEW r \in Relay
      PROVE  /\ COMRelay_object_destroyed(r) \in Relay /\ ~COMRelay_object_destroyed(r).pExtern
             /\ COMRelay_object_destroyed(r).serves = r.serves
             /\ COMRelay_object_destroyed(r).localp = r.localp
  BY DEF COMRelay_object_destroyed, Relay
<1>4. \A o \in DOMAIN Q.relay : /\ P.relay[o] \in Relay /\ o \in Oids /\ Q.relay[o] \in Relay
                                /\ ~Q.relay[o].pExtern
                                /\ Q.relay[o].serves => Q.relay[o].localp \in Oids
  BY <1>2, <1>3 DEF Good, IsProcess, RelaysOK
<1> QED
  BY <1>1, <1>2, <1>4 DEF Good, IsProcess, ConnsOK, RelaysOK

\* casycom_destroy_unused_objects keeps the process good, oid by oid.
LEMMA DestroyUnusedGood ==
    ASSUME NEW p \in Procs, NEW P, NEW D, Good(p, P, D)
    PROVE  Good(p, DestroyUnused(p, P), D)
<1>1. PICK Q : Q = IF P.ext = "closed" THEN Extern_destroy(P) ELSE P
  OBVIOUS
<1>2. PICK U : U = UnusedRelays(Q)
  OBVIOUS
<1>3. PICK f : Sweeps(p, Q, U, f, MaxOid) /\ DestroyUnused(p, P) = f[MaxOid]
  BY <1>1, <1>2, DestroyUnusedSweeps
<1>4. Good(p, Q, D) /\ U \subseteq DOMAIN Q.relay /\ DOMAIN Q.relay \subseteq Oids
  <2>1. Good(p, Q, D)
    BY <1>1, ExternDestroyGood
  <2>2. U \subseteq DOMAIN Q.relay
    BY <1>2 DEF UnusedRelays
  <2>3. DOMAIN Q.relay \subseteq Oids
    BY <2>1 DEF Good, IsProcess
  <2> QED
    BY <2>1, <2>2, <2>3
<1> DEFINE Left(n) == /\ Good(p, f[n], D)
                      /\ DOMAIN f[n].relay = DOMAIN Q.relay \ (U \cap 1 .. n)
           T == {n \in Nat : n <= MaxOid => Left(n)}
<1>5. 0 \in T
  <2>1. f[0] = Q
    BY <1>3, OidFacts DEF Sweeps, Sweep
  <2>2. 1 .. 0 = {}
    OBVIOUS
  <2> QED
    BY <1>4, <2>1, <2>2
<1>6. ASSUME NEW n \in Nat, n \in T PROVE n + 1 \in T
  <2> SUFFICES ASSUME n + 1 <= MaxOid PROVE Left(n + 1)
    OBVIOUS
  <2>1. PICK o : o = n + 1
    OBVIOUS
  <2>2. /\ n <= MaxOid /\ o \in 0 .. MaxOid /\ o # 0 /\ o - 1 = n
        /\ 1 .. o = (1 .. n) \cup {o} /\ o \notin 1 .. n
    BY <2>1, OidFacts
  <2>3. Left(n)
    BY <1>6, <2>2
  <2>4. f[o] = IF o \in U THEN COMRelay_destroy(p, f[n], o) ELSE f[n]
    <3>1. f[o] = Sweep(p, Q, U, f, o)
      BY <1>3, <2>2 DEF Sweeps
    <3> QED
      BY <2>2, <3>1 DEF Sweep
  <2>5. CASE o \in U
    <3>1. o \in DOMAIN f[n].relay
      BY <1>4, <2>2, <2>3, <2>5
    <3>2. Good(p, f[o], D) /\ DOMAIN f[o].relay = DOMAIN f[n].relay \ {o}
      BY <2>3, <2>4, <2>5, <3>1, DestroyGood
    <3> QED
      BY <2>1, <2>2, <2>3, <2>5, <3>2
  <2>6. CASE o \notin U
    BY <2>1, <2>2, <2>3, <2>4, <2>6
  <2> QED
    BY <2>5, <2>6
<1> HIDE DEF T
<1>7. \A n \in Nat : n \in T
  BY <1>5, <1>6, InductiveSet
<1>8. Left(MaxOid)
  BY <1>7, OidFacts DEF T
<1> QED
  BY <1>3, <1>8

-----------------------------------------------------------------------------
(* Messages of the socket *)

\* What one valid message of the socket does to the process.
LEMMA IncomingIs ==
    ASSUME NEW p, NEW P, NEW D, Good(p, P, D), NEW m \in Sendable(D), NEW Q \in Incoming(p, P, m)
    PROVE  \/ TakesExport(p, P, m, Q)
           \/ m.extid = extid_COM /\ m.kind = "delete" /\ Q \in Closed(P)
           \/ m.extid # extid_COM /\ m.iid = "COM" /\ Q = P /\ \A c \in P.conns : c.extid # m.extid
           \/ \E c : TakesKnown(p, P, m, c, Q)
           \/ \E o : TakesNew(p, P, m, o, Q)
<1> DEFINE found == Extern_COMConn_by_extid(P, m.extid)
           new == found = {}
<1>0. PICK c : c = IF new THEN [oid |-> Min(Free(P)), extid |-> m.extid]
                   ELSE CHOOSE d \in found : TRUE
  OBVIOUS
<1>1. found = {d \in P.conns : d.extid = m.extid}
  BY DEF Extern_COMConn_by_extid
<1>2. m.extid = extid_COM => m.kind \in {"export", "delete"}
  BY DEF Sendable
<1>3. Q \in CASE m.extid = extid_COM /\ m.kind = "export" -> {Extern_COM_export(p, P)}
         [] m.extid = extid_COM /\ m.kind = "delete" -> Closed(P)
         [] m.extid # extid_COM /\ new /\ m.iid = "COM" -> {P}
         [] OTHER -> {[P EXCEPT
                !.conns = @ \cup {c}, !.extlinks = @ \cup {c.oid},
                !.outq = @ \o Extern_queue_incoming_message(p, m, c.oid, new)]}
  BY <1>0 DEF Incoming
<1>4. CASE m.extid = extid_COM /\ m.kind = "export"
  <2>1. Q = Extern_COM_export(p, P)
    BY <1>3, <1>4
  <2>2. PICK F : F = Found(p)
    OBVIOUS
  <2>3. Q = Post([P EXCEPT !.interfaces = F], Msg(Ext, App, "connected", "COM", 0))
    BY <2>1, <2>2 DEF Extern_COM_export, Found
  <2>4. F \subseteq Iface
    BY <2>2, ProtocolAssumption DEF Found
  <2>5. /\ Same(P, Q, {"interfaces", "outq"}) /\ Q.interfaces = F
        /\ Q.outq = Append(P.outq, Msg(Ext, App, "connected", "COM", 0))
    BY <2>3 DEF Post, Same, Field, Good
  <2> QED
    BY <1>4, <2>2, <2>4, <2>5 DEF TakesExport
<1>5. CASE m.extid = extid_COM /\ m.kind = "delete"
  <2>1. Q \in Closed(P)
    BY <1>3, <1>5
  <2> QED
    BY <1>5, <2>1
<1>6. CASE m.extid # extid_COM /\ new /\ m.iid = "COM"
  <2>1. Q = P
    BY <1>3, <1>6
  <2> QED
    BY <1>1, <1>6, <2>1
<1>7. CASE m.extid # extid_COM /\ ~(new /\ m.iid = "COM")
  <2>1. PICK x : x = Extern_queue_incoming_message(p, m, c.oid, new)
    OBVIOUS
  <2>2. Q = [P EXCEPT !.conns = @ \cup {c}, !.extlinks = @ \cup {c.oid}, !.outq = @ \o x]
    BY <1>3, <1>7, <2>1
  <2>3. /\ Same(P, Q, {"conns", "extlinks", "outq"}) /\ Q.conns = P.conns \cup {c}
        /\ Q.extlinks = P.extlinks \cup {c.oid} /\ Q.outq = P.outq \o x
    BY <2>2 DEF Same, Field, Good
  <2>4. P.outq \in Seq(Queued)
    BY DEF Good, IsProcess
  <2>5. CASE new
    <3>1. x = <<Msg(Ext, c.oid, "create", "COM", 0), Msg(Ext, c.oid, m.kind, m.iid, m.n)>>
      BY <2>1, <2>5 DEF Extern_queue_incoming_message
    <3>2. c = [oid |-> Min(Free(P)), extid |-> m.extid] /\ \A d \in P.conns : d.extid # m.extid
      BY <1>0, <1>1, <2>5
    <3>3. PICK a, b : /\ a = Msg(Ext, c.oid, "create", "COM", 0)
                      /\ b = Msg(Ext, c.oid, m.kind, m.iid, m.n)
      OBVIOUS
    <3>4. P.outq \o <<a, b>> = Append(Append(P.outq, a), b)
      BY <2>4
    <3>5. TakesNew(p, P, m, c.oid, Q)
      <4>1. c.oid = Min(Free(P)) /\ c = [oid |-> c.oid, extid |-> m.extid] /\ m.iid # "COM"
        BY <1>7, <2>5, <3>2
      <4>2. Q.outq = Append(Append(P.outq, a), b)
        BY <2>3, <3>1, <3>3, <3>4
      <4> QED
        BY <1>7, <2>3, <3>2, <3>3, <4>1, <4>2, Zenon DEF TakesNew
    <3> QED
      BY <3>5
  <2>6. CASE ~new
    <3>1. x = <<Msg(Ext, c.oid, m.kind, m.iid, m.n)>>
      BY <2>1, <2>6 DEF Extern_queue_incoming_message
    <3>2. c \in P.conns /\ c.extid = m.extid
      BY <1>0, <1>1, <2>6
    <3>3. PICK b : b = Msg(Ext, c.oid, m.kind, m.iid, m.n)
      OBVIOUS
    <3>4. P.outq \o <<b>> = Append(P.outq, b)
      BY <2>4
    <3>5. Q.outq = Append(P.outq, b) /\ Q.conns = P.conns
      BY <2>3, <3>1, <3>2, <3>3, <3>4
    <3>6. Same(P, Q, {"extlinks", "outq"})
      BY <2>3, <3>5 DEF Same, Field
    <3>7. TakesKnown(p, P, m, c, Q)
      BY <1>7, <2>3, <3>2, <3>3, <3>5, <3>6 DEF TakesKnown
    <3> QED
      BY <3>7
  <2> QED
    BY <2>5, <2>6
<1> QED
  BY <1>2, <1>4, <1>5, <1>6, <1>7

\* A valid message has the extid of a connection or one the other side makes, so
\* that no connection is made twice, with an oid that no other connection has.
LEMMA IncomingGood ==
    ASSUME NEW p \in Procs, NEW P, NEW D, Good(p, P, D), NEW m \in Sendable(D),
           Free(P) # {}, ~Invalid(p, P, m), NEW Q \in Incoming(p, P, m)
    PROVE  Good(p, Q, D)
<1>0. /\ P.outq \in Seq(Message(D)) /\ P.outq \in Seq(Queued)
      /\ P.conns \subseteq [oid : 0 .. MaxOid, extid : Nat] /\ P.extlinks \subseteq 0 .. MaxOid
      /\ ConnsOK(p, P)
  BY DEF Good, IsProcess
<1>1. ASSUME NEW o \in Nat
      PROVE  /\ Msg(Ext, o, m.kind, m.iid, m.n) \in Message(D)
             /\ Msg(Ext, o, "create", "COM", 0) \in Message(D)
             /\ Msg(Ext, o, "connected", "COM", 0) \in Message(D)
  BY DEF Msg, Message, Queued, Sendable, Written, Kinds, Ext
<1>2. CASE TakesExport(p, P, m, Q)
  <2>1. Q.outq \in Seq(Message(D)) /\ Q.outq \in Seq(Queued)
    <3>1. PICK x : x = Msg(Ext, App, "connected", "COM", 0)
      OBVIOUS
    <3>2. x \in Message(D) /\ x \in Queued
      BY <1>1, <3>1 DEF App, Message
    <3>3. Q.outq = Append(P.outq, x)
      BY <1>2, <3>1 DEF TakesExport
    <3> QED
      BY <1>0, <3>2, <3>3
  <2> QED
    BY <1>2, <2>1 DEF TakesExport, Same, Field, Good, IsProcess, ConnsOK, RelaysOK
<1>3. CASE Q \in Closed(P)
  BY <1>3, ClosedGood
<1>4. CASE Q = P
  BY <1>4
<1>5. ASSUME NEW c, TakesKnown(p, P, m, c, Q) PROVE Good(p, Q, D)
  <2>1. c.oid \in Nat /\ c.oid \in P.extlinks
    BY <1>0, <1>5, OidFacts DEF TakesKnown, ConnsOK
  <2>2. Q.outq \in Seq(Message(D)) /\ Q.outq \in Seq(Queued)
    <3>1. PICK x : x = Msg(Ext, c.oid, m.kind, m.iid, m.n)
      OBVIOUS
    <3>2. x \in Message(D) /\ x \in Queued
      BY <1>1, <2>1, <3>1 DEF Message
    <3>3. Q.outq = Append(P.outq, x)
      BY <1>5, <3>1 DEF TakesKnown
    <3> QED
      BY <1>0, <3>2, <3>3
  <2>3. Same(P, Q, {"extlinks", "outq"}) /\ Q.extlinks = P.extlinks
    BY <1>5, <2>1 DEF TakesKnown
  <2> QED
    BY <2>2, <2>3 DEF Same, Field, Good, IsProcess, ConnsOK, RelaysOK
<1>6. ASSUME NEW o, TakesNew(p, P, m, o, Q) PROVE Good(p, Q, D)
  <2>1. o \in Oids /\ o \notin P.extlinks /\ o \in Nat /\ o \in 0 .. MaxOid
    BY <1>6, FreeIs, OidFacts DEF TakesNew
  <2>2. Foreign(p, m.extid) /\ \A c \in P.conns : c.extid # m.extid
    <3>1. m.extid # extid_COM /\ m.iid # "COM" /\ \A c \in P.conns : c.extid # m.extid
      BY <1>6 DEF TakesNew
    <3>2. Extern_COMConn_by_extid(P, m.extid) = {}
      BY <3>1 DEF Extern_COMConn_by_extid
    <3> QED
      BY <3>1, <3>2 DEF Invalid, Foreign
  <2>3. Q.outq \in Seq(Message(D)) /\ Q.outq \in Seq(Queued)
    <3>1. PICK x, y : x = Msg(Ext, o, m.kind, m.iid, m.n) /\ y = Msg(Ext, o, "create", "COM", 0)
      OBVIOUS
    <3>2. x \in Message(D) /\ x \in Queued /\ y \in Message(D) /\ y \in Queued
      BY <1>1, <2>1, <3>1 DEF Message
    <3>3. Q.outq = Append(Append(P.outq, y), x)
      BY <1>6, <3>1 DEF TakesNew
    <3> QED
      BY <1>0, <3>2, <3>3
  <2>4. PICK c : c = [oid |-> o, extid |-> m.extid]
    OBVIOUS
  <2>5. c.oid = o /\ c.extid = m.extid /\ c \in [oid : 0 .. MaxOid, extid : Nat]
    BY <2>1, <2>4 DEF Sendable, Written
  <2>6. /\ Same(P, Q, {"conns", "extlinks", "outq"}) /\ Q.extlinks = P.extlinks \cup {o}
        /\ Q.conns = P.conns \cup {c}
    BY <1>6, <2>4 DEF TakesNew
  <2>7. ConnsOK(p, Q)
    <3>1. \A d \in P.conns : d.oid # o
      BY <1>0, <2>1 DEF ConnsOK
    <3> QED
      BY <1>0, <2>1, <2>2, <2>5, <2>6, <3>1 DEF ConnsOK
  <2> QED
    BY <1>0, <2>1, <2>3, <2>5, <2>6, <2>7 DEF Same, Field, Good, IsProcess, RelaysOK
<1> QED
  BY <1>2, <1>3, <1>4, <1>5, <1>6, IncomingIs

-----------------------------------------------------------------------------
(* The invariant *)

\* New calls leave a process good.
LEMMA GoodMono ==
    ASSUME NEW p, NEW P, NEW D, NEW E, D \subseteq E, Good(p, P, D)
    PROVE  Good(p, P, E)
<1>1. Message(D) \subseteq Message(E) /\ Sendable(D) \subseteq Sendable(E)
  BY DEF Message, Sendable
<1>2. ASSUME NEW S, NEW T, S \subseteq T PROVE Seq(S) \subseteq Seq(T)
  BY <1>2
<1>3. /\ Seq(Message(D)) \subseteq Seq(Message(E)) /\ Seq(Sendable(D)) \subseteq Seq(Sendable(E))
      /\ Seq(D) \subseteq Seq(E)
  BY <1>1, <1>2
<1> QED
  BY <1>3 DEF Good

\* The step of one process keeps every process good.
LEMMA OneGood ==
    ASSUME DOMAIN proc = Procs, NEW E, NEW p \in Procs,
           \A q \in Procs : Good(q, proc[q], E),
           NEW Q, Good(p, Q, E), proc' = [proc EXCEPT ![p] = Q]
    PROVE  DOMAIN proc' = Procs /\ \A q \in Procs : Good(q, proc'[q], E)
OBVIOUS

\* A process that delivers a message is good, and so is the message.
LEMMA DeliveredGood ==
    ASSUME RelaysInv, NEW p \in Procs, Delivers(p)
    PROVE  /\ Good(p, Taken(p), DOMAIN sent) /\ Same(proc[p], Taken(p), {"inq"})
           /\ Head(proc[p].inq) \in Message(DOMAIN sent)
<1>1. Good(p, proc[p], DOMAIN sent) /\ proc[p].inq # <<>>
  BY DEF RelaysInv, Delivers
<1> QED
  BY <1>1, TakenGood

\* The processes are good when the handshake starts.
LEMMA InitRelays == Init => RelaysInv
<1> SUFFICES ASSUME Init PROVE RelaysInv
  OBVIOUS
<1>1. DOMAIN proc = Procs /\ sent = <<>> /\ DOMAIN sent = {}
  BY DEF Init
<1>2. ASSUME NEW p \in Procs PROVE Good(p, proc[p], {})
  <2>1. PICK w : w = [extid |-> extid_COM, kind |-> "export", iid |-> "COM", n |-> 0]
    OBVIOUS
  <2>2. w \in Written /\ w \in Sendable({})
    BY <2>1 DEF Written, Sendable, Kinds, extid_COM
  <2>3. proc[p] = [
        ext |-> "open", told |-> FALSE, interfaces |-> {}, conns |-> {},
        applinks |-> {}, extlinks |-> {}, relay |-> <<>>, objects |-> <<>>,
        inq |-> <<>>, outq |-> <<>>, out |-> <<w>>]
    BY <2>1 DEF Init
  <2>4. DOMAIN (<<>>) = {}
    OBVIOUS
  <2> QED
    BY <2>2, <2>3, <2>4 DEF Good, Field, IsProcess, ConnsOK, RelaysOK
<1>3. HistoryOK
  BY DEF Init, HistoryOK
<1> QED
  BY <1>1, <1>2, <1>3 DEF RelaysInv

-----------------------------------------------------------------------------
(* The steps *)

\* Extern_reading keeps the processes good.
LEMMA ReadStep ==
    ASSUME RelaysInv, NEW p \in Procs, Extern_reading(p)
    PROVE  RelaysInv'
<1> DEFINE D == DOMAIN sent
           P == proc[p]
           q == Other(p)
           m == Head(proc[q].out)
<1>1. /\ q \in Procs /\ q # p
  BY DEF Other, Procs
<1>2. Good(p, P, D) /\ Good(q, proc[q], D) /\ Free(P) # {} /\ proc[q].out # <<>>
  BY <1>1 DEF RelaysInv, Extern_reading
<1>3. PICK next \in IF Invalid(p, P, m) THEN Closed(P) ELSE Incoming(p, P, m) :
        proc' = [proc EXCEPT ![p] = next, ![q].out = Tail(@)]
  BY DEF Extern_reading
<1>4. /\ m \in Sendable(D) /\ m \in Written
      /\ Tail(proc[q].out) \in Seq(Sendable(D)) /\ Tail(proc[q].out) \in Seq(Written)
  <2>1. PICK s : s = proc[q].out
    OBVIOUS
  <2>2. s \in Seq(Sendable(D)) /\ s \in Seq(Written) /\ s # <<>>
    BY <1>2, <2>1 DEF Good, IsProcess
  <2>3. Head(s) \in Sendable(D) /\ Tail(s) \in Seq(Sendable(D))
    BY <2>2
  <2>4. Head(s) \in Written /\ Tail(s) \in Seq(Written)
    BY <2>2
  <2> QED
    BY <2>1, <2>3, <2>4
<1>5. Good(p, next, D)
  <2>1. CASE Invalid(p, P, m)
    BY <1>2, <1>3, <2>1, ClosedGood
  <2>2. CASE ~Invalid(p, P, m)
    BY <1>2, <1>3, <1>4, <2>2, IncomingGood
  <2> QED
    BY <2>1, <2>2
<1>6. PICK R : R = [proc[q] EXCEPT !.out = Tail(@)]
  OBVIOUS
<1>7. Good(q, R, D)
  <2>1. Same(proc[q], R, {"out"}) /\ R.out = Tail(proc[q].out)
    BY <1>2, <1>6 DEF Same, Field, Good
  <2> QED
    BY <1>2, <1>4, <2>1 DEF Same, Field, Good, IsProcess, ConnsOK, RelaysOK
<1>8. DOMAIN proc' = Procs /\ proc'[p] = next /\ proc'[q] = R /\ Procs = {p, q}
  <2>1. Procs = {p, q}
    BY DEF Procs, Other
  <2> QED
    BY <1>1, <1>3, <1>6, <2>1 DEF RelaysInv
<1>9. refused' \subseteq [proc : Procs, kind : Kinds, n : Nat]
  <2>1. refused' \subseteq refused \cup {[proc |-> p, kind |-> m.kind, n |-> m.n]}
    BY DEF Extern_reading
  <2>2. m.kind \in Kinds /\ m.n \in Nat
    BY <1>4 DEF Written
  <2> QED
    BY <2>1, <2>2 DEF RelaysInv, HistoryOK
<1> QED
  BY <1>5, <1>7, <1>8, <1>9 DEF Extern_reading, RelaysInv, HistoryOK

\* So does the end of the stream.
LEMMA ReadClosedStep ==
    ASSUME RelaysInv, NEW p \in Procs, ReadClosed(p)
    PROVE  RelaysInv'
<1>1. PICK next \in Closed(proc[p]) : proc' = [proc EXCEPT ![p] = next]
  BY DEF ReadClosed
<1>2. Good(p, next, DOMAIN sent)
  BY <1>1, ClosedGood DEF RelaysInv
<1>3. DOMAIN proc' = Procs /\ \A q \in Procs : Good(q, proc'[q], DOMAIN sent)
  BY <1>1, <1>2, OneGood DEF RelaysInv
<1> QED
  BY <1>3 DEF ReadClosed, history, RelaysInv, HistoryOK

\* The relay of a message, as COMRelay_COM_message finds it.
LEMMA MessageStep ==
    ASSUME RelaysInv, NEW p \in Procs, COMRelay_COM_message(p)
    PROVE  RelaysInv'
<1>14. /\ Delivers(p) /\ IsRelay(proc[p], Head(proc[p].inq).dest) /\ Free(proc[p]) # {}
  BY Zenon DEF COMRelay_COM_message
<1>0. PICK D, m, T : D = DOMAIN sent /\ m = Head(proc[p].inq) /\ T = Taken(p)
  OBVIOUS
<1>1. /\ Good(p, T, D) /\ Same(proc[p], T, {"inq"}) /\ m \in Message(D)
  BY <1>0, <1>14, DeliveredGood
<1>2. m.dest \in Oids
  BY <1>0, <1>14 DEF IsRelay
<1>3. PICK F : /\ F = FindOrCreate(T, m) /\ Good(p, F, D) /\ m.dest \in DOMAIN F.relay
               /\ F.relay[m.dest].localp = NoOid => Free(F) = Free(T)
  BY <1>1, <1>2, FindOrCreateGood
<1>4. Free(T) # {}
  <2>1. /\ T.applinks = proc[p].applinks /\ T.extlinks = proc[p].extlinks
        /\ T.relay = proc[p].relay
    BY <1>1 DEF Same, Field
  <2>2. Free(T) = Free(proc[p])
    BY <2>1 DEF Free, Linked
  <2> QED
    BY <1>14, <2>2
<1>5. PICK P : P = WithLocal(p, F, m) /\ Good(p, P, D) /\ m.dest \in DOMAIN P.relay
  BY <1>3, <1>4, WithLocalGood
<1>6. /\ m.kind \in Kinds /\ m.iid \in Iface \cup {"R", "COM"} /\ m.n \in Nat /\ m.dest \in Nat
      /\ m.kind = "call" => m.n \in D
  BY <1>1 DEF Message, Queued
<1>7. PICK r \in Relay : r = P.relay[m.dest]
  BY <1>5 DEF Good, IsProcess
<1>8. PICK Q : Q = IF ~r.pExtern THEN P
                   ELSE IF m.src # r.localp THEN Post(P, casymsg_forward(m, r))
                   ELSE Outgoing(p, P, m.dest, m.kind, m.iid, m.n)
  OBVIOUS
<1>9. /\ proc' = [proc EXCEPT ![p] = Q]
      /\ lost' \subseteq lost \cup {[proc |-> p, kind |-> m.kind, n |-> m.n]}
      /\ UNCHANGED <<sent, taken, replied, answers, dropped, died, refused>>
  <2>1. Head(proc[p].inq) = m /\ WithLocal(p, FindOrCreate(Taken(p), m), m) = P /\ P.relay[m.dest] = r
    BY <1>0, <1>3, <1>5, <1>7
  <2>2. /\ proc' = [proc EXCEPT ![p] = Q]
        /\ lost' = IF r.pExtern THEN lost
                   ELSE lost \cup {[proc |-> p, kind |-> m.kind, n |-> m.n]}
        /\ UNCHANGED <<sent, taken, replied, answers, dropped, died, refused>>
    BY <1>8, <2>1, Zenon DEF COMRelay_COM_message, history
  <2> QED
    BY <2>2
<1>10. casymsg_forward(m, r) \in Message(D)
  <2>1. r.localp \in Nat
    BY <1>7, OidFacts DEF Relay
  <2> QED
    BY <1>1, <1>2, <2>1 DEF casymsg_forward, Message, Queued
<1>11. Good(p, Q, D)
  <2>1. CASE ~r.pExtern
    BY <1>5, <1>8, <2>1
  <2>2. CASE r.pExtern /\ m.src # r.localp
    <3>1. Q = Post(P, casymsg_forward(m, r))
      BY <1>8, <2>2
    <3> QED
      BY <1>5, <1>10, <3>1, PostGood
  <2>3. CASE r.pExtern /\ m.src = r.localp
    <3>1. Q = Outgoing(p, P, m.dest, m.kind, m.iid, m.n)
      BY <1>8, <2>3
    <3> QED
      BY <1>2, <1>5, <1>6, <3>1, OutgoingGood
  <2> QED
    BY <2>1, <2>2, <2>3
<1>12. DOMAIN proc' = Procs /\ \A q \in Procs : Good(q, proc'[q], D)
  <2>1. DOMAIN proc = Procs /\ \A q \in Procs : Good(q, proc[q], D)
    BY <1>0 DEF RelaysInv
  <2> QED
    BY <1>9, <1>11, <2>1, OneGood
<1>13. lost' \subseteq [proc : Procs, kind : Kinds, n : Nat]
  BY <1>6, <1>9 DEF RelaysInv, HistoryOK
<1> QED
  BY <1>0, <1>9, <1>12, <1>13 DEF RelaysInv, HistoryOK

\* COMRelay_COM_error keeps the processes good.
LEMMA ErrorStep ==
    ASSUME RelaysInv, NEW p \in Procs, COMRelay_COM_error(p)
    PROVE  RelaysInv'
<1> DEFINE D == DOMAIN sent
           m == Head(proc[p].inq)
           F == FindOrCreate(Taken(p), m)
<1>1. Good(p, Taken(p), D) /\ m \in Message(D)
  BY DeliveredGood DEF COMRelay_COM_error
<1>2. m.dest \in Oids
  BY DEF COMRelay_COM_error, IsRelay
<1>3. Good(p, F, D)
  BY <1>1, <1>2, FindOrCreateGood
<1>4. PICK failed \in {m.dest, Ext} :
        /\ proc' = [proc EXCEPT ![p] = F]
        /\ answers' = Append(answers, [proc |-> p, oid |-> failed, kind |-> "error", n |-> m.n])
        /\ UNCHANGED <<sent, taken, replied, dropped, died, lost, refused>>
  BY DEF COMRelay_COM_error
<1>5. answers' \in Seq([proc : Procs, oid : Nat, kind : Kinds, n : Nat])
  <2>1. failed \in Nat /\ m.n \in Nat /\ "error" \in Kinds
    BY <1>1, <1>2, <1>4, OidFacts DEF Ext, Kinds, Message, Queued
  <2> QED
    BY <1>4, <2>1 DEF RelaysInv, HistoryOK
<1> HIDE DEF F
<1>6. DOMAIN proc' = Procs /\ \A q \in Procs : Good(q, proc'[q], D)
  BY <1>3, <1>4, OneGood DEF RelaysInv
<1> QED
  BY <1>4, <1>5, <1>6 DEF RelaysInv, HistoryOK

\* COMRelay_COM_delete keeps the processes good.
LEMMA DeleteStep ==
    ASSUME RelaysInv, NEW p \in Procs, COMRelay_COM_delete(p)
    PROVE  RelaysInv'
<1> DEFINE D == DOMAIN sent
           m == Head(proc[p].inq)
           F == FindOrCreate(Taken(p), m)
<1>1. Good(p, Taken(p), D) /\ m \in Message(D)
  BY DeliveredGood DEF COMRelay_COM_delete
<1>2. m.dest \in Oids
  BY DEF COMRelay_COM_delete, IsRelay
<1>3. Good(p, F, D) /\ m.dest \in DOMAIN F.relay
  BY <1>1, <1>2, FindOrCreateGood
<1>4. PICK Q, o : o = m.dest /\ Q = [F EXCEPT !.relay[o] = Deleted(@)]
  OBVIOUS
<1>5. proc' = [proc EXCEPT ![p] = Q]
  BY <1>4 DEF COMRelay_COM_delete
<1> HIDE DEF F
<1>6. Good(p, Q, D)
  <2>1. /\ Same(F, Q, {"relay"}) /\ DOMAIN Q.relay = DOMAIN F.relay
        /\ \A x \in DOMAIN F.relay : Q.relay[x] = IF x = o THEN Deleted(F.relay[x]) ELSE F.relay[x]
    BY <1>4, <1>3 DEF Same, Field, Good
  <2>2. F.relay[o] \in Relay
    BY <1>3, <1>4 DEF Good, IsProcess
  <2>3. /\ Deleted(F.relay[o]) \in Relay /\ ~Deleted(F.relay[o]).pExtern
        /\ Deleted(F.relay[o]).serves = F.relay[o].serves
        /\ Deleted(F.relay[o]).localp = F.relay[o].localp
    BY <2>2 DEF Deleted, Relay
  <2> QED
    BY <1>3, <1>4, <2>1, <2>3 DEF Same, Field, Good, IsProcess, ConnsOK, RelaysOK
<1>7. DOMAIN proc' = Procs /\ \A q \in Procs : Good(q, proc'[q], D)
  BY <1>5, <1>6, OneGood DEF RelaysInv
<1> QED
  BY <1>7 DEF COMRelay_COM_delete, history, RelaysInv, HistoryOK

\* PCOM_create_object keeps the processes good.
LEMMA CreateStep ==
    ASSUME RelaysInv, NEW p \in Procs, PCOM_create_object(p)
    PROVE  RelaysInv'
<1> DEFINE D == DOMAIN sent
           m == Head(proc[p].inq)
           F == FindOrCreate(Taken(p), m)
<1>1. Good(p, Taken(p), D) /\ m \in Message(D)
  BY DeliveredGood DEF PCOM_create_object
<1>2. m.dest \in Oids
  BY DEF PCOM_create_object, IsRelay
<1>3. Good(p, F, D)
  BY <1>1, <1>2, FindOrCreateGood
<1>4. proc' = [proc EXCEPT ![p] = F]
  BY DEF PCOM_create_object
<1> HIDE DEF F
<1>5. DOMAIN proc' = Procs /\ \A q \in Procs : Good(q, proc'[q], D)
  BY <1>3, <1>4, OneGood DEF RelaysInv
<1> QED
  BY <1>5 DEF PCOM_create_object, history, RelaysInv, HistoryOK

\* A message to a deleted object is taken off the queue.
LEMMA DropStep ==
    ASSUME RelaysInv, NEW p \in Procs, DropMessage(p)
    PROVE  RelaysInv'
<1>1. Good(p, Taken(p), DOMAIN sent)
  BY DeliveredGood DEF DropMessage
<1>2. proc' = [proc EXCEPT ![p] = Taken(p)]
  BY DEF DropMessage
<1>3. DOMAIN proc' = Procs /\ \A q \in Procs : Good(q, proc'[q], DOMAIN sent)
  BY <1>1, <1>2, OneGood DEF RelaysInv
<1> QED
  BY <1>3 DEF DropMessage, history, RelaysInv, HistoryOK

\* What a call to an object changes.
LEMMA CalledIs ==
    ASSUME RelaysInv, NEW p \in Procs, ObjectCalled(p), NEW m, m = Head(proc[p].inq)
    PROVE  \E P : /\ P = [Taken(p) EXCEPT !.objects = With(@, m.dest, Calling(proc[p], m.dest, m.n))]
                  /\ \/ proc' = [proc EXCEPT ![p] = P] /\ replied' = replied
                     \/ /\ proc' = [proc EXCEPT ![p] = Post(P, Msg(m.dest, m.src, "reply", "R", m.n))]
                        /\ replied' = replied \cup {m.n}
BY DEF ObjectCalled, Calling

\* A call to an object keeps the processes good.
LEMMA CalledStep ==
    ASSUME RelaysInv, NEW p \in Procs, ObjectCalled(p)
    PROVE  RelaysInv'
<1> DEFINE D == DOMAIN sent
<1>0. PICK m, o : m = Head(proc[p].inq) /\ o = m.dest
  OBVIOUS
<1>1. /\ Good(p, Taken(p), D) /\ m \in Message(D) /\ Same(proc[p], Taken(p), {"inq"})
      /\ Good(p, proc[p], D)
  BY <1>0, DeliveredGood DEF ObjectCalled, RelaysInv
<1>2. PICK r \in DOMAIN proc[p].relay : proc[p].relay[r].serves /\ proc[p].relay[r].localp = o
  BY <1>0 DEF ObjectCalled, Servers
<1>3. o \in Oids /\ m.kind = "call" /\ m.n \in D /\ m.src \in Nat /\ m.n \in Nat /\ o \in Nat
  <2>1. o \in Oids
    BY <1>1, <1>2 DEF Good, RelaysOK
  <2> QED
    BY <1>0, <1>1, <2>1, OidFacts DEF ObjectCalled, Message, Queued
<1>4. PICK c : c = Calling(proc[p], o, m.n)
  OBVIOUS
<1>5. c \in Object /\ c.calls \in Seq(D) \ {<<>>}
  <2>1. PICK old : old = IF o \in DOMAIN proc[p].objects THEN proc[p].objects[o]
                         ELSE [calls |-> <<>>, unused |-> FALSE]
    OBVIOUS
  <2>2. c = [old EXCEPT !.calls = Append(@, m.n)]
    BY <1>4, <2>1 DEF Calling
  <2>3. old \in Object /\ old.calls \in Seq(D)
    <3>1. CASE o \in DOMAIN proc[p].objects
      BY <1>1, <2>1, <3>1 DEF Good, IsProcess
    <3>2. CASE o \notin DOMAIN proc[p].objects
      BY <2>1, <3>2 DEF Object
    <3> QED
      BY <3>1, <3>2
  <2>4. c \in Object /\ c.calls = Append(old.calls, m.n)
    <3>1. PICK x, k : x = m.n /\ k = Append(old.calls, x)
      OBVIOUS
    <3>2. k \in Seq(Nat)
      BY <1>3, <2>3, <3>1 DEF Object
    <3>3. c = [old EXCEPT !.calls = k]
      BY <2>2, <3>1
    <3> QED
      BY <2>3, <3>1, <3>2, <3>3 DEF Object
  <2>5. Append(old.calls, m.n) \in Seq(D) /\ Append(old.calls, m.n) # <<>>
    BY <1>3, <2>3
  <2> QED
    BY <2>4, <2>5
<1>6. PICK P : /\ P = [Taken(p) EXCEPT !.objects = With(@, o, c)]
               /\ \/ proc' = [proc EXCEPT ![p] = P] /\ replied' = replied
                  \/ /\ proc' = [proc EXCEPT ![p] = Post(P, Msg(o, m.src, "reply", "R", m.n))]
                     /\ replied' = replied \cup {m.n}
  BY <1>0, <1>4, CalledIs
<1>7. Good(p, P, D)
  <2>1. Same(Taken(p), P, {"objects"}) /\ P.objects = With(Taken(p).objects, o, c)
    BY <1>1, <1>6 DEF Same, Field, Good
  <2>2. PICK f, g : f = Taken(p).objects /\ g = P.objects
    OBVIOUS
  <2>3. g = With(f, o, c)
    BY <2>1, <2>2
  <2>4. DOMAIN g = DOMAIN f \cup {o} /\ \A x \in DOMAIN g : g[x] = IF x = o THEN c ELSE f[x]
    BY <2>3 DEF With
  <2>5. /\ DOMAIN g \subseteq Oids /\ \A x \in DOMAIN g : g[x] \in Object
        /\ \A x \in DOMAIN g : g[x].calls \in Seq(D) \ {<<>>}
    <3>1. DOMAIN f \subseteq Oids /\ \A x \in DOMAIN f : f[x] \in Object /\ f[x].calls \in Seq(D) \ {<<>>}
      BY <1>1, <2>2 DEF Good, IsProcess
    <3> QED
      BY <1>3, <1>5, <2>4, <3>1
  <2> QED
    BY <1>1, <2>1, <2>2, <2>5 DEF Same, Field, Good, IsProcess, ConnsOK, RelaysOK
<1>8. Msg(o, m.src, "reply", "R", m.n) \in Message(D)
  BY <1>3, OidFacts DEF Msg, Message, Queued, Kinds
<1>9. PICK R : Good(p, R, D) /\ proc' = [proc EXCEPT ![p] = R]
  BY <1>6, <1>7, <1>8, PostGood
<1>10. DOMAIN proc' = Procs /\ \A q \in Procs : Good(q, proc'[q], D)
  BY <1>9, OneGood DEF RelaysInv
<1>11. replied' \subseteq D
  BY <1>3, <1>6 DEF RelaysInv, HistoryOK
<1>12. taken' \in Seq(D) /\ sent' = sent
  <2>1. taken' = Append(taken, m.n) /\ sent' = sent
    BY <1>0 DEF ObjectCalled
  <2> QED
    BY <1>3, <2>1 DEF RelaysInv, HistoryOK
<1> QED
  BY <1>10, <1>11, <1>12 DEF ObjectCalled, RelaysInv, HistoryOK

\* An object that marks itself unused keeps the processes good.
LEMMA DiesStep ==
    ASSUME RelaysInv, NEW p \in Procs, ObjectDies(p)
    PROVE  RelaysInv'
<1> DEFINE D == DOMAIN sent
<1>1. PICK s \in DOMAIN proc[p].objects :
        /\ proc' = [proc EXCEPT ![p].objects[s].unused = TRUE]
        /\ died' = died \cup Origin(p, s)
  BY DEF ObjectDies
<1>2. PICK Q : Q = [proc[p] EXCEPT !.objects[s].unused = TRUE]
  OBVIOUS
<1>3. Good(p, proc[p], D)
  BY DEF RelaysInv
<1>4. Good(p, Q, D)
  <2>1. /\ Same(proc[p], Q, {"objects"}) /\ DOMAIN Q.objects = DOMAIN proc[p].objects
        /\ \A x \in DOMAIN proc[p].objects : x # s => Q.objects[x] = proc[p].objects[x]
        /\ Q.objects[s] = [proc[p].objects[s] EXCEPT !.unused = TRUE]
    BY <1>2, <1>3 DEF Same, Field, Good
  <2>2. Q.objects[s] \in Object /\ Q.objects[s].calls = proc[p].objects[s].calls
    BY <1>3, <2>1 DEF Good, IsProcess, Object
  <2>3. \A x \in DOMAIN Q.objects : Q.objects[x] \in Object /\ Q.objects[x].calls \in Seq(D) \ {<<>>}
    BY <1>3, <2>1, <2>2 DEF Good, IsProcess
  <2>4. PICK P : P = proc[p]
    OBVIOUS
  <2>5. /\ DOMAIN Q = Field /\ Q.told = P.told
        /\ Q.ext = P.ext /\ Q.interfaces = P.interfaces /\ Q.conns = P.conns
        /\ Q.applinks = P.applinks /\ Q.extlinks = P.extlinks /\ Q.relay = P.relay
        /\ Q.inq = P.inq /\ Q.outq = P.outq /\ Q.out = P.out
    BY <2>1, <2>4 DEF Same, Field
  <2>6. DOMAIN Q.objects \subseteq Oids /\ Good(p, P, D)
    BY <1>3, <2>1, <2>4 DEF Good, IsProcess
  <2> QED
    BY <2>3, <2>5, <2>6 DEF Good, IsProcess, ConnsOK, RelaysOK
<1>5. proc' = [proc EXCEPT ![p] = Q]
  BY <1>1, <1>2
<1>6. DOMAIN proc' = Procs /\ \A q \in Procs : Good(q, proc'[q], D)
  BY <1>4, <1>5, OneGood DEF RelaysInv
<1>7. died' \subseteq Procs \X Oids
  BY <1>1 DEF Origin, Other, Procs, RelaysInv, HistoryOK
<1> QED
  BY <1>6, <1>7 DEF ObjectDies, RelaysInv, HistoryOK

\* An error of an object leaves by a connection of its relay.
LEMMA FailsStep ==
    ASSUME RelaysInv, NEW p \in Procs, ObjectFails(p)
    PROVE  RelaysInv'
<1> DEFINE D == DOMAIN sent
<1>1. PICK s \in DOMAIN proc[p].objects, r \in DOMAIN proc[p].relay :
        /\ proc' = [proc EXCEPT ![p] = Outgoing(p, @, r, "error", "COM", Last(@.objects[s].calls))]
        /\ died' = died \cup Origin(p, s)
  BY DEF ObjectFails
<1>2. Good(p, proc[p], D)
  BY DEF RelaysInv
<1>3. PICK n : n = Last(proc[p].objects[s].calls)
  OBVIOUS
<1>4. n \in D /\ n \in Nat
  <2>1. PICK q : q = proc[p].objects[s].calls
    OBVIOUS
  <2>2. q \in Seq(D) /\ q # <<>>
    BY <1>2, <2>1 DEF Good
  <2>3. q[Len(q)] \in D
    BY <2>2
  <2> QED
    BY <1>3, <2>1, <2>3 DEF Last, RelaysInv, HistoryOK
<1>5. r \in Oids /\ "error" \in Kinds /\ "COM" \in Iface \cup {"R", "COM"} /\ "error" # "call"
  BY <1>2 DEF Good, IsProcess, Kinds
<1>6. PICK Q : Q = Outgoing(p, proc[p], r, "error", "COM", n)
  OBVIOUS
<1>7. Good(p, Q, D)
  BY <1>2, <1>4, <1>5, <1>6, OutgoingGood
<1>8. proc' = [proc EXCEPT ![p] = Q]
  BY <1>1, <1>3, <1>6
<1>9. DOMAIN proc' = Procs /\ \A q \in Procs : Good(q, proc'[q], D)
  BY <1>7, <1>8, OneGood DEF RelaysInv
<1>10. died' \subseteq Procs \X Oids
  BY <1>1 DEF Origin, Other, Procs, RelaysInv, HistoryOK
<1> QED
  BY <1>9, <1>10 DEF ObjectFails, RelaysInv, HistoryOK

\* What the application receives keeps the processes good.
LEMMA AppStep ==
    ASSUME RelaysInv, NEW p \in Procs, AppConnected(p) \/ AppAnswered(p)
    PROVE  RelaysInv'
<1> DEFINE D == DOMAIN sent
           m == Head(proc[p].inq)
<1>1. Good(p, Taken(p), D) /\ m \in Message(D)
  BY DeliveredGood DEF AppConnected, AppAnswered
<1>2. CASE AppConnected(p)
  <2>1. PICK Q : Q = [Taken(p) EXCEPT !.told = TRUE]
    OBVIOUS
  <2>2. Good(p, Q, D)
    <3>1. PICK T : T = Taken(p)
      OBVIOUS
    <3>2. Same(T, Q, {"told"}) /\ Q.told = TRUE /\ Good(p, T, D)
      BY <1>1, <2>1, <3>1 DEF Same, Field, Good
    <3>3. /\ DOMAIN Q = Field
          /\ Q.ext = T.ext /\ Q.interfaces = T.interfaces /\ Q.conns = T.conns
          /\ Q.applinks = T.applinks /\ Q.extlinks = T.extlinks /\ Q.relay = T.relay
          /\ Q.objects = T.objects /\ Q.inq = T.inq /\ Q.outq = T.outq /\ Q.out = T.out
      BY <3>2 DEF Same, Field
    <3>4. Q.told \in BOOLEAN
      BY <3>2
    <3> HIDE DEF D
    <3>5. Good(p, T, D)
      BY <3>2
    <3> QED
      BY <3>3, <3>4, <3>5 DEF Good, IsProcess, ConnsOK, RelaysOK
  <2>3. proc' = [proc EXCEPT ![p] = Q]
    BY <1>2, <2>1 DEF AppConnected
  <2>4. DOMAIN proc' = Procs /\ \A q \in Procs : Good(q, proc'[q], D)
    BY <2>2, <2>3, OneGood DEF RelaysInv
  <2> QED
    BY <1>2, <2>4 DEF AppConnected, history, RelaysInv, HistoryOK
<1>3. CASE AppAnswered(p)
  <2>1. proc' = [proc EXCEPT ![p] = Taken(p)]
    BY <1>3 DEF AppAnswered
  <2>2. DOMAIN proc' = Procs /\ \A q \in Procs : Good(q, proc'[q], D)
    BY <1>1, <2>1, OneGood DEF RelaysInv
  <2>3. answers' \in Seq([proc : Procs, oid : Nat, kind : Kinds, n : Nat])
    <3>1. m.src \in Nat /\ m.n \in Nat /\ "reply" \in Kinds
      BY <1>1 DEF Message, Queued, Kinds
    <3>2. answers' = Append(answers, [proc |-> p, oid |-> m.src, kind |-> "reply", n |-> m.n])
      BY <1>3 DEF AppAnswered
    <3> QED
      BY <3>1, <3>2 DEF RelaysInv, HistoryOK
  <2> QED
    BY <1>3, <2>2, <2>3 DEF AppAnswered, RelaysInv, HistoryOK
<1> QED
  BY <1>2, <1>3

\* A call of the application keeps the processes good.
LEMMA CallsStep ==
    ASSUME RelaysInv, NEW p \in Procs, AppCalls(p)
    PROVE  RelaysInv'
<1> DEFINE D == DOMAIN sent
           n == Len(sent) + 1
<1>1. Good(p, proc[p], D) /\ Free(proc[p]) # {}
  BY DEF RelaysInv, AppCalls
<1>2. PICK i \in proc[p].interfaces, o \in proc[p].applinks \cup {Min(Free(proc[p]))} :
        /\ proc' = [proc EXCEPT ![p] =
              Post([proc[p] EXCEPT !.applinks = @ \cup {o}], Msg(App, o, "call", i, n))]
        /\ sent' = Append(sent, <<p, o>>)
  BY DEF AppCalls
<1>3. o \in Oids /\ i \in Iface
  BY <1>1, FreeIs DEF Good, IsProcess
<1>4. /\ sent' \in Seq(Procs \X Oids) /\ D \subseteq DOMAIN sent' /\ n \in DOMAIN sent' /\ n \in Nat
  <2>1. sent \in Seq(Procs \X Oids) /\ <<p, o>> \in Procs \X Oids
    BY <1>3 DEF RelaysInv, HistoryOK
  <2> QED
    BY <1>2, <2>1
<1>5. PICK E : E = DOMAIN sent'
  OBVIOUS
<1>6. \A q \in Procs : Good(q, proc[q], E)
  BY <1>4, <1>5, GoodMono DEF RelaysInv
<1>7. PICK P : P = [proc[p] EXCEPT !.applinks = @ \cup {o}]
  OBVIOUS
<1>8. Good(p, P, E)
  <2>1. Same(proc[p], P, {"applinks"}) /\ P.applinks = proc[p].applinks \cup {o}
    BY <1>1, <1>7 DEF Same, Field, Good
  <2> QED
    BY <1>3, <1>6, <2>1 DEF Same, Field, Good, IsProcess, ConnsOK, RelaysOK
<1>9. PICK m : m = Msg(App, o, "call", i, n)
  OBVIOUS
<1>10. m \in Message(E)
  <2>1. o \in Nat /\ App \in Nat /\ "call" \in Kinds
    BY <1>3, OidFacts DEF App, Kinds
  <2> QED
    BY <1>3, <1>4, <1>5, <1>9, <2>1 DEF Msg, Message, Queued
<1>11. PICK Q : Q = Post(P, m)
  OBVIOUS
<1>12. Good(p, Q, E)
  BY <1>8, <1>10, <1>11, PostGood
<1>13. proc' = [proc EXCEPT ![p] = Q]
  BY <1>2, <1>7, <1>9, <1>11
<1>14. DOMAIN proc' = Procs /\ \A q \in Procs : Good(q, proc'[q], E)
  BY <1>6, <1>12, <1>13, OneGood DEF RelaysInv
<1>15. taken' \in Seq(E) /\ replied' \subseteq E
  <2>1. taken \in Seq(D) /\ replied \subseteq D /\ D \subseteq E
    BY <1>4, <1>5 DEF RelaysInv, HistoryOK
  <2>2. taken \in Seq(E)
    BY <2>1
  <2> QED
    BY <2>1, <2>2 DEF AppCalls
<1> QED
  BY <1>4, <1>5, <1>14, <1>15 DEF AppCalls, RelaysInv, HistoryOK

\* casycom_destroy_proxy keeps the processes good.
LEMMA DropsStep ==
    ASSUME RelaysInv, NEW p \in Procs, AppDrops(p)
    PROVE  RelaysInv'
<1> DEFINE D == DOMAIN sent
<1>1. PICK o, P, Q :
        /\ o \in proc[p].applinks
        /\ P = [proc[p] EXCEPT !.applinks = @ \ {o}]
        /\ Q = IF o \in DOMAIN P.relay THEN COMRelay_destroy(p, P, o) ELSE P
        /\ proc' = [proc EXCEPT ![p] = Q]
        /\ dropped' = dropped \cup {<<p, o>>}
  BY DEF AppDrops
<1>2. Good(p, proc[p], D)
  BY DEF RelaysInv
<1>3. Good(p, P, D) /\ o \in Oids
  <2>1. Same(proc[p], P, {"applinks"}) /\ P.applinks = proc[p].applinks \ {o}
    BY <1>1, <1>2 DEF Same, Field, Good
  <2> QED
    BY <1>1, <1>2, <2>1 DEF Same, Field, Good, IsProcess, ConnsOK, RelaysOK
<1>4. Good(p, Q, D)
  <2>1. CASE o \in DOMAIN P.relay
    BY <1>1, <1>3, <2>1, DestroyGood
  <2>2. CASE o \notin DOMAIN P.relay
    BY <1>1, <1>3, <2>2
  <2> QED
    BY <2>1, <2>2
<1>5. DOMAIN proc' = Procs /\ \A q \in Procs : Good(q, proc'[q], D)
  BY <1>1, <1>4, OneGood DEF RelaysInv
<1>6. dropped' \subseteq Procs \X Oids
  BY <1>1, <1>3 DEF RelaysInv, HistoryOK
<1> QED
  BY <1>5, <1>6 DEF AppDrops, RelaysInv, HistoryOK

\* PExtern_close and its message keep the processes good.
LEMMA ClosesStep ==
    ASSUME RelaysInv, NEW p \in Procs, AppCloses(p) \/ Extern_Extern_close(p)
    PROVE  RelaysInv'
<1> DEFINE D == DOMAIN sent
<1>1. Good(p, proc[p], D)
  BY DEF RelaysInv
<1>2. CASE AppCloses(p)
  <2>1. PICK m : m = Msg(App, Ext, "close", "COM", 0)
    OBVIOUS
  <2>2. m \in Message(D)
    BY <2>1 DEF Msg, Message, Queued, Kinds, App, Ext
  <2>3. PICK Q : Q = Post(proc[p], m)
    OBVIOUS
  <2>4. Good(p, Q, D)
    BY <1>1, <2>2, <2>3, PostGood
  <2>5. proc' = [proc EXCEPT ![p] = Q]
    BY <1>2, <2>1, <2>3 DEF AppCloses
  <2>6. DOMAIN proc' = Procs /\ \A q \in Procs : Good(q, proc'[q], D)
    BY <2>4, <2>5, OneGood DEF RelaysInv
  <2> QED
    BY <1>2, <2>6 DEF AppCloses, history, RelaysInv, HistoryOK
<1>3. CASE Extern_Extern_close(p)
  <2>1. Good(p, Taken(p), D)
    BY <1>3, DeliveredGood DEF Extern_Extern_close
  <2>2. PICK next \in IF proc[p].ext = "open" THEN Closed(Taken(p)) ELSE {Taken(p)} :
           proc' = [proc EXCEPT ![p] = next]
    BY <1>3 DEF Extern_Extern_close
  <2>3. next \in Closed(Taken(p)) \/ next = Taken(p)
    BY <2>2
  <2>4. Good(p, next, D)
    BY <2>1, <2>3, ClosedGood
  <2>5. DOMAIN proc' = Procs /\ \A q \in Procs : Good(q, proc'[q], D)
    BY <2>2, <2>4, OneGood DEF RelaysInv
  <2> QED
    BY <1>3, <2>5 DEF Extern_Extern_close, history, RelaysInv, HistoryOK
<1> QED
  BY <1>2, <1>3

\* The end of a process leaves nothing that could be wrong.
LEMMA ExitStep ==
    ASSUME RelaysInv, NEW p \in Procs, Exit(p)
    PROVE  RelaysInv'
<1> DEFINE D == DOMAIN sent
<1>1. PICK next \in Closed(proc[p]) :
        proc' = [proc EXCEPT ![p] = [next EXCEPT
            !.ext = "exited", !.interfaces = {}, !.conns = {}, !.applinks = {},
            !.extlinks = {}, !.relay = <<>>, !.objects = <<>>, !.inq = <<>>, !.outq = <<>>]]
  BY DEF Exit
<1>2. PICK Q : Q = [next EXCEPT
            !.ext = "exited", !.interfaces = {}, !.conns = {}, !.applinks = {},
            !.extlinks = {}, !.relay = <<>>, !.objects = <<>>, !.inq = <<>>, !.outq = <<>>]
  OBVIOUS
<1>3. Good(p, next, D)
  BY <1>1, ClosedGood DEF RelaysInv
<1>4. Good(p, Q, D)
  <2>1. /\ DOMAIN Q = Field /\ Q.ext = "exited" /\ Q.told = next.told
        /\ Q.interfaces = {} /\ Q.conns = {} /\ Q.applinks = {} /\ Q.extlinks = {}
        /\ Q.relay = <<>> /\ Q.objects = <<>> /\ Q.inq = <<>> /\ Q.outq = <<>> /\ Q.out = next.out
    BY <1>2, <1>3 DEF Good, Field
  <2>2. DOMAIN (<<>>) = {}
    OBVIOUS
  <2>3. DOMAIN Q.relay = {} /\ DOMAIN Q.objects = {}
    BY <2>1, <2>2
  <2>4. Q.out \in Seq(Sendable(D)) /\ Q.out \in Seq(Written) /\ Q.told \in BOOLEAN
    BY <1>3, <2>1 DEF Good, IsProcess
  <2>5. /\ Q.inq \in Seq(Queued) /\ Q.outq \in Seq(Queued)
        /\ Q.inq \in Seq(Message(D)) /\ Q.outq \in Seq(Message(D))
    BY <2>1
  <2> QED
    BY <2>1, <2>3, <2>4, <2>5 DEF Good, IsProcess, ConnsOK, RelaysOK
<1>5. proc' = [proc EXCEPT ![p] = Q]
  BY <1>1, <1>2
<1>6. DOMAIN proc' = Procs /\ \A q \in Procs : Good(q, proc'[q], D)
  BY <1>4, <1>5, OneGood DEF RelaysInv
<1> QED
  BY <1>6 DEF Exit, history, RelaysInv, HistoryOK

\* The exchange of the queues and casycom_idle keep the processes good.
LEMMA RoundStep ==
    ASSUME RelaysInv, NEW p \in Procs, EndRound(p)
    PROVE  RelaysInv'
<1> DEFINE D == DOMAIN sent
<1>1. PICK P : P = [proc[p] EXCEPT !.inq = proc[p].outq, !.outq = <<>>]
  OBVIOUS
<1>2. Good(p, proc[p], D)
  BY DEF RelaysInv
<1>3. Good(p, P, D)
  <2>1. Same(proc[p], P, {"inq", "outq"}) /\ P.inq = proc[p].outq /\ P.outq = <<>>
    BY <1>1, <1>2 DEF Same, Field, Good
  <2>2. P.outq \in Seq(Queued) /\ P.outq \in Seq(Message(D))
    BY <2>1
  <2> QED
    BY <1>2, <2>1, <2>2 DEF Same, Field, Good, IsProcess, ConnsOK, RelaysOK
<1>4. PICK Q : Q = DestroyUnused(p, P)
  OBVIOUS
<1>5. Good(p, Q, D)
  BY <1>3, <1>4, DestroyUnusedGood
<1>6. proc' = [proc EXCEPT ![p] = Q]
  BY <1>1, <1>4 DEF EndRound
<1>7. DOMAIN proc' = Procs /\ \A q \in Procs : Good(q, proc'[q], D)
  BY <1>5, <1>6, OneGood DEF RelaysInv
<1> QED
  BY <1>7 DEF EndRound, history, RelaysInv, HistoryOK

\* Every step keeps the processes good.
LEMMA NextRelays == RelaysInv /\ [Next]_vars => RelaysInv'
<1> SUFFICES ASSUME RelaysInv, [Next]_vars PROVE RelaysInv'
  OBVIOUS
<1>1. CASE UNCHANGED vars
  BY <1>1 DEF vars, RelaysInv, HistoryOK
<1>2. ASSUME NEW p \in Procs, Loop(p) PROVE RelaysInv'
  BY <1>2, MessageStep, ErrorStep, DeleteStep, CreateStep, DropStep, CalledStep, AppStep, ClosesStep,
     RoundStep DEF Loop
<1>3. ASSUME NEW p \in Procs, Socket(p) PROVE RelaysInv'
  BY <1>3, ReadStep, ReadClosedStep DEF Socket
<1>4. ASSUME NEW p \in Procs, Program(p) PROVE RelaysInv'
  BY <1>4, CallsStep, DropsStep, ClosesStep, DiesStep, FailsStep, ExitStep DEF Program
<1> QED
  BY <1>1, <1>2, <1>3, <1>4 DEF Next

\* In every state both processes are good: connections have an oid that is linked
\* from the Extern and an extid of the right range, relays with an Extern have one
\* to send through, and queues and sockets hold messages that their readers accept.
THEOREM RelaysInvariance == Spec => []RelaysInv
BY InitRelays, NextRelays, PTL DEF Spec

\* The Extern and its relays agree on what is connected: with any lists of
\* interfaces and any number of oids, calls and ends, no two connections of an
\* Extern (Extern_queue_outgoing_message and Extern_queue_incoming_message both
\* make them) share an oid or an extid, and no relay keeps pExtern after
\* Extern_destroy.
THEOREM RelaysCorrect == Spec => []RelaysSound
<1>1. RelaysInv => RelaysSound
  <2> SUFFICES ASSUME RelaysInv PROVE RelaysSound
    OBVIOUS
  <2>1. TypeOK
    BY DEF RelaysInv, HistoryOK, TypeOK, Good
  <2>2. NoDangling
    BY DEF RelaysInv, NoDangling, Good, RelaysOK
  <2>3. ConnsUnique
    BY DEF RelaysInv, ConnsUnique, Good, ConnsOK
  <2> QED
    BY <2>1, <2>2, <2>3 DEF RelaysSound
<1> QED
  BY <1>1, RelaysInvariance, PTL

-----------------------------------------------------------------------------
(* The two queues of a process as one *)

\* Two queues of one kind of message are one.
LEMMA MailIs ==
    ASSUME NEW T, NEW P, P.inq \in Seq(T), P.outq \in Seq(T)
    PROVE  Mail(P) \in Seq(T) /\ Range(Mail(P)) \subseteq T
<1>1. Mail(P) \in Seq(T)
  BY ConcatFacts DEF Mail
<1> QED
  BY <1>1 DEF Range

\* Taking the first message of the queue that is read.
LEMMA MailTaken ==
    ASSUME NEW T, NEW P, P.inq \in Seq(T), P.outq \in Seq(T), P.inq # <<>>,
           NEW Q, Q.inq = Tail(P.inq), Q.outq = P.outq
    PROVE  /\ Mail(P) # <<>> /\ Head(Mail(P)) = Head(P.inq) /\ Mail(Q) = Tail(Mail(P))
           /\ Range(Mail(P)) = {Head(P.inq)} \cup Range(Mail(Q))
<1>1. Mail(P) # <<>> /\ Head(Mail(P)) = Head(P.inq) /\ Mail(Q) = Tail(Mail(P))
  BY TailConcat DEF Mail
<1>2. Mail(P) \in Seq(T)
  BY MailIs
<1> QED
  BY <1>1, <1>2, TailFacts

\* Posting a message.
LEMMA MailPosted ==
    ASSUME NEW T, NEW P, NEW Q, NEW m, Puts(T, P, m, Q)
    PROVE  Mail(Q) = Append(Mail(P), m) /\ Range(Mail(Q)) = Range(Mail(P)) \cup {m}
<1>0. P.inq \in Seq(T) /\ P.outq \in Seq(T) /\ m \in T /\ Q.inq = P.inq /\ Q.outq = Append(P.outq, m)
  BY DEF Puts
<1>1. Mail(Q) = Append(Mail(P), m)
  <2>1. \A a, b \in Seq(T), x \in T : a \o Append(b, x) = Append(a \o b, x)
    BY AppendAll
  <2>2. P.inq \o Append(P.outq, m) = Append(P.inq \o P.outq, m)
    BY <1>0, <2>1, Zenon
  <2> QED
    BY <1>0, <2>2, Zenon DEF Mail
<1>2. Mail(P) \in Seq(T)
  BY <1>0, MailIs
<1> QED
  BY <1>0, <1>1, <1>2, AppendFacts

\* The empty queue is swapped with the other: the messages stay as they are.
LEMMA MailSwapped ==
    ASSUME NEW T, NEW P, P.inq = <<>>, P.outq \in Seq(T), NEW Q, Q.inq = P.outq, Q.outq = <<>>
    PROVE  Mail(Q) = Mail(P)
BY DEF Mail

-----------------------------------------------------------------------------
(* A call or reply at a relay *)

\* FindOrCreate and WithLocal find the relay of a message, with its local
\* object.
LEMMA RelayIsMet ==
    ASSUME NEW p, NEW P, NEW D, Good(p, P, D), NEW m \in Message(D), m.dest \in Oids, m.iid # "COM",
           Free(P) # {}
    PROVE  \E R, r : R = WithLocal(p, FindOrCreate(P, m), m) /\ Met(p, P, m, R, r)
<1>1. PICK F : F = FindOrCreate(P, m)
  OBVIOUS
<1>2. PICK R : R = WithLocal(p, F, m)
  OBVIOUS
<1>3. /\ Good(p, F, D) /\ Same(P, F, {"relay"}) /\ m.dest \in DOMAIN F.relay
      /\ F.relay[m.dest].localp = NoOid => Free(F) = Free(P)
  BY <1>1, FindOrCreateGood
<1>4. /\ DOMAIN F.relay = DOMAIN P.relay \cup {m.dest}
      /\ \A o \in DOMAIN P.relay : F.relay[o] = P.relay[o]
      /\ m.dest \notin DOMAIN P.relay =>
           F.relay[m.dest] = [
               localp |-> IF m.iid = "COM" THEN NoOid ELSE m.src, serves |-> FALSE,
               pExtern |-> P.ext \in {"open", "closed"}
                           /\ IF m.iid = "COM" THEN \E c \in P.conns : c.oid = m.dest
                                               ELSE m.iid \in P.interfaces,
               unused |-> FALSE]
  BY <1>1, FindOrCreateIs DEF Good
<1>5. F.relay[m.dest] \in Relay
  BY <1>3 DEF Good, IsProcess
<1>6. /\ Same(F, R, {"relay"}) /\ DOMAIN R.relay = DOMAIN F.relay
      /\ \A o \in DOMAIN F.relay : o # m.dest => R.relay[o] = F.relay[o]
      /\ R.relay[m.dest] = Local(p, F, m, F.relay[m.dest])
  <2>1. DOMAIN F = Field
    BY <1>3 DEF Good
  <2>2. m.dest \in DOMAIN F.relay
    BY <1>3
  <2> QED
    BY <1>2, <1>5, <2>1, <2>2, WithLocalIs
<1>7. Same(P, R, {"relay"})
  BY <1>3, <1>6 DEF Same, Field
<1>8. /\ DOMAIN R.relay = DOMAIN P.relay \cup {m.dest}
      /\ \A o \in DOMAIN P.relay : o # m.dest => R.relay[o] = P.relay[o]
  BY <1>4, <1>6
<1>9. m.src # NoOid
  BY OidFacts DEF Message, NoOid, App, Ext
<1>10. CASE m.dest \notin DOMAIN P.relay
  <2>1. PICK b : b = (P.ext \in {"open", "closed"} /\ m.iid \in P.interfaces)
    OBVIOUS
  <2>2. F.relay[m.dest] = [localp |-> m.src, serves |-> FALSE, pExtern |-> b, unused |-> FALSE]
    BY <1>4, <1>10, <2>1, Zenon
  <2>3. R.relay[m.dest] = F.relay[m.dest]
    BY <1>6, <1>9, <2>2 DEF Local
  <2>4. PICK q : q = R.relay[m.dest]
    OBVIOUS
  <2>5. q.localp = m.src /\ ~q.serves /\ ~q.unused /\ q.pExtern = b
    BY <2>2, <2>3, <2>4
  <2>6. NewRelay(P, m, R.relay[m.dest])
    BY <1>10, <2>1, <2>4, <2>5, Zenon DEF NewRelay, HasExt
  <2> QED
    BY <1>1, <1>2, <1>7, <1>8, <2>6 DEF Met
<1>11. CASE m.dest \in DOMAIN P.relay /\ P.relay[m.dest].localp # NoOid
  <2>1. R.relay[m.dest] = P.relay[m.dest]
    BY <1>4, <1>6, <1>11 DEF Local
  <2>2. KnownRelay(P, m, R.relay[m.dest])
    BY <1>11, <2>1 DEF KnownRelay
  <2> QED
    BY <1>1, <1>2, <1>7, <1>8, <2>2 DEF Met
<1>12. CASE m.dest \in DOMAIN P.relay /\ P.relay[m.dest].localp = NoOid
  <2>1. F.relay[m.dest] = P.relay[m.dest] /\ Free(F) = Free(P)
    BY <1>3, <1>4, <1>12
  <2>2. PICK f, b, r : f = Min(Free(P)) /\ b = IsExported(p, m.iid) /\ r = P.relay[m.dest]
    OBVIOUS
  <2>3. f \in Free(P)
    BY <2>2, MinIn, OidFacts DEF Free
  <2>4. R.relay[m.dest] = [localp |-> f, serves |-> b, pExtern |-> r.pExtern, unused |-> r.unused]
    BY <1>6, <1>12, <2>1, <2>2 DEF Local
  <2>5. FirstUsed(p, P, m, R.relay[m.dest])
    BY <1>12, <2>2, <2>3, <2>4 DEF FirstUsed
  <2> QED
    BY <1>1, <1>2, <1>7, <1>8, <2>5 DEF Met
<1> QED
  BY <1>10, <1>11, <1>12

\* What a relay sends on to its local object.
LEMMA ForwardIs ==
    ASSUME NEW D, NEW m \in Message(D), NEW r
    PROVE  casymsg_forward(m, r) = Msg(m.dest, r.localp, m.kind, m.iid, m.n)
<1>1. PICK l, d : l = r.localp /\ d = m.dest
  OBVIOUS
<1>2. PICK x : x = casymsg_forward(m, r)
  OBVIOUS
<1>3. x = [i \in {"src", "dest", "kind", "iid", "n"} |->
            IF i = "dest" THEN l ELSE IF i = "src" THEN d ELSE m[i]]
  BY <1>1, <1>2 DEF casymsg_forward, Message, Queued
<1>4. x = [src |-> d, dest |-> l, kind |-> m.kind, iid |-> m.iid, n |-> m.n]
  BY <1>3
<1> QED
  BY <1>1, <1>2, <1>4 DEF Msg

\* COMRelay_COM_message is one of the three things that become of a message.
LEMMA MessageIs ==
    ASSUME RelaysInv, NEW p \in Procs, COMRelay_COM_message(p), NEW m, m = Head(proc[p].inq),
           m.iid # "COM"
    PROVE  \E R, r, Q : Relayed(p, m, R, r, Q) /\ proc' = [proc EXCEPT ![p] = Q]
<1>1. PICK T : T = Taken(p)
  OBVIOUS
<1>2. Good(p, T, DOMAIN sent) /\ Same(proc[p], T, {"inq"}) /\ m \in Message(DOMAIN sent)
  BY <1>1, DeliveredGood DEF COMRelay_COM_message
<1>3. m.dest \in Oids
  BY DEF COMRelay_COM_message, IsRelay
<1>4. Free(T) # {}
  <2>1. Free(T) = Free(proc[p])
    BY <1>2 DEF Free, Linked, Same, Field
  <2> QED
    BY <2>1 DEF COMRelay_COM_message
<1>5. PICK R, r : R = WithLocal(p, FindOrCreate(T, m), m) /\ Met(p, T, m, R, r)
  BY <1>2, <1>3, <1>4, RelayIsMet
<1>6. R.relay[m.dest] = r /\ DOMAIN R = Field
  BY <1>5 DEF Met, Same
<1>7. PICK Q : Q = IF ~r.pExtern THEN R
                   ELSE IF m.src # r.localp THEN Post(R, casymsg_forward(m, r))
                   ELSE Outgoing(p, R, m.dest, m.kind, m.iid, m.n)
  OBVIOUS
<1>8. proc' = [proc EXCEPT ![p] = Q]
  BY <1>1, <1>5, <1>6, <1>7 DEF COMRelay_COM_message
<1>9. IsLost(R, r, Q) \/ Passed(R, r, m, Q) \/ SentOut(p, R, r, m, Q)
  <2>1. CASE ~r.pExtern
    BY <1>7, <2>1 DEF IsLost
  <2>2. CASE r.pExtern /\ m.src # r.localp
    <3>1. casymsg_forward(m, r) = Msg(m.dest, r.localp, m.kind, m.iid, m.n)
      BY <1>2, ForwardIs
    <3> QED
      BY <1>6, <1>7, <2>2, <3>1, PostIs DEF Passed
  <2>3. CASE r.pExtern /\ m.src = r.localp
    <3>1. Q = Outgoing(p, R, m.dest, m.kind, m.iid, m.n)
      BY <1>7, <2>3
    <3> QED
      BY <1>6, <2>3, <3>1, OutgoingIs DEF SentOut
  <2> QED
    BY <2>1, <2>2, <2>3
<1> QED
  BY <1>1, <1>5, <1>8, <1>9 DEF Relayed

-----------------------------------------------------------------------------
(* The client *)

\* Then only new messages matter.
LEMMA ClientCalm ==
    ASSUME NEW P, NEW Q, NEW s, NEW dr, NEW di, NEW ei, di \subseteq ei,
           ClientOK(P, s, dr, di), Calm(P, Q), Q.interfaces \subseteq Found("client"),
           \A m \in Range(Mail(Q)) :
                \/ m \in Range(Mail(P))
                \/ /\ ClientMail(Q, m, s, ei)
                   /\ m.src = Ext /\ m.dest \in P.applinks =>
                        m.dest \in DOMAIN P.relay \/ Proxy(m.dest) \in ei
    PROVE  ClientOK(Q, s, dr, ei)
<1>1. ClientRelays(Q)
  BY DEF ClientOK, ClientRelays, Calm
<1>2. ClientKept(Q, ei)
  BY DEF ClientOK, ClientKept, Kept, Calm
<1>3. ClientSent(Q, s, dr)
  BY DEF ClientOK, ClientSent, Calm
<1>4. ASSUME NEW m \in Range(Mail(P)) PROVE ClientMail(Q, m, s, ei)
  <2>1. ClientMail(P, m, s, di)
    BY DEF ClientOK
  <2>2. AppCall(P, m, s) => AppCall(Q, m, s)
    BY DEF AppCall, Calm
  <2>3. ExtReply(P, m, s) => ExtReply(Q, m, s)
    BY DEF ExtReply, Calm
  <2>4. ExtEnd(P, m, di) => ExtEnd(Q, m, ei)
    BY DEF ExtEnd, Calm
  <2> QED
    BY <2>1, <2>2, <2>3, <2>4 DEF ClientMail
<1>5. \A w \in Range(Q.out) : ClientOut(w, s, dr)
  BY DEF ClientOK, Calm
<1> QED
  BY <1>1, <1>2, <1>3, <1>4, <1>5 DEF ClientOK

\* Q is P after something that concerns the relay o.
LEMMA ClientMoves ==
    ASSUME NEW P, NEW Q, NEW s, NEW dr, NEW di, ClientOK(P, s, dr, di), NEW o \in Oids,
           Q.objects = P.objects, Q.applinks = P.applinks, Q.interfaces = P.interfaces,
           Q.ext = P.ext, P.extlinks \subseteq Q.extlinks,
           DOMAIN Q.relay = DOMAIN P.relay \cup {o},
           \A x \in DOMAIN P.relay : x # o => Q.relay[x] = P.relay[x],
           ~Q.relay[o].serves, Q.relay[o].pExtern => Q.relay[o].localp = App /\ ~Q.relay[o].unused,
           HasExt(P) => o \in Q.extlinks,
           P.conns \subseteq Q.conns, Q.relay[o].pExtern => \E d \in Q.conns : d.oid = o,
           \A d \in Q.conns : d \in P.conns \/ (d.oid = o /\ d.extid = Key(o)),
           HasExt(P) /\ o \in P.applinks /\ Proxy(o) \notin di => Q.relay[o].pExtern,
           \A m \in Range(Mail(Q)) : m \in Range(Mail(P)) \/ AppReply(m, s),
           \A w \in Range(Q.out) : w \in Range(P.out) \/ ClientOut(w, s, dr)
    PROVE  ClientOK(Q, s, dr, di)
<1>0. HasExt(Q) <=> HasExt(P)
  BY DEF HasExt
<1>1. ClientRelays(Q)
  <2>1. ClientRelays(P)
    BY DEF ClientOK
  <2>2. DOMAIN Q.objects = {} /\ \A d \in Q.conns : d.extid = Key(d.oid)
    BY <2>1 DEF ClientRelays
  <2>3. \A x \in DOMAIN Q.relay :
            /\ ~Q.relay[x].serves
            /\ Q.relay[x].pExtern => /\ Q.relay[x].localp = App /\ ~Q.relay[x].unused
                                     /\ \E d \in Q.conns : d.oid = x
    BY <2>1 DEF ClientRelays
  <2>4. HasExt(Q) => DOMAIN Q.relay \subseteq Q.extlinks
    BY <1>0, <2>1 DEF ClientRelays
  <2> QED
    BY <2>1, <2>2, <2>3, <2>4 DEF ClientRelays
<1>2. ClientKept(Q, di)
  <2> SUFFICES ASSUME HasExt(Q), NEW x \in Q.applinks, Proxy(x) \notin di PROVE Kept(Q, x)
    BY DEF ClientKept
  <2>1. Kept(P, x)
    BY <1>0 DEF ClientOK, ClientKept
  <2>2. \A m \in Range(Mail(Q)) : m.src = Ext => m \in Range(Mail(P))
    BY OidFacts DEF AppReply
  <2>3. CASE x = o
    BY <1>0, <2>3 DEF Kept
  <2>4. CASE x # o
    BY <2>1, <2>2, <2>4 DEF Kept
  <2> QED
    BY <2>3, <2>4
<1>3. ClientSent(Q, s, dr)
  BY DEF ClientOK, ClientSent
<1>4. ASSUME NEW m \in Range(Mail(Q)) PROVE ClientMail(Q, m, s, di)
  <2>1. ClientMail(P, m, s, di) \/ AppReply(m, s)
    BY DEF ClientOK
  <2>2. AppCall(P, m, s) => AppCall(Q, m, s)
    BY <1>0 DEF AppCall
  <2>3. ExtReply(P, m, s) => ExtReply(Q, m, s)
    BY <1>0 DEF ExtReply
  <2>4. ExtEnd(P, m, di) => ExtEnd(Q, m, di)
    BY <1>0 DEF ExtEnd
  <2> QED
    BY <2>1, <2>2, <2>3, <2>4 DEF ClientMail
<1>5. \A w \in Range(Q.out) : ClientOut(w, s, dr)
  BY DEF ClientOK
<1> QED
  BY <1>1, <1>2, <1>3, <1>4, <1>5 DEF ClientOK

\* The mail of a process that takes the first message.
LEMMA TakenMail ==
    ASSUME RelaysInv, NEW p \in Procs, Delivers(p), NEW T, T = Taken(p),
           NEW m, m = Head(proc[p].inq)
    PROVE  /\ Mail(proc[p]) # <<>> /\ Head(Mail(proc[p])) = m /\ Mail(T) = Tail(Mail(proc[p]))
           /\ Mail(T) \in Seq(Message(DOMAIN sent))
           /\ Range(Mail(proc[p])) = {m} \cup Range(Mail(T))
           /\ Good(p, T, DOMAIN sent) /\ Same(proc[p], T, {"inq"}) /\ m \in Message(DOMAIN sent)
<1>1. Good(p, T, DOMAIN sent) /\ Same(proc[p], T, {"inq"}) /\ m \in Message(DOMAIN sent)
  BY DeliveredGood
<1>2. /\ proc[p].inq \in Seq(Message(DOMAIN sent)) /\ proc[p].outq \in Seq(Message(DOMAIN sent))
      /\ T.inq = Tail(proc[p].inq) /\ T.outq = proc[p].outq /\ proc[p].inq # <<>>
      /\ T.inq \in Seq(Message(DOMAIN sent))
  BY <1>1, TakenIs DEF RelaysInv, Good, Delivers, Same, Field
<1>3. /\ Mail(proc[p]) # <<>> /\ Head(Mail(proc[p])) = m /\ Mail(T) = Tail(Mail(proc[p]))
      /\ Range(Mail(proc[p])) = {m} \cup Range(Mail(T))
  BY <1>2, MailTaken
<1>4. Mail(T) \in Seq(Message(DOMAIN sent))
  BY <1>2, MailIs
<1> QED
  BY <1>1, <1>3, <1>4

\* Interfaces of served objects are neither COM nor that of replies.
LEMMA IfaceFacts == \A i \in Iface : i # "COM" /\ i # "R"
BY ProtocolAssumption

\* The client exports nothing.
LEMMA NoneExported ==
    ASSUME OneWay
    PROVE  \A i : ~IsExported("client", i)
<1>1. DOMAIN Exports["client"] = {}
  BY DEF OneWay
<1> QED
  BY <1>1 DEF IsExported, ToSet

\* The relay that a call or reply of the client meets.
LEMMA ClientMet ==
    ASSUME OneWay, RelaysInv, NEW P, P = proc["client"], ClientOK(P, sent, dropped, died),
           Delivers("client"), NEW m, m = Head(P.inq), AppCall(P, m, sent) \/ ExtReply(P, m, sent),
           NEW T, T = Taken("client"), NEW R, NEW r, Met("client", T, m, R, r)
    PROVE  AtClient(P, m, R, r, sent, died)
<1>3. /\ Range(Mail(P)) = {m} \cup Range(Mail(T)) /\ Same(P, T, {"inq"})
      /\ Good("client", T, DOMAIN sent)
  BY TakenMail DEF Procs
<1>4. m.iid # "COM" /\ m.src # NoOid
  BY IfaceFacts DEF AppCall, ExtReply, App, Ext, NoOid
<1>9. /\ R.objects = P.objects /\ R.applinks = P.applinks /\ R.interfaces = P.interfaces
      /\ R.ext = P.ext /\ R.extlinks = P.extlinks /\ R.conns = P.conns /\ R.out = P.out
      /\ DOMAIN R.relay = DOMAIN P.relay \cup {m.dest}
      /\ \A x \in DOMAIN P.relay : x # m.dest => R.relay[x] = P.relay[x]
      /\ R.relay[m.dest] = r /\ R.inq = T.inq /\ R.outq = T.outq /\ T.relay = P.relay
      /\ T.ext = P.ext /\ T.interfaces = P.interfaces
  BY <1>3 DEF Met, Same, Field
<1>10. ClientRelays(P) /\ ClientKept(P, died)
  BY DEF ClientOK
<1>5. T.relay = P.relay
  BY <1>9
<1>6. KnownRelay(T, m, r) => m.dest \in DOMAIN P.relay /\ r = P.relay[m.dest]
  BY <1>5 DEF KnownRelay
<1>7. FirstUsed("client", T, m, r) =>
        /\ m.dest \in DOMAIN P.relay /\ P.relay[m.dest].localp = NoOid
        /\ r.pExtern = P.relay[m.dest].pExtern
  BY <1>5 DEF FirstUsed
<1>8. NewRelay(T, m, r) => m.dest \notin DOMAIN P.relay
  BY <1>5 DEF NewRelay
<1>14. KnownRelay(T, m, r) \/ FirstUsed("client", T, m, r) \/ NewRelay(T, m, r)
  BY DEF Met
<1>11. ~r.serves /\ (r.pExtern => r.localp = App /\ ~r.unused)
  <2>1. CASE KnownRelay(T, m, r)
    BY <1>6, <1>10, <2>1 DEF ClientRelays
  <2>2. CASE FirstUsed("client", T, m, r)
    <3>1. ~r.pExtern
      BY <1>7, <1>10, <2>2 DEF ClientRelays, App, NoOid
    <3>2. ~r.serves
      BY <2>2, NoneExported DEF FirstUsed
    <3> QED
      BY <3>1, <3>2
  <2>3. CASE NewRelay(T, m, r)
    <3>1. P.interfaces \subseteq Iface
      BY <1>3, <1>9 DEF Good, IsProcess
    <3> QED
      BY <1>4, <1>9, <2>3, <3>1, IfaceFacts DEF NewRelay, AppCall, ExtReply
  <2> QED
    BY <2>1, <2>2, <2>3 DEF Met
<1>12. HasExt(P) /\ m.dest \in P.applinks /\ Proxy(m.dest) \notin died => r.pExtern
  <2> SUFFICES ASSUME HasExt(P), m.dest \in P.applinks, Proxy(m.dest) \notin died PROVE r.pExtern
    OBVIOUS
  <2>1. Kept(P, m.dest)
    BY <1>10 DEF ClientKept
  <2>2. m.dest \in DOMAIN P.relay => P.relay[m.dest].pExtern
    BY <2>1 DEF Kept
  <2>3. CASE m.dest \in DOMAIN P.relay
    BY <1>6, <1>7, <1>8, <1>14, <2>2, <2>3
  <2>4. CASE m.dest \notin DOMAIN P.relay
    <3>1. ~ExtReply(P, m, sent)
      <4>1. m \in Range(Mail(P))
        BY <1>3
      <4> QED
        BY <2>1, <2>4, <4>1 DEF Kept, ExtReply
    <3>2. NewRelay(T, m, r) /\ m.iid \in P.interfaces
      <4>1. m.iid \in P.interfaces
        BY <3>1 DEF AppCall
      <4> QED
        BY <1>6, <1>7, <1>14, <2>4, <4>1
    <3>3. HasExt(T)
      <4>1. T.ext = P.ext
        BY <1>9
      <4> QED
        BY <4>1 DEF HasExt
    <3> QED
      BY <1>9, <3>2, <3>3 DEF NewRelay
  <2> QED
    BY <2>3, <2>4
<1>13. HasExt(P) /\ ~r.pExtern => m.dest \in P.extlinks
  <2> SUFFICES ASSUME HasExt(P), ~r.pExtern PROVE m.dest \in P.extlinks
    OBVIOUS
  <2>1. m.dest \in DOMAIN P.relay => m.dest \in P.extlinks
    BY <1>10 DEF ClientRelays
  <2>2. ExtReply(P, m, sent) => m.dest \in P.extlinks
    BY DEF ExtReply
  <2>3. m.dest \notin DOMAIN P.relay /\ AppCall(P, m, sent) => r.pExtern
    <3> SUFFICES ASSUME m.dest \notin DOMAIN P.relay, AppCall(P, m, sent) PROVE r.pExtern
      OBVIOUS
    <3>1. NewRelay(T, m, r) /\ T.ext = P.ext /\ T.interfaces = P.interfaces
      BY <1>6, <1>7, <1>9, <1>14
    <3>2. m.iid \in P.interfaces /\ HasExt(T)
      BY <3>1 DEF AppCall, HasExt
    <3> QED
      BY <3>1, <3>2 DEF NewRelay
  <2> QED
    BY <1>4, <2>1, <2>2, <2>3
<1>18. r.pExtern => (\E d \in P.conns : d.oid = m.dest) \/ AppCall(P, m, sent)
  <2>1. CASE KnownRelay(T, m, r) \/ FirstUsed("client", T, m, r)
    <3>1. m.dest \in DOMAIN P.relay /\ r.pExtern = P.relay[m.dest].pExtern
      BY <1>6, <1>7, <2>1
    <3> QED
      BY <1>10, <3>1 DEF ClientRelays
  <2>2. CASE NewRelay(T, m, r)
    <3>1. P.interfaces \subseteq Iface
      BY <1>3, <1>9 DEF Good, IsProcess
    <3> QED
      BY <1>4, <1>9, <2>2, <3>1, IfaceFacts DEF NewRelay, AppCall, ExtReply
  <2> QED
    BY <2>1, <2>2 DEF Met
<1>19. m.dest \in DOMAIN P.relay => (r.pExtern <=> P.relay[m.dest].pExtern)
  BY <1>6, <1>7, <1>8, <1>14
<1> QED
  BY <1>9, <1>11, <1>12, <1>13, <1>18, <1>19 DEF AtClient

\* A call of the application goes out, a reply to the application.
LEMMA ClientMessage ==
    ASSUME OneWay, RelaysInv, NEW P, P = proc["client"], ClientOK(P, sent, dropped, died),
           COMRelay_COM_message("client")
    PROVE  ClientOK(proc'["client"], sent, dropped, died)
<1>0. PICK m : m = Head(P.inq)
  OBVIOUS
<1>1. PICK T : T = Taken("client")
  OBVIOUS
<1>2. Delivers("client") /\ m.dest \in Oids /\ m.kind \in {"call", "reply"}
  BY <1>0 DEF COMRelay_COM_message, IsRelay
<1>3. /\ Range(Mail(P)) = {m} \cup Range(Mail(T)) /\ Same(P, T, {"inq"})
      /\ Mail(T) \in Seq(Message(DOMAIN sent)) /\ m \in Message(DOMAIN sent)
      /\ Good("client", T, DOMAIN sent)
  BY <1>0, <1>1, <1>2, TakenMail DEF Procs
<1>4. AppCall(P, m, sent) \/ ExtReply(P, m, sent)
  <2>1. ClientMail(P, m, sent, died)
    BY <1>3 DEF ClientOK
  <2> QED
    BY <1>2, <2>1, OidFacts DEF ClientMail, AppReply, ExtEnd, ToSelf
<1>5. m.iid # "COM" /\ m.src # NoOid
  BY <1>4, IfaceFacts DEF AppCall, ExtReply, App, Ext, NoOid
<1>6. PICK R, r, Q : Relayed("client", m, R, r, Q) /\ proc' = [proc EXCEPT !["client"] = Q]
  BY <1>0, <1>2, <1>5, MessageIs DEF Procs
<1>7. proc'["client"] = Q
  BY <1>6 DEF RelaysInv, Procs
<1>8. Met("client", T, m, R, r)
  BY <1>1, <1>6 DEF Relayed
<1>19. AtClient(P, m, R, r, sent, died)
  BY <1>0, <1>1, <1>2, <1>4, <1>8, ClientMet
<1>9. /\ R.objects = P.objects /\ R.applinks = P.applinks /\ R.interfaces = P.interfaces
      /\ R.ext = P.ext /\ R.extlinks = P.extlinks /\ R.conns = P.conns /\ R.out = P.out
      /\ DOMAIN R.relay = DOMAIN P.relay \cup {m.dest}
      /\ \A x \in DOMAIN P.relay : x # m.dest => R.relay[x] = P.relay[x]
      /\ R.relay[m.dest] = r /\ R.inq = T.inq /\ R.outq = T.outq
  BY <1>8, <1>19 DEF AtClient, Met, Same, Field
<1>10. ClientRelays(P) /\ ClientKept(P, died)
  BY DEF ClientOK
<1>11. ~r.serves /\ (r.pExtern => r.localp = App /\ ~r.unused)
  BY <1>19 DEF AtClient
<1>12. HasExt(P) /\ m.dest \in P.applinks /\ Proxy(m.dest) \notin died => r.pExtern
  BY <1>19 DEF AtClient
<1>13. HasExt(P) /\ ~r.pExtern => m.dest \in P.extlinks
  BY <1>19 DEF AtClient
<1>18. r.pExtern => (\E d \in P.conns : d.oid = m.dest) \/ AppCall(P, m, sent)
  BY <1>19 DEF AtClient
<1>14. Q.relay = R.relay
  BY <1>6 DEF Relayed, IsLost, Passed, SentOut, Same, Field
<1>15. CASE IsLost(R, r, Q)
  <2>1. Q = R /\ Mail(Q) = Mail(T)
    BY <1>9, <1>15 DEF IsLost, Mail
  <2>2. ClientOK(Q, sent, dropped, died)
    BY <1>2, <1>3, <1>9, <1>11, <1>12, <1>13, <1>15, <2>1, ClientMoves DEF IsLost
  <2> QED
    BY <1>7, <2>2
<1>16. CASE Passed(R, r, m, Q)
  <2>1. PICK a : a = Msg(m.dest, App, m.kind, m.iid, m.n)
    OBVIOUS
  <2>2. r.localp = App /\ m.src # App /\ Q.outq = Append(T.outq, a) /\ Q.inq = T.inq
    BY <1>9, <1>11, <1>16, <2>1 DEF Passed, Same, Field
  <2>3. AppReply(a, sent) /\ a \in Message(DOMAIN sent)
    <3>1. ExtReply(P, m, sent)
      BY <1>4, <2>2 DEF AppCall
    <3>2. AppReply(a, sent)
      BY <2>1, <3>1 DEF ExtReply, AppReply, Msg
    <3> QED
      BY <1>2, <1>3, <2>1, <3>1, <3>2, OidFacts DEF Message, Queued, Msg, ExtReply, App
  <2>4. Range(Mail(Q)) = Range(Mail(T)) \cup {a}
    <3>1. Puts(Message(DOMAIN sent), T, a, Q)
      BY <1>3, <2>2, <2>3 DEF Puts, Good
    <3> QED
      BY <3>1, MailPosted
  <2>5. /\ Q.objects = P.objects /\ Q.applinks = P.applinks /\ Q.interfaces = P.interfaces
        /\ Q.ext = P.ext /\ Q.extlinks = P.extlinks /\ Q.conns = P.conns /\ Q.out = P.out
    BY <1>9, <1>16 DEF Passed, Same, Field
  <2>6. HasExt(P) => m.dest \in Q.extlinks
    BY <1>4, <2>2, <2>5 DEF AppCall, ExtReply
  <2>8. \E d \in Q.conns : d.oid = m.dest
    BY <1>16, <1>18, <2>2, <2>5 DEF AppCall, Passed
  <2>7. ClientOK(Q, sent, dropped, died)
    BY <1>2, <1>3, <1>9, <1>11, <1>12, <1>14, <2>3, <2>4, <2>5, <2>6, <2>8, ClientMoves
  <2> QED
    BY <1>7, <2>7
<1>17. CASE SentOut("client", R, r, m, Q)
  <2>1. /\ Q.objects = P.objects /\ Q.applinks = P.applinks /\ Q.interfaces = P.interfaces
        /\ Q.ext = P.ext /\ Mail(Q) = Mail(T)
    BY <1>9, <1>17 DEF SentOut, Same, Field, Mail
  <2>2. PICK c : SentBy("client", R, Q, m.dest, m.kind, m.iid, m.n, c)
    BY <1>17 DEF SentOut
  <2>3. AppCall(P, m, sent)
    BY <1>4, <1>11, <1>17 DEF SentOut, ExtReply, App, Ext
  <2>4. c.oid = m.dest /\ c.extid = Key(m.dest)
    BY <1>9, <1>10, <2>2 DEF SentBy, Leaves, ClientRelays, Key
  <2>5. Q.conns = P.conns \cup {c}
    BY <1>9, <2>2, <2>3 DEF SentBy, AppCall
  <2>6. P.extlinks \subseteq Q.extlinks /\ m.dest \in Q.extlinks
    <3>1. c \in P.conns => c.oid \in P.extlinks
      BY DEF RelaysInv, Good, ConnsOK, Procs
    <3> QED
      BY <1>9, <2>2, <2>4, <3>1 DEF SentBy
  <2>7. \A w \in Range(Q.out) : w \in Range(P.out) \/ ClientOut(w, sent, dropped)
    <3>1. PICK w : w = [extid |-> c.extid, kind |-> m.kind, iid |-> m.iid, n |-> m.n]
      OBVIOUS
    <3>2. Q.out = P.out \/ Q.out = Append(P.out, w)
      BY <1>9, <2>2, <3>1 DEF SentBy
    <3>3. ClientOut(w, sent, dropped)
      BY <1>2, <2>3, <2>4, <3>1 DEF ClientOut, AppCall
    <3>4. P.out \in Seq(Written)
      BY DEF RelaysInv, Good, IsProcess, Procs
    <3>5. Range(Q.out) \subseteq Range(P.out) \cup {w}
      BY <3>2, <3>4, RangeAppend
    <3> QED
      BY <3>3, <3>5
  <2>8. ClientOK(Q, sent, dropped, died)
    BY <1>2, <1>3, <1>9, <1>11, <1>12, <1>14, <2>1, <2>4, <2>5, <2>6, <2>7, ClientMoves
  <2> QED
    BY <1>7, <2>8
<1> QED
  BY <1>6, <1>15, <1>16, <1>17 DEF Relayed

\* The relay that a COM message finds or makes.
LEMMA CreatedIs ==
    ASSUME NEW p, NEW P, NEW D, Good(p, P, D), NEW m, m.iid = "COM", NEW Q, Q = FindOrCreate(P, m)
    PROVE  /\ Same(P, Q, {"relay"}) /\ DOMAIN Q.relay = DOMAIN P.relay \cup {m.dest}
           /\ \A o \in DOMAIN P.relay : Q.relay[o] = P.relay[o]
           /\ m.dest \notin DOMAIN P.relay =>
                /\ Q.relay[m.dest].localp = NoOid /\ ~Q.relay[m.dest].serves /\ ~Q.relay[m.dest].unused
                /\ Q.relay[m.dest].pExtern <=> HasExt(P) /\ \E c \in P.conns : c.oid = m.dest
<1>1. PICK o : o = m.dest
  OBVIOUS
<1>2. PICK b : b = (P.ext \in {"open", "closed"} /\ \E c \in P.conns : c.oid = o)
  OBVIOUS
<1>3. /\ Same(P, Q, {"relay"}) /\ DOMAIN Q.relay = DOMAIN P.relay \cup {o}
      /\ \A x \in DOMAIN P.relay : Q.relay[x] = P.relay[x]
      /\ o \notin DOMAIN P.relay =>
           Q.relay[o] = [
               localp |-> IF m.iid = "COM" THEN NoOid ELSE m.src, serves |-> FALSE,
               pExtern |-> P.ext \in {"open", "closed"}
                           /\ IF m.iid = "COM" THEN \E c \in P.conns : c.oid = o
                                               ELSE m.iid \in P.interfaces,
               unused |-> FALSE]
  BY <1>1, FindOrCreateIs DEF Good
<1>4. o \notin DOMAIN P.relay =>
        Q.relay[o] = [localp |-> NoOid, serves |-> FALSE, pExtern |-> b, unused |-> FALSE]
  BY <1>2, <1>3, Zenon
<1>5. PICK q : q = Q.relay[o]
  OBVIOUS
<1>6. o \notin DOMAIN P.relay => q.localp = NoOid /\ ~q.serves /\ ~q.unused /\ q.pExtern = b
  BY <1>4, <1>5
<1>7. o \notin DOMAIN P.relay =>
        /\ q.localp = NoOid /\ ~q.serves /\ ~q.unused
        /\ q.pExtern <=> HasExt(P) /\ \E c \in P.conns : c.oid = o
  BY <1>2, <1>6, Zenon DEF HasExt
<1> QED
  BY <1>1, <1>3, <1>5, <1>7

\* An error or delete that reaches a relay of the client ends what was its
\* proxy's.
LEMMA ClientEnds ==
    ASSUME RelaysInv, NEW P, P = proc["client"], ClientOK(P, sent, dropped, died),
           Delivers("client"), NEW m, m = Head(P.inq), m.dest \in Oids, m.kind \in {"error", "delete"},
           NEW F, NEW Q, Ending(Taken("client"), m, F, Q)
    PROVE  ClientOK(Q, sent, dropped, died)
<1>1. PICK T : T = Taken("client")
  OBVIOUS
<1>2. /\ Range(Mail(P)) = {m} \cup Range(Mail(T)) /\ Same(P, T, {"inq"})
      /\ Good("client", T, DOMAIN sent)
  BY <1>1, TakenMail DEF Procs
<1>3. ExtEnd(P, m, died)
  <2>1. ClientMail(P, m, sent, died)
    BY <1>2 DEF ClientOK
  <2> QED
    BY <2>1 DEF ClientMail, AppCall, ExtReply, AppReply, ToSelf
<1>4. m.iid = "COM" /\ Proxy(m.dest) \in died /\ (HasExt(P) => m.dest \in P.extlinks)
  BY <1>3 DEF ExtEnd
<1>5. /\ Same(T, F, {"relay"}) /\ DOMAIN F.relay = DOMAIN T.relay \cup {m.dest}
      /\ \A o \in DOMAIN T.relay : F.relay[o] = T.relay[o]
      /\ m.dest \notin DOMAIN T.relay => F.relay[m.dest].localp = NoOid /\ ~F.relay[m.dest].serves
  <2>1. F = FindOrCreate(T, m)
    BY <1>1 DEF Ending
  <2>2. Good("client", T, DOMAIN sent) /\ m.iid = "COM"
    BY <1>2, <1>4
  <2> QED
    BY ONLY <2>1, <2>2, CreatedIs
<1>6. ClientRelays(P)
  BY DEF ClientOK
<1>7. /\ Q.objects = P.objects /\ Q.applinks = P.applinks /\ Q.interfaces = P.interfaces
      /\ Q.ext = P.ext /\ Q.extlinks = P.extlinks /\ Q.conns = P.conns /\ Q.out = P.out
      /\ Q.inq = T.inq /\ Q.outq = T.outq /\ T.relay = P.relay
  <2>1. Same(F, Q, {"relay"})
    BY DEF Ending
  <2> QED
    BY <1>2, <1>5, <2>1 DEF Same, Field
<1>8. DOMAIN Q.relay = DOMAIN P.relay \cup {m.dest} /\ DOMAIN Q.relay = DOMAIN F.relay
  BY <1>5, <1>7 DEF Ending
<1>9. \A x \in DOMAIN P.relay : x # m.dest => Q.relay[x] = P.relay[x]
  <2>1. \A x \in DOMAIN F.relay : x # m.dest => Q.relay[x] = F.relay[x]
    BY DEF Ending
  <2>2. \A x \in DOMAIN P.relay : x \in DOMAIN F.relay /\ F.relay[x] = P.relay[x]
    BY <1>5, <1>7
  <2> QED
    BY <2>1, <2>2
<1>10. ~Q.relay[m.dest].serves
  <2>1. ~F.relay[m.dest].serves
    BY <1>5, <1>6, <1>7 DEF ClientRelays
  <2> QED
    BY <2>1 DEF Ending
<1>14. Q.relay[m.dest].pExtern => m.dest \in DOMAIN P.relay /\ Q.relay[m.dest] = P.relay[m.dest]
  <2> SUFFICES ASSUME Q.relay[m.dest].pExtern
               PROVE  m.dest \in DOMAIN P.relay /\ Q.relay[m.dest] = P.relay[m.dest]
    OBVIOUS
  <2>1. F.relay = Q.relay /\ NoStray(Q)
    BY DEF Ending
  <2>2. m.dest \in DOMAIN P.relay
    BY <1>5, <1>7, <1>8, <2>1 DEF NoStray
  <2>3. F.relay[m.dest] = P.relay[m.dest]
    BY <1>5, <1>7, <2>2
  <2> QED
    BY <2>1, <2>2, <2>3
<1>11. Q.relay[m.dest].pExtern => Q.relay[m.dest].localp = App /\ ~Q.relay[m.dest].unused
  BY <1>6, <1>14 DEF ClientRelays
<1>12. Mail(Q) = Mail(T)
  BY <1>7 DEF Mail
<1>13. Q.relay[m.dest].pExtern => \E d \in Q.conns : d.oid = m.dest
  <2>1. Q.conns = P.conns
    BY <1>7
  <2> QED
    BY <1>6, <1>14, <2>1 DEF ClientRelays
<1> QED
  BY <1>2, <1>4, <1>7, <1>8, <1>9, <1>10, <1>11, <1>12, <1>13, ClientMoves

\* COMRelay_COM_error at the client, where the relay is still there.
LEMMA ClientError ==
    ASSUME RelaysInv, NEW P, P = proc["client"], ClientOK(P, sent, dropped, died),
           COMRelay_COM_error("client"), NoStray(proc'["client"])
    PROVE  ClientOK(proc'["client"], sent, dropped, died)
<1>1. PICK m, F : m = Head(P.inq) /\ F = FindOrCreate(Taken("client"), m)
  OBVIOUS
<1>2. Delivers("client") /\ m.dest \in Oids /\ m.kind = "error" /\ proc' = [proc EXCEPT !["client"] = F]
  BY <1>1 DEF COMRelay_COM_error, IsRelay
<1>3. proc'["client"] = F
  BY <1>2 DEF RelaysInv, Procs
<1>4. DOMAIN F = Field
  <2>1. Good("client", Taken("client"), DOMAIN sent) /\ m \in Message(DOMAIN sent)
    BY <1>1, <1>2, DeliveredGood DEF Procs
  <2> QED
    BY <1>1, <1>2, <2>1, FindOrCreateGood DEF Same
<1>5. Ending(Taken("client"), m, F, F)
  BY <1>1, <1>3, <1>4 DEF Same, Ending
<1> QED
  BY <1>1, <1>2, <1>3, <1>5, ClientEnds

\* COMRelay_COM_delete at the client.
LEMMA ClientDelete ==
    ASSUME RelaysInv, NEW P, P = proc["client"], ClientOK(P, sent, dropped, died),
           COMRelay_COM_delete("client")
    PROVE  ClientOK(proc'["client"], sent, dropped, died)
<1>1. PICK m, F : m = Head(P.inq) /\ F = FindOrCreate(Taken("client"), m)
  OBVIOUS
<1>2. PICK o, Q : o = m.dest /\ Q = [F EXCEPT !.relay[o] = Deleted(@)]
  OBVIOUS
<1>3. Delivers("client") /\ m.dest \in Oids /\ m.kind = "delete" /\ proc' = [proc EXCEPT !["client"] = Q]
  BY <1>1, <1>2 DEF COMRelay_COM_delete, IsRelay
<1>4. proc'["client"] = Q
  BY <1>3 DEF RelaysInv, Procs
<1>5. Good("client", F, DOMAIN sent) /\ o \in DOMAIN F.relay
  <2>1. Good("client", Taken("client"), DOMAIN sent) /\ m \in Message(DOMAIN sent)
    BY <1>1, <1>3, DeliveredGood DEF Procs
  <2> QED
    BY <1>1, <1>2, <1>3, <2>1, FindOrCreateGood
<1>6. /\ Same(F, Q, {"relay"}) /\ DOMAIN Q.relay = DOMAIN F.relay
      /\ \A x \in DOMAIN F.relay : x # o => Q.relay[x] = F.relay[x]
      /\ Q.relay[o] = Deleted(F.relay[o])
  BY <1>2, <1>5 DEF Same, Field, Good
<1>7. ~Q.relay[o].pExtern /\ Q.relay[o].serves = F.relay[o].serves
  <2>1. F.relay[o] \in Relay
    BY <1>5 DEF Good, IsProcess
  <2> QED
    BY <1>6, <2>1 DEF Deleted, Relay
<1>8. Ending(Taken("client"), m, F, Q)
  BY <1>1, <1>2, <1>6, <1>7 DEF Ending
<1> QED
  BY <1>1, <1>3, <1>4, <1>8, ClientEnds

\* Extern_Extern_close is quiet.
LEMMA ClosedQuiet ==
    ASSUME NEW P, NEW Q, DOMAIN P = Field, P.ext = "open", Q \in Closed(P)
    PROVE  Quiet(P, Q)
<1>1. Same(P, Q, {"ext", "out"}) /\ Q.ext = "closed" /\ \E k \in 0 .. Len(P.out) : Q.out = SubSeq(P.out, 1, k)
  BY ClosedIs
<1>2. Mail(Q) = Mail(P)
  BY <1>1 DEF Mail, Same, Field
<1>3. Same(P, Q, {"told", "inq", "outq", "out", "ext"})
  BY <1>1 DEF Same, Field
<1> QED
  BY <1>1, <1>2, <1>3 DEF Quiet, QuietMail, HasExt

\* The actions that leave connections and relays alone.
LEMMA QuietIs ==
    ASSUME RelaysInv, NEW p \in Procs,
           \/ DropMessage(p) \/ AppConnected(p) \/ AppAnswered(p) \/ AppCloses(p)
           \/ Extern_Extern_close(p) \/ ReadClosed(p)
    PROVE  \E Q : proc' = [proc EXCEPT ![p] = Q] /\ Quiet(proc[p], Q)
<1>1. PICK P, T, m : P = proc[p] /\ T = Taken(p) /\ m = Head(P.inq)
  OBVIOUS
<1>2. Good(p, P, DOMAIN sent) /\ DOMAIN P = Field
  BY <1>1 DEF RelaysInv, Good
<1>3. ASSUME Delivers(p), Skipped(P, m)
      PROVE  /\ Quiet(P, T) /\ Same(P, T, {"inq"})
             /\ Mail(P) # <<>> /\ Skipped(P, Head(Mail(P))) /\ Mail(T) = Tail(Mail(P))
  <2>1. /\ Mail(P) # <<>> /\ Head(Mail(P)) = m /\ Mail(T) = Tail(Mail(P)) /\ Same(P, T, {"inq"})
    BY <1>1, <1>3, TakenMail
  <2>2. T.ext = P.ext /\ T.out = P.out /\ Same(P, T, {"told", "inq", "outq", "out", "ext"})
    BY <2>1 DEF Same, Field
  <2> QED
    BY <1>3, <2>1, <2>2 DEF Quiet, QuietMail, HasExt
<1>4. CASE DropMessage(p)
  <2>1. Delivers(p) /\ Skipped(P, m) /\ proc' = [proc EXCEPT ![p] = T]
    BY <1>1, <1>4 DEF DropMessage, Skipped
  <2> QED
    BY <1>1, <1>3, <2>1
<1>5. CASE AppConnected(p)
  <2>1. PICK Q : Q = [T EXCEPT !.told = TRUE]
    OBVIOUS
  <2>2. Delivers(p) /\ Skipped(P, m) /\ proc' = [proc EXCEPT ![p] = Q]
    BY <1>1, <1>5, <2>1 DEF AppConnected, Skipped
  <2>3. Quiet(P, T) /\ Mail(T) = Tail(Mail(P)) /\ Mail(P) # <<>> /\ Skipped(P, Head(Mail(P))) /\ Same(P, T, {"inq"})
    BY <1>3, <2>2
  <2>4. Same(T, Q, {"told"})
    BY <1>2, <2>1, <2>3 DEF Same, Field
  <2>5. Mail(Q) = Mail(T) /\ Q.ext = P.ext /\ Q.out = P.out /\ Same(P, Q, {"told", "inq", "outq", "out", "ext"})
    BY <2>3, <2>4 DEF Same, Field, Mail
  <2>6. Quiet(P, Q)
    BY <2>3, <2>5 DEF Quiet, QuietMail, HasExt
  <2> QED
    BY <1>1, <2>2, <2>6
<1>6. CASE AppAnswered(p)
  <2>1. Delivers(p) /\ Skipped(P, m) /\ proc' = [proc EXCEPT ![p] = T]
    BY <1>1, <1>6 DEF AppAnswered, Skipped
  <2> QED
    BY <1>1, <1>3, <2>1
<1>7. CASE AppCloses(p)
  <2>1. PICK Q, a : Q = Post(P, a) /\ a = Msg(App, Ext, "close", "COM", 0)
    OBVIOUS
  <2>2. proc' = [proc EXCEPT ![p] = Q]
    BY <1>1, <1>7, <2>1 DEF AppCloses
  <2>3. Same(P, Q, {"outq"}) /\ Q.outq = Append(P.outq, a)
    BY <1>2, <2>1, PostIs
  <2>4. Puts(Message(DOMAIN sent), P, a, Q) /\ ToSelf(a)
    <3>1. a \in Message(DOMAIN sent) /\ ToSelf(a)
      BY <2>1 DEF Message, Queued, Msg, Kinds, App, Ext, ToSelf
    <3> QED
      BY <1>2, <2>3, <3>1 DEF Puts, Good, Same, Field
  <2>5. Mail(Q) = Append(Mail(P), a)
    BY <2>4, MailPosted
  <2>6. Q.ext = P.ext /\ Q.out = P.out /\ Same(P, Q, {"told", "inq", "outq", "out", "ext"})
    BY <2>3 DEF Same, Field
  <2>7. Quiet(P, Q)
    BY <2>4, <2>5, <2>6 DEF Quiet, QuietMail, HasExt
  <2> QED
    BY <1>1, <2>2, <2>7
<1>8. CASE Extern_Extern_close(p)
  <2>1. Delivers(p) /\ Skipped(P, m)
    BY <1>1, <1>8 DEF Extern_Extern_close, Skipped
  <2>2. Quiet(P, T) /\ Mail(T) = Tail(Mail(P)) /\ Mail(P) # <<>> /\ Skipped(P, Head(Mail(P))) /\ Same(P, T, {"inq"})
    BY <1>3, <2>1
  <2>3. PICK Q : /\ proc' = [proc EXCEPT ![p] = Q]
                 /\ Q \in IF P.ext = "open" THEN Closed(T) ELSE {T}
    BY <1>1, <1>8 DEF Extern_Extern_close
  <2>4. CASE P.ext = "open"
    <3>1. DOMAIN T = Field /\ T.ext = "open" /\ T.out = P.out
      BY <2>2, <2>4 DEF Same, Field
    <3>2. Quiet(T, Q) /\ Same(T, Q, {"ext", "out"})
      BY <2>3, <2>4, <3>1, ClosedQuiet, ClosedIs
    <3>3. Mail(Q) = Mail(T) /\ Same(P, Q, {"told", "inq", "outq", "out", "ext"})
      BY <2>2, <3>2 DEF Mail, Same, Field
    <3>4. Quiet(P, Q)
      BY <2>2, <2>4, <3>1, <3>2, <3>3 DEF Quiet, QuietMail, HasExt
    <3> QED
      BY <1>1, <2>3, <3>4
  <2>5. CASE P.ext # "open"
    BY <1>1, <2>2, <2>3, <2>5
  <2> QED
    BY <2>4, <2>5
<1>9. CASE ReadClosed(p)
  <2>1. PICK Q \in Closed(P) : proc' = [proc EXCEPT ![p] = Q]
    BY <1>1, <1>9 DEF ReadClosed
  <2>2. Quiet(P, Q)
    BY <1>1, <1>2, <1>9, <2>1, ClosedQuiet DEF ReadClosed
  <2> QED
    BY <1>1, <2>1, <2>2
<1> QED
  BY <1>4, <1>5, <1>6, <1>7, <1>8, <1>9

\* What the client has survives them.
LEMMA ClientQuiet ==
    ASSUME NEW P, NEW D, Good("client", P, D), NEW Q, NEW s, NEW dr, NEW di, NEW ei,
           di \subseteq ei, ClientOK(P, s, dr, di), Quiet(P, Q)
    PROVE  ClientOK(Q, s, dr, ei)
<1>0. /\ P.applinks \subseteq Oids /\ P.out \in Seq(Written)
      /\ P.inq \in Seq(Message(D)) /\ P.outq \in Seq(Message(D))
  BY DEF Good, IsProcess
<1>1. /\ Q.relay = P.relay /\ Q.objects = P.objects /\ Q.conns = P.conns /\ Q.applinks = P.applinks
      /\ P.extlinks = Q.extlinks /\ P.interfaces = Q.interfaces
  BY DEF Quiet, Same, Field
<1>2. Range(Q.out) \subseteq Range(P.out)
  <2>1. \A k \in 0 .. Len(P.out) : Range(SubSeq(P.out, 1, k)) \subseteq Range(P.out)
    BY <1>0, RangePrefix
  <2> QED
    BY <2>1 DEF Quiet
<1>3. Calm(P, Q)
  BY <1>1, <1>2 DEF Calm, Quiet
<1>4. Q.interfaces \subseteq Found("client")
  BY <1>1 DEF ClientOK, ClientRelays
<1>5. ASSUME NEW m \in Range(Mail(Q)) PROVE m \in Range(Mail(P)) \/ ToSelf(m)
  <2>1. Mail(P) \in Seq(Message(D))
    BY <1>0, MailIs
  <2>2. CASE Mail(Q) = Mail(P)
    BY <2>2
  <2>3. CASE Mail(P) # <<>> /\ Mail(Q) = Tail(Mail(P))
    BY <2>1, <2>3, TailFacts
  <2>4. ASSUME NEW a, ToSelf(a), Mail(Q) = Append(Mail(P), a) PROVE m \in Range(Mail(P)) \/ ToSelf(m)
    BY <2>1, <2>4, RangeAppend
  <2> QED
    BY <2>2, <2>3, <2>4 DEF Quiet, QuietMail
<1>6. ASSUME NEW m \in Range(Mail(Q)), m \notin Range(Mail(P))
      PROVE  /\ ClientMail(Q, m, s, ei)
             /\ m.src = Ext /\ m.dest \in P.applinks => m.dest \in DOMAIN P.relay \/ Proxy(m.dest) \in ei
  <2>1. ToSelf(m)
    BY <1>5, <1>6
  <2> QED
    BY <1>0, <2>1, OidFacts DEF ToSelf, ClientMail, Ext
<1> QED
  BY <1>3, <1>4, <1>6, ClientCalm

-----------------------------------------------------------------------------
(* Relays that are destroyed *)

\* COMRelay_destroy sweeps one relay.
LEMMA SweptOne ==
    ASSUME NEW p, NEW P, NEW D, Good(p, P, D), NEW o, Connected(P, {o}),
           NEW R, R = COMRelay_destroy(p, P, o)
    PROVE  Swept(P, R, {o})
<1>1. PICK r : r = P.relay[o]
  OBVIOUS
<1>2. o \in DOMAIN P.relay /\ (r.pExtern => r.localp # NoOid /\ \E c \in P.conns : c.oid = o)
  BY <1>1 DEF Connected
<1>3. PICK Q : Removed(p, P, Q, o, R)
  BY <1>2, DestroyIs DEF Good
<1>4. /\ Q = IF r.pExtern THEN Outgoing(p, P, Deletes(P, o), "delete", "COM", 0) ELSE P
      /\ Same(Q, R, {"relay", "objects"})
      /\ R.relay = [x \in DOMAIN P.relay \ {o} |-> P.relay[x]]
      /\ R.objects = IF r.serves THEN [x \in DOMAIN P.objects \ {r.localp} |-> P.objects[x]]
                     ELSE P.objects
  BY <1>1, <1>3 DEF Removed
<1>5. P.out \in Seq(Written) /\ ConnsOK(p, P) /\ DOMAIN P = Field
  BY DEF Good, IsProcess
<1>6. /\ Same(P, Q, {"conns", "extlinks", "out"}) /\ Q.extlinks = P.extlinks
      /\ Q.conns = {c \in P.conns : ~(c.oid \in {o} /\ P.relay[c.oid].pExtern)}
      /\ \E t \in Seq(Written) : Q.out = P.out \o t /\ \A w \in Range(t) : DeleteOf(P, {o}, w)
  <2>1. P.out = P.out \o <<>> /\ <<>> \in Seq(Written) /\ Range(<<>>) = {}
    <3>1. P.out = P.out \o <<>>
      BY <1>5, ConcatEmptySeq, Zenon
    <3>2. <<>> \in Seq(Written)
      OBVIOUS
    <3>3. Range(<<>>) = {}
      BY DEF Range
    <3> QED
      BY <3>1, <3>2, <3>3
  <2>2. CASE ~r.pExtern
    BY <1>1, <1>4, <1>5, <2>1, <2>2 DEF Same
  <2>3. CASE r.pExtern
    <3>1. Q = Outgoing(p, P, o, "delete", "COM", 0)
      BY <1>1, <1>2, <1>4, <2>3 DEF Deletes
    <3>2. Same(P, Q, {"conns", "extlinks", "out"}) /\ \E c : SentBy(p, P, Q, o, "delete", "COM", 0, c)
      BY <1>5, <3>1, OutgoingIs
    <3>3. PICK c : SentBy(p, P, Q, o, "delete", "COM", 0, c)
      BY <3>2
    <3>4. c \in P.conns /\ c.oid = o /\ Q.conns = P.conns \ {c} /\ Q.extlinks = P.extlinks
      BY <1>2, <2>3, <3>3 DEF SentBy, Leaves
    <3>5. \A d \in P.conns : d.oid = o <=> d = c
      BY <1>5, <3>4 DEF ConnsOK, Good, IsProcess
    <3>6. Q.conns = {d \in P.conns : ~(d.oid \in {o} /\ P.relay[d.oid].pExtern)}
      BY <1>1, <2>3, <3>4, <3>5
    <3>7. \E t \in Seq(Written) : Q.out = P.out \o t /\ \A w \in Range(t) : DeleteOf(P, {o}, w)
      <4>1. PICK w : w = [extid |-> c.extid, kind |-> "delete", iid |-> "COM", n |-> 0]
        OBVIOUS
      <4>2. Q.out = P.out \/ Q.out = Append(P.out, w)
        BY <3>3, <4>1 DEF SentBy
      <4>3. w \in Written
        BY <3>4, <4>1 DEF Good, IsProcess, Written, Kinds
      <4>4. Append(P.out, w) = P.out \o <<w>>
        BY <1>5, <4>3, AppendIsConcat
      <4>5. <<w>> \in Seq(Written) /\ Range(<<w>>) = {w}
        BY <4>3 DEF Range
      <4>6. DeleteOf(P, {o}, w)
        BY <1>1, <1>2, <2>3, <3>4, <4>1 DEF DeleteOf
      <4>7. CASE Q.out = P.out
        BY <2>1, <4>7
      <4>8. CASE Q.out = Append(P.out, w)
        BY <4>4, <4>5, <4>6, <4>8
      <4> QED
        BY <4>2, <4>7, <4>8
    <3> QED
      BY <3>2, <3>4, <3>6, <3>7
  <2> QED
    BY <2>2, <2>3
<1>7. /\ DOMAIN R.objects = DOMAIN P.objects \ {P.relay[x].localp : x \in {y \in {o} : P.relay[y].serves}}
      /\ \A x \in DOMAIN R.objects : R.objects[x] = P.objects[x]
  BY <1>1, <1>4
<1>8. Same(P, R, {"relay", "objects", "conns", "extlinks", "out"})
  BY <1>4, <1>6 DEF Same, Field
<1>9. R.conns = Q.conns /\ R.extlinks = Q.extlinks /\ R.out = Q.out
  BY <1>4 DEF Same, Field
<1>10. DOMAIN R.relay = DOMAIN P.relay \ {o} /\ \A x \in DOMAIN R.relay : R.relay[x] = P.relay[x]
  BY <1>4
<1> QED
  BY <1>6, <1>7, <1>8, <1>9, <1>10 DEF Swept

\* Relays destroyed one after the other.
LEMMA SweptMore ==
    ASSUME NEW P, NEW Q, NEW R, NEW U, NEW o, o \notin U, P.out \in Seq(Written),
           Swept(P, Q, U), Swept(Q, R, {o}), o \in DOMAIN Q.relay
    PROVE  Swept(P, R, U \cup {o})
<1>1. PICK V : V = U \cup {o}
  OBVIOUS
<1>2. Same(P, R, {"relay", "objects", "conns", "extlinks", "out"}) /\ R.extlinks = P.extlinks
  BY DEF Swept, Same, Field
<1>3. /\ DOMAIN R.relay = DOMAIN P.relay \ V /\ \A x \in DOMAIN R.relay : R.relay[x] = P.relay[x]
      /\ o \in DOMAIN P.relay /\ Q.relay[o] = P.relay[o]
  BY <1>1 DEF Swept
<1>4. /\ DOMAIN R.objects = DOMAIN P.objects \ {P.relay[x].localp : x \in {r \in V : P.relay[r].serves}}
      /\ \A x \in DOMAIN R.objects : R.objects[x] = P.objects[x]
  <2>1. /\ DOMAIN R.objects = DOMAIN Q.objects \ {Q.relay[x].localp : x \in {r \in {o} : Q.relay[r].serves}}
        /\ \A x \in DOMAIN R.objects : R.objects[x] = Q.objects[x]
    BY DEF Swept
  <2>2. /\ DOMAIN Q.objects = DOMAIN P.objects \ {P.relay[x].localp : x \in {r \in U : P.relay[r].serves}}
        /\ \A x \in DOMAIN Q.objects : Q.objects[x] = P.objects[x]
    BY DEF Swept
  <2> QED
    BY <1>1, <1>3, <2>1, <2>2
<1>5. R.conns = {c \in P.conns : ~(c.oid \in V /\ P.relay[c.oid].pExtern)}
  <2>1. /\ Q.conns = {c \in P.conns : ~(c.oid \in U /\ P.relay[c.oid].pExtern)}
        /\ R.conns = {c \in Q.conns : ~(c.oid \in {o} /\ Q.relay[c.oid].pExtern)}
    BY DEF Swept
  <2> QED
    BY <1>1, <1>3, <2>1
<1>6. PICK t \in Seq(Written) : Q.out = P.out \o t /\ \A w \in Range(t) : DeleteOf(P, U, w)
  BY DEF Swept
<1>7. PICK u \in Seq(Written) : R.out = Q.out \o u /\ \A w \in Range(u) : DeleteOf(Q, {o}, w)
  BY DEF Swept
<1>8. R.out = P.out \o (t \o u)
  <2>1. PICK a, W : a = P.out /\ W = Written
    OBVIOUS
  <2>2. a \in Seq(W) /\ t \in Seq(W) /\ u \in Seq(W)
    BY <2>1
  <2>3. (a \o t) \o u = a \o (t \o u)
    BY ONLY <2>2, ConcatAssociative
  <2> QED
    BY <1>6, <1>7, <2>1, <2>3, Zenon
<1>9. t \o u \in Seq(Written) /\ Range(t \o u) = Range(t) \cup Range(u)
  BY ConcatFacts
<1>10. \A w : DeleteOf(P, U, w) => DeleteOf(P, V, w)
  BY <1>1 DEF DeleteOf
<1>11. \A w : DeleteOf(Q, {o}, w) => DeleteOf(P, V, w)
  BY <1>1, <1>3 DEF DeleteOf, Swept
<1>12. \A w \in Range(t \o u) : DeleteOf(P, V, w)
  BY <1>6, <1>7, <1>9, <1>10, <1>11
<1>13. \E v \in Seq(Written) : R.out = P.out \o v /\ \A w \in Range(v) : DeleteOf(P, V, w)
  BY <1>8, <1>9, <1>12
<1> QED
  BY <1>1, <1>2, <1>3, <1>4, <1>5, <1>13 DEF Swept

\* Sweeping no relay.
LEMMA SweptNone ==
    ASSUME NEW P, DOMAIN P = Field, P.out \in Seq(Written)
    PROVE  Swept(P, P, {})
<1>1. P.out = P.out \o <<>>
  BY ConcatEmptySeq, Zenon
<1>2. <<>> \in Seq(Written)
  OBVIOUS
<1>3. Range(<<>>) = {}
  BY DEF Range
<1>4. \E t \in Seq(Written) : P.out = P.out \o t /\ \A w \in Range(t) : DeleteOf(P, {}, w)
  BY <1>1, <1>2, <1>3
<1>5. {P.relay[o].localp : o \in {r \in {} : P.relay[r].serves}} = {}
  OBVIOUS
<1> QED
  BY <1>4, <1>5 DEF Swept, Same

\* The walk of casycom_destroy_unused_objects over all of them.
LEMMA SweptAll ==
    ASSUME NEW p \in Procs, NEW P, NEW D, Good(p, P, D), NEW U, U \subseteq DOMAIN P.relay,
           Connected(P, U), NEW f, Sweeps(p, P, U, f, MaxOid)
    PROVE  Swept(P, f[MaxOid], U)
<1>1. U \subseteq Oids /\ P.out \in Seq(Written) /\ DOMAIN P = Field /\ ConnsOK(p, P)
  BY DEF Good, IsProcess
<1> DEFINE Left(n) == Good(p, f[n], D) /\ Swept(P, f[n], U \cap 1 .. n)
           T == {n \in Nat : n <= MaxOid => Left(n)}
<1>2. 0 \in T
  <2>1. f[0] = P
    BY OidFacts DEF Sweeps, Sweep
  <2>2. U \cap 1 .. 0 = {}
    OBVIOUS
  <2> QED
    BY <1>1, <2>1, <2>2, SweptNone
<1>3. ASSUME NEW n \in Nat, n \in T PROVE n + 1 \in T
  <2> SUFFICES ASSUME n + 1 <= MaxOid PROVE Left(n + 1)
    OBVIOUS
  <2>1. PICK o : o = n + 1
    OBVIOUS
  <2>2. /\ n <= MaxOid /\ o \in 0 .. MaxOid /\ o # 0 /\ o - 1 = n
        /\ 1 .. o = (1 .. n) \cup {o} /\ o \notin 1 .. n
    BY <2>1, OidFacts
  <2>3. PICK g, V : g = f[n] /\ V = U \cap 1 .. n
    OBVIOUS
  <2>4. Good(p, g, D) /\ Swept(P, g, V)
    BY <1>3, <2>2, <2>3
  <2>5. f[o] = IF o \in U THEN COMRelay_destroy(p, g, o) ELSE g
    <3>1. f[o] = Sweep(p, P, U, f, o)
      BY <2>2 DEF Sweeps
    <3> QED
      BY <2>2, <2>3, <3>1 DEF Sweep
  <2>6. CASE o \in U
    <3>1. o \in DOMAIN g.relay /\ g.relay[o] = P.relay[o] /\ o \notin V
      BY <2>2, <2>3, <2>4, <2>6 DEF Swept
    <3>2. Connected(g, {o})
      <4>1. P.relay[o].pExtern => P.relay[o].localp # NoOid /\ \E c \in P.conns : c.oid = o
        BY <2>6 DEF Connected
      <4>2. \A c \in P.conns : c.oid = o => c \in g.conns
        BY <2>4, <3>1 DEF Swept
      <4> QED
        BY <3>1, <4>1, <4>2 DEF Connected
    <3>3. Good(p, f[o], D)
      BY <2>4, <2>5, <2>6, <3>1, DestroyGood
    <3>4. Swept(g, f[o], {o})
      BY <2>4, <2>5, <2>6, <3>2, SweptOne
    <3>5. Swept(P, f[o], V \cup {o})
      BY <1>1, <2>4, <3>1, <3>4, SweptMore
    <3>6. V \cup {o} = U \cap 1 .. o
      BY <2>2, <2>3, <2>6
    <3> QED
      BY <2>1, <3>3, <3>5, <3>6
  <2>7. CASE o \notin U
    <3>1. V = U \cap 1 .. o
      BY <2>2, <2>3, <2>7
    <3> QED
      BY <2>1, <2>4, <2>5, <2>7, <3>1
  <2> QED
    BY <2>6, <2>7
<1> HIDE DEF T
<1>4. \A n \in Nat : n \in T
  BY <1>2, <1>3, InductiveSet
<1>5. Left(MaxOid)
  BY <1>4, OidFacts DEF T
<1>6. U \cap 1 .. MaxOid = U
  <2>1. \A o \in Oids : o \in 1 .. MaxOid
    BY ProtocolAssumption DEF Oids
  <2> QED
    BY <1>1, <2>1
<1> QED
  BY <1>5, <1>6

-----------------------------------------------------------------------------
(* Steps of the client that go through the socket or the application *)

\* Extern_reading is one of the cases of Comes.
LEMMA ReadIs ==
    ASSUME RelaysInv, NEW p \in Procs, Extern_reading(p)
    PROVE  \E m, Q, R :
            /\ m \in Sendable(DOMAIN sent)
            /\ proc'[p] = Q /\ proc'[Other(p)] = R /\ proc[p].ext = "open" /\ Free(proc[p]) # {}
            /\ Given(proc[Other(p)], m, R) /\ Comes(p, proc[p], m, Q)
<1> DEFINE D == DOMAIN sent
           q == Other(p)
<1>1. q \in Procs /\ q # p
  BY DEF Other, Procs
<1>2. PICK P, S : P = proc[p] /\ S = proc[q]
  OBVIOUS
<1>3. Good(p, P, D) /\ Good(q, S, D) /\ Free(P) # {} /\ S.out # <<>> /\ P.ext = "open"
  BY <1>1, <1>2 DEF RelaysInv, Extern_reading
<1>4. PICK m : m = Head(S.out)
  OBVIOUS
<1>5. PICK Q \in IF Invalid(p, P, m) THEN Closed(P) ELSE Incoming(p, P, m) :
        proc' = [proc EXCEPT ![p] = Q, ![q].out = Tail(@)]
  BY <1>2, <1>4 DEF Extern_reading
<1>6. m \in Sendable(D)
  <2>1. S.out \in Seq(Sendable(D))
    BY <1>3 DEF Good
  <2> QED
    BY <1>3, <1>4, <2>1
<1>7. PICK R : R = [S EXCEPT !.out = Tail(@)]
  OBVIOUS
<1>8. Given(S, m, R)
  BY <1>3, <1>4, <1>7 DEF Given, Same, Field, Good
<1>9. proc'[p] = Q /\ proc'[q] = R
  BY <1>1, <1>2, <1>5, <1>7 DEF RelaysInv
<1>10. Comes(p, P, m, Q)
  <2>1. CASE Invalid(p, P, m)
    BY <1>5, <2>1 DEF Comes
  <2>2. CASE ~Invalid(p, P, m)
    <3>1. Q \in Incoming(p, P, m)
      BY <1>5, <2>2
    <3>2. \A o : TakesNew(p, P, m, o, Q) => IsExported(p, m.iid) /\ InRange(p, m.extid)
      BY <2>2 DEF TakesNew, Invalid, Extern_COMConn_by_extid
    <3> QED
      BY <1>3, <1>6, <3>1, <3>2, IncomingIs DEF Comes
  <2> QED
    BY <2>1, <2>2
<1> QED
  BY <1>2, <1>3, <1>6, <1>8, <1>9, <1>10

\* A process that is read from keeps everything else.
LEMMA ClientGiven ==
    ASSUME NEW P, NEW D, Good("client", P, D), NEW Q, NEW s, NEW dr, NEW di, NEW m,
           ClientOK(P, s, dr, di), Given(P, m, Q)
    PROVE  ClientOK(Q, s, dr, di)
<1>1. /\ Q.relay = P.relay /\ Q.objects = P.objects /\ Q.conns = P.conns /\ Q.applinks = P.applinks
      /\ P.extlinks = Q.extlinks /\ P.interfaces = Q.interfaces /\ Q.ext = P.ext
      /\ Q.inq = P.inq /\ Q.outq = P.outq
  BY DEF Given, Same, Field
<1>2. Range(Q.out) \subseteq Range(P.out)
  <2>1. P.out \in Seq(Written) /\ P.out # <<>> /\ Q.out = Tail(P.out)
    BY DEF Given, Good, IsProcess
  <2> QED
    BY <2>1, RangeHead
<1>3. Calm(P, Q) /\ Mail(Q) = Mail(P)
  BY <1>1, <1>2 DEF Calm, HasExt, Mail
<1>4. Q.interfaces \subseteq Found("client")
  BY <1>1 DEF ClientOK, ClientRelays
<1> QED
  BY <1>3, <1>4, ClientCalm

\* The extid of a proxy is of one proxy, and is not that of the Extern.
LEMMA KeyFacts ==
    /\ \A o, q \in Oids : Key(o) = Key(q) => o = q
    /\ \A o \in Oids : Key(o) # extid_COM /\ Key(o) \in Nat
BY ExtidFacts, OidFacts DEF Key, Procs

\* Nothing that the server writes closes the client's connection.
LEMMA ClientReads ==
    ASSUME OneWay, NEW P, NEW D, Good("client", P, D), NEW Q, NEW s, NEW dr, NEW di, NEW m,
           ClientOK(P, s, dr, di), P.ext = "open", ServerOut(m, s, di), m \in Sendable(D),
           Comes("client", P, m, Q)
    PROVE  ClientOK(Q, s, dr, di)
<1>0. /\ P.outq \in Seq(Message(D)) /\ P.inq \in Seq(Message(D)) /\ DOMAIN P = Field /\ ConnsOK("client", P)
      /\ P.interfaces \subseteq Found("client") /\ ClientKept(P, di) /\ P.applinks \subseteq Oids
  BY DEF Good, ClientOK, ClientRelays, IsProcess
<1>1. CASE Q \in Closed(P)
  <2>1. Quiet(P, Q)
    BY <1>0, <1>1, ClosedQuiet
  <2> QED
    BY <2>1, ClientQuiet
<1>2. CASE Q = P
  BY <1>2
<1>3. CASE TakesExport("client", P, m, Q)
  <2>1. PICK a : a = Msg(Ext, App, "connected", "COM", 0)
    OBVIOUS
  <2>2. /\ Same(P, Q, {"interfaces", "outq"}) /\ Q.interfaces = Found("client")
        /\ Q.outq = Append(P.outq, a)
    BY <1>3, <2>1 DEF TakesExport
  <2>3. a \in Message(D) /\ ToSelf(a)
    BY <2>1 DEF Msg, Message, Queued, Kinds, Ext, App, ToSelf
  <2>4. Range(Mail(Q)) = Range(Mail(P)) \cup {a}
    <3>1. Puts(Message(D), P, a, Q)
      BY <1>0, <2>2, <2>3 DEF Puts, Same, Field
    <3> QED
      BY <3>1, MailPosted
  <2>5. Calm(P, Q)
    BY <1>0, <2>2 DEF Calm, Same, Field, HasExt
  <2>6. ClientMail(Q, a, s, di) /\ a.dest \notin P.applinks
    BY <1>0, <2>1, <2>3, OidFacts DEF ClientMail, Msg
  <2> QED
    BY <2>2, <2>4, <2>5, <2>6, ClientCalm
<1>4. ASSUME NEW c, TakesKnown("client", P, m, c, Q) PROVE ClientOK(Q, s, dr, di)
  <2>1. PICK a : a = Msg(Ext, c.oid, m.kind, m.iid, m.n)
    OBVIOUS
  <2>2. /\ Same(P, Q, {"extlinks", "outq"}) /\ Q.extlinks = P.extlinks \cup {c.oid}
        /\ Q.outq = Append(P.outq, a) /\ c \in P.conns /\ c.extid = m.extid /\ m.extid # extid_COM
    BY <1>4, <2>1 DEF TakesKnown
  <2>3. c.oid \in Oids /\ c.extid = Key(c.oid)
    BY <1>0, <2>2 DEF ConnsOK, ClientOK, ClientRelays
  <2>4. /\ m.extid = Key(c.oid)
        /\ \/ m.kind = "reply" /\ m.iid = "R" /\ m.n \in DOMAIN s /\ s[m.n] = Proxy(c.oid)
           \/ m.kind \in {"error", "delete"} /\ m.iid = "COM" /\ Proxy(c.oid) \in di
    BY <2>2, <2>3, KeyFacts DEF ServerOut
  <2>5. a \in Message(D)
    BY <2>1, <2>3, <2>4, OidFacts DEF Msg, Message, Queued, Sendable, Written, Kinds, Ext
  <2>6. Range(Mail(Q)) = Range(Mail(P)) \cup {a}
    <3>1. Puts(Message(D), P, a, Q)
      BY <1>0, <2>2, <2>5 DEF Puts, Same, Field
    <3> QED
      BY <3>1, MailPosted
  <2>7. Calm(P, Q) /\ Q.interfaces = P.interfaces
    BY <1>0, <2>2 DEF Calm, Same, Field, HasExt
  <2>8. ClientMail(Q, a, s, di)
    <3>1. a.src = Ext /\ a.dest = c.oid /\ a.kind = m.kind /\ a.iid = m.iid /\ a.n = m.n
      BY <2>1 DEF Msg
    <3>2. ExtReply(Q, a, s) \/ ExtEnd(Q, a, di)
      BY <2>2, <2>3, <2>4, <3>1 DEF ExtReply, ExtEnd
    <3> QED
      BY <3>2 DEF ClientMail
  <2>9. a.dest \in P.applinks => a.dest \in DOMAIN P.relay \/ Proxy(a.dest) \in di
    <3>1. a.dest = c.oid /\ HasExt(P)
      BY <2>1 DEF Msg, HasExt
    <3> QED
      BY <1>0, <2>2, <3>1 DEF ClientKept, Kept
  <2> QED
    BY <1>0, <2>6, <2>7, <2>8, <2>9, ClientCalm
<1>5. ~IsExported("client", m.iid)
  BY NoneExported
<1> QED
  BY <1>1, <1>2, <1>3, <1>4, <1>5 DEF Comes

\* History that grows.
LEMMA ClientGrows ==
    ASSUME NEW P, NEW s, NEW t, NEW dr, NEW er, NEW di, NEW ei, ClientOK(P, s, dr, di),
           dr \subseteq er, di \subseteq ei, DOMAIN s \subseteq DOMAIN t,
           \A n \in DOMAIN s : t[n] = s[n],
           \A n \in DOMAIN t : n \in DOMAIN s \/
                \E o \in Oids : t[n] = Proxy(o) /\ (P.ext # "exited" => o \in P.applinks \/ Proxy(o) \in er)
    PROVE  ClientOK(P, t, er, ei)
<1>1. ClientRelays(P) /\ ClientKept(P, di) /\ ClientSent(P, s, dr)
  BY DEF ClientOK
<1>2. ClientKept(P, ei)
  BY <1>1 DEF ClientKept
<1>3. ClientSent(P, t, er)
  <2>1. \A n \in DOMAIN s : \E o \in Oids : t[n] = Proxy(o) /\ (P.ext # "exited" => o \in P.applinks \/ Proxy(o) \in er)
    BY <1>1 DEF ClientSent
  <2> QED
    BY <2>1 DEF ClientSent
<1>4. ASSUME NEW m \in Range(Mail(P)) PROVE ClientMail(P, m, t, ei)
  <2>1. ClientMail(P, m, s, di)
    BY DEF ClientOK
  <2>2. /\ AppCall(P, m, s) => AppCall(P, m, t)
        /\ ExtReply(P, m, s) => ExtReply(P, m, t)
        /\ AppReply(m, s) => AppReply(m, t)
        /\ ExtEnd(P, m, di) => ExtEnd(P, m, ei)
    BY DEF AppCall, ExtReply, AppReply, ExtEnd
  <2> QED
    BY <2>1, <2>2 DEF ClientMail
<1>5. ASSUME NEW w \in Range(P.out) PROVE ClientOut(w, t, er)
  <2>1. ClientOut(w, s, dr)
    BY DEF ClientOK
  <2> QED
    BY <2>1 DEF ClientOut
<1> QED
  BY <1>1, <1>2, <1>3, <1>4, <1>5 DEF ClientOK

\* The more objects have ended, the less is asked of the client.
LEMMA ClientKnows ==
    ASSUME NEW P, NEW s, NEW dr, NEW di, NEW ei, ClientOK(P, s, dr, di), di \subseteq ei
    PROVE  ClientOK(P, s, dr, ei)
<1>1. dr \subseteq dr /\ DOMAIN s \subseteq DOMAIN s
  OBVIOUS
<1> QED
  BY <1>1, ClientGrows

\* Relays of dropped or ended proxies go.
LEMMA ClientSwept ==
    ASSUME NEW P, NEW Q, NEW U, NEW s, NEW dr, NEW di, ClientOK(P, s, dr, di), P.out \in Seq(Written),
           Swept(P, Q, U), U \subseteq DOMAIN P.relay, DOMAIN P.relay \subseteq Oids,
           \A o \in U : /\ HasExt(P) /\ o \in P.applinks => Proxy(o) \in di
                        /\ P.relay[o].pExtern => Proxy(o) \in dr
    PROVE  ClientOK(Q, s, dr, di)
<1>1. /\ ClientRelays(P) /\ ClientKept(P, di) /\ ClientSent(P, s, dr)
      /\ \A m \in Range(Mail(P)) : ClientMail(P, m, s, di)
  BY DEF ClientOK
<1>2. /\ Q.ext = P.ext /\ Q.applinks = P.applinks /\ Q.interfaces = P.interfaces /\ Mail(Q) = Mail(P)
      /\ Q.extlinks = P.extlinks /\ (HasExt(Q) <=> HasExt(P))
  BY DEF Swept, Same, Field, Mail, HasExt
<1>3. /\ DOMAIN Q.relay = DOMAIN P.relay \ U /\ \A x \in DOMAIN Q.relay : Q.relay[x] = P.relay[x]
      /\ Q.conns = {c \in P.conns : ~(c.oid \in U /\ P.relay[c.oid].pExtern)}
      /\ DOMAIN Q.objects \subseteq DOMAIN P.objects
  BY DEF Swept
<1>4. ClientRelays(Q)
  <2>1. \A x \in DOMAIN Q.relay :
            /\ ~Q.relay[x].serves
            /\ Q.relay[x].pExtern => /\ Q.relay[x].localp = App /\ ~Q.relay[x].unused
                                     /\ \E d \in Q.conns : d.oid = x
    BY <1>1, <1>3 DEF ClientRelays
  <2> QED
    BY <1>1, <1>2, <1>3, <2>1 DEF ClientRelays
<1>5. ClientKept(Q, di)
  <2> SUFFICES ASSUME HasExt(P), NEW o \in P.applinks, Proxy(o) \notin di PROVE Kept(Q, o)
    BY <1>2 DEF ClientKept
  <2>1. Kept(P, o) /\ o \notin U
    BY <1>1 DEF ClientKept
  <2> QED
    BY <1>2, <1>3, <2>1 DEF Kept
<1>6. ClientSent(Q, s, dr)
  BY <1>1, <1>2 DEF ClientSent
<1>7. \A m \in Range(Mail(Q)) : ClientMail(Q, m, s, di)
  BY <1>1, <1>2 DEF ClientMail, AppCall, ExtReply, ExtEnd
<1>8. ASSUME NEW w \in Range(Q.out) PROVE ClientOut(w, s, dr)
  <2>1. PICK t \in Seq(Written) : Q.out = P.out \o t /\ \A v \in Range(t) : DeleteOf(P, U, v)
    BY DEF Swept
  <2>2. w \in Range(P.out) \/ w \in Range(t)
    BY <2>1, ConcatFacts
  <2>3. CASE w \in Range(t)
    <3>1. PICK c \in P.conns : c.oid \in U \cap DOMAIN P.relay /\ P.relay[c.oid].pExtern /\ w.extid = c.extid
      BY <2>1, <2>3 DEF DeleteOf
    <3>2. c.oid \in Oids /\ c.extid = Key(c.oid) /\ Proxy(c.oid) \in dr
      <4>1. c.extid = Key(c.oid) /\ Proxy(c.oid) \in dr
        BY <1>1, <3>1 DEF ClientRelays
      <4> QED
        BY <3>1, <4>1
    <3> QED
      BY <2>1, <2>3, <3>1, <3>2 DEF ClientOut, DeleteOf
  <2> QED
    BY <2>2, <2>3 DEF ClientOK
<1> QED
  BY <1>4, <1>5, <1>6, <1>7, <1>8 DEF ClientOK

\* casycom_destroy_proxy at the client.
LEMMA ClientDrops ==
    ASSUME RelaysInv, NEW P, P = proc["client"], ClientOK(P, sent, dropped, died), AppDrops("client")
    PROVE  ClientOK(proc'["client"], sent, dropped', died)
<1>1. PICK o, R, Q :
        /\ o \in P.applinks
        /\ R = [P EXCEPT !.applinks = @ \ {o}]
        /\ Q = IF o \in DOMAIN R.relay THEN COMRelay_destroy("client", R, o) ELSE R
        /\ proc' = [proc EXCEPT !["client"] = Q]
        /\ dropped' = dropped \cup {Proxy(o)}
  BY DEF AppDrops, Proxy
<1>2. proc'["client"] = Q
  BY <1>1 DEF RelaysInv, Procs
<1>3. Good("client", P, DOMAIN sent)
  BY DEF RelaysInv, Procs
<1>4. Same(P, R, {"applinks"}) /\ R.applinks = P.applinks \ {o}
  BY <1>1, <1>3 DEF Same, Field, Good
<1>5. Good("client", R, DOMAIN sent)
  BY <1>3, <1>4 DEF Same, Field, Good, IsProcess, ConnsOK, RelaysOK
<1>6. ClientOK(R, sent, dropped', died)
  <2>1. ClientOK(P, sent, dropped', died)
    <3>1. \A n \in DOMAIN sent : n \in DOMAIN sent
      OBVIOUS
    <3> QED
      BY <1>1, <3>1, ClientGrows
  <2>2. /\ R.relay = P.relay /\ R.objects = P.objects /\ R.conns = P.conns /\ R.ext = P.ext
        /\ R.extlinks = P.extlinks /\ R.interfaces = P.interfaces /\ Mail(R) = Mail(P) /\ R.out = P.out
        /\ (HasExt(R) <=> HasExt(P))
    BY <1>4 DEF Same, Field, Mail, HasExt
  <2>3. ClientRelays(R) /\ \A w \in Range(R.out) : ClientOut(w, sent, dropped')
    BY <2>1, <2>2 DEF ClientOK, ClientRelays
  <2>4. ClientKept(R, died)
    BY <1>4, <2>1, <2>2 DEF ClientOK, ClientKept, Kept
  <2>5. \A m \in Range(Mail(R)) : ClientMail(R, m, sent, died)
    BY <2>1, <2>2 DEF ClientOK, ClientMail, AppCall, ExtReply, ExtEnd
  <2>6. ClientSent(R, sent, dropped')
    <3>1. Proxy(o) \in dropped' /\ ClientSent(P, sent, dropped')
      BY <1>1, <2>1 DEF ClientOK
    <3> QED
      BY <1>4, <2>2, <3>1 DEF ClientSent
  <2> QED
    BY <2>3, <2>4, <2>5, <2>6 DEF ClientOK
<1>7. CASE o \notin DOMAIN R.relay
  BY <1>1, <1>2, <1>6, <1>7
<1>8. CASE o \in DOMAIN R.relay
  <2>1. Q = COMRelay_destroy("client", R, o)
    BY <1>1, <1>8
  <2>2. Connected(R, {o})
    BY <1>6, <1>8 DEF Connected, ClientOK, ClientRelays, App, NoOid
  <2>3. Swept(R, Q, {o})
    BY <1>5, <2>1, <2>2, SweptOne
  <2>4. R.out \in Seq(Written) /\ DOMAIN R.relay \subseteq Oids
    BY <1>5 DEF Good, IsProcess
  <2>5. ClientOK(Q, sent, dropped', died)
    BY <1>1, <1>4, <1>6, <1>8, <2>3, <2>4, ClientSwept
  <2> QED
    BY <1>2, <2>5
<1> QED
  BY <1>7, <1>8

\* A call of the application at the client.
LEMMA ClientCalls ==
    ASSUME RelaysInv, NEW P, P = proc["client"], ClientOK(P, sent, dropped, died), AppCalls("client")
    PROVE  ClientOK(proc'["client"], sent', dropped, died)
<1>1. PICK i \in P.interfaces, o \in P.applinks \cup {Min(Free(P))} :
        /\ proc' = [proc EXCEPT !["client"] =
              Post([P EXCEPT !.applinks = @ \cup {o}], Msg(App, o, "call", i, Len(sent) + 1))]
        /\ sent' = Append(sent, Proxy(o))
  BY DEF AppCalls, Proxy
<1>2. PICK R, a, Q, n : /\ R = [P EXCEPT !.applinks = @ \cup {o}] /\ Q = Post(R, a)
                        /\ a = Msg(App, o, "call", i, n) /\ n = Len(sent) + 1
  OBVIOUS
<1>3. proc'["client"] = Q
  BY <1>1, <1>2 DEF RelaysInv, Procs
<1>4. Good("client", P, DOMAIN sent) /\ Free(P) # {} /\ P.ext # "exited"
  BY DEF RelaysInv, Procs, AppCalls
<1>5. o \in Oids /\ i \in Iface /\ (o \in P.applinks \/ o \notin P.extlinks)
  BY <1>4, FreeIs DEF Good, IsProcess
<1>6. /\ n \in Nat /\ n \notin DOMAIN sent /\ DOMAIN sent' = DOMAIN sent \cup {n} /\ sent'[n] = Proxy(o)
      /\ \A k \in DOMAIN sent : sent'[k] = sent[k]
  <2>1. sent \in Seq(Procs \X Oids) /\ Proxy(o) \in Procs \X Oids
    BY <1>5 DEF RelaysInv, HistoryOK, Proxy, Procs
  <2> QED
    BY <1>1, <1>2, <2>1
<1>7. Same(P, R, {"applinks"}) /\ R.applinks = P.applinks \cup {o}
  BY <1>2, <1>4 DEF Same, Field, Good
<1>8. Same(R, Q, {"outq"}) /\ Q.outq = Append(P.outq, a)
  <2>1. DOMAIN R = Field
    BY <1>7 DEF Same
  <2>2. Same(R, Q, {"outq"}) /\ Q.outq = Append(R.outq, a)
    <3>1. Q = Post(R, a)
      BY <1>2
    <3> QED
      BY <2>1, <3>1, PostIs, Zenon
  <2>3. R.outq = P.outq
    BY <1>7 DEF Same, Field
  <2> QED
    BY <2>2, <2>3
<1>9. /\ Q.relay = P.relay /\ Q.objects = P.objects /\ Q.conns = P.conns /\ Q.ext = P.ext
      /\ Q.extlinks = P.extlinks /\ Q.interfaces = P.interfaces /\ Q.out = P.out /\ Q.inq = P.inq
      /\ Q.applinks = P.applinks \cup {o} /\ (HasExt(Q) <=> HasExt(P))
  BY <1>7, <1>8 DEF Same, Field, HasExt
<1>10. Range(Mail(Q)) = Range(Mail(P)) \cup {a}
  <2>1. a \in Message(DOMAIN sent')
    BY <1>2, <1>5, <1>6, OidFacts DEF Msg, Message, Queued, Kinds, App
  <2>2. P.inq \in Seq(Message(DOMAIN sent')) /\ P.outq \in Seq(Message(DOMAIN sent'))
    <3>1. Good("client", P, DOMAIN sent')
      BY <1>4, <1>6, GoodMono
    <3> QED
      BY <3>1 DEF Good
  <2>3. Puts(Message(DOMAIN sent'), P, a, Q)
    BY <1>8, <1>9, <2>1, <2>2 DEF Puts
  <2> QED
    BY <2>3, MailPosted
<1>11. ClientRelays(P) /\ ClientKept(P, died) /\ ClientSent(P, sent, dropped)
  BY DEF ClientOK
<1>12. ClientRelays(Q)
  BY <1>9, <1>11 DEF ClientRelays
<1>13. ClientKept(Q, died)
  <2> SUFFICES ASSUME HasExt(P), NEW x \in Q.applinks, Proxy(x) \notin died PROVE Kept(Q, x)
    BY <1>9 DEF ClientKept
  <2>0. a.src # Ext
    BY <1>2 DEF Msg, App, Ext
  <2>1. CASE x \in P.applinks
    <3>1. Kept(P, x)
      BY <1>11, <2>1 DEF ClientKept
    <3> QED
      BY <1>9, <1>10, <2>0, <3>1 DEF Kept
  <2>2. CASE x \notin P.applinks
    <3>1. x = o /\ o \notin P.extlinks
      BY <1>5, <1>9, <2>2
    <3>2. o \notin DOMAIN P.relay /\ \A d \in P.conns : d.oid # o
      BY <1>4, <1>11, <3>1 DEF ClientRelays, Good, ConnsOK
    <3>3. \A m \in Range(Mail(P)) : m.src = Ext => m.dest # o
      <4> SUFFICES ASSUME NEW m \in Range(Mail(P)), m.src = Ext PROVE m.dest # o
        OBVIOUS
      <4>1. ClientMail(P, m, sent, died)
        BY DEF ClientOK
      <4>2. m.dest = App \/ m.dest \in P.extlinks
        BY <4>1, OidFacts DEF ClientMail, AppCall, ExtReply, AppReply, ExtEnd, ToSelf, App, Ext
      <4> QED
        BY <1>5, <3>1, <4>2, OidFacts
    <3> QED
      BY <1>9, <1>10, <2>0, <3>1, <3>2, <3>3 DEF Kept
  <2> QED
    BY <2>1, <2>2
<1>14. ClientSent(Q, sent', dropped)
  <2>1. ASSUME NEW k \in DOMAIN sent PROVE
          \E x \in Oids : sent'[k] = Proxy(x) /\ (Q.ext # "exited" => x \in Q.applinks \/ Proxy(x) \in dropped)
    BY <1>6, <1>9, <1>11 DEF ClientSent
  <2> QED
    BY <1>5, <1>6, <1>9, <2>1 DEF ClientSent
<1>15. ASSUME NEW m \in Range(Mail(Q)) PROVE ClientMail(Q, m, sent', died)
  <2>1. CASE m \in Range(Mail(P))
    <3>1. ClientMail(P, m, sent, died)
      BY <2>1 DEF ClientOK
    <3>2. /\ AppCall(P, m, sent) => AppCall(Q, m, sent')
          /\ ExtReply(P, m, sent) => ExtReply(Q, m, sent')
          /\ AppReply(m, sent) => AppReply(m, sent')
          /\ ExtEnd(P, m, died) => ExtEnd(Q, m, died)
      BY <1>6, <1>9 DEF AppCall, ExtReply, AppReply, ExtEnd
    <3> QED
      BY <3>1, <3>2 DEF ClientMail
  <2>2. CASE m = a
    <3>1. m.kind = "call" /\ m.src = App /\ m.dest = o /\ m.iid = i /\ m.n = n
      BY <1>2, <2>2 DEF Msg
    <3>2. AppCall(Q, m, sent')
      BY <1>5, <1>6, <1>9, <3>1 DEF AppCall
    <3> QED
      BY <3>2 DEF ClientMail
  <2> QED
    BY <1>10, <2>1, <2>2
<1>16. ASSUME NEW w \in Range(Q.out) PROVE ClientOut(w, sent', dropped)
  <2>1. ClientOut(w, sent, dropped)
    BY <1>9 DEF ClientOK
  <2> QED
    BY <1>6, <2>1 DEF ClientOut
<1>17. ClientOK(Q, sent', dropped, died)
  BY <1>12, <1>13, <1>14, <1>15, <1>16 DEF ClientOK
<1> QED
  BY <1>3, <1>17

\* Extern_destroy at the client.
LEMMA ClientGone ==
    ASSUME NEW P, NEW Q, NEW s, NEW dr, NEW di, ClientOK(P, s, dr, di), DOMAIN P = Field,
           P.ext # "exited", Q = Extern_destroy(P)
    PROVE  ClientOK(Q, s, dr, di)
<1> DEFINE orphans == {o \in DOMAIN P.relay : o \notin P.applinks}
           served == {P.relay[o].localp : o \in {r \in orphans : P.relay[r].serves}}
<1>1. /\ Q.ext = "gone" /\ Q.interfaces = {} /\ Q.conns = {} /\ Q.extlinks = {}
      /\ Q.relay = [o \in DOMAIN P.relay \ orphans |-> COMRelay_object_destroyed(P.relay[o])]
      /\ Q.objects = [x \in DOMAIN P.objects \ served |-> P.objects[x]]
      /\ Q.applinks = P.applinks /\ Q.inq = P.inq /\ Q.outq = P.outq /\ Q.out = P.out
  BY DEF Extern_destroy, Restrict, Field
<1> HIDE DEF orphans, served
<1>2. DOMAIN Q.relay \subseteq DOMAIN P.relay /\ DOMAIN Q.objects \subseteq DOMAIN P.objects
  BY <1>1
<1>3. ~HasExt(Q) /\ Mail(Q) = Mail(P)
  BY <1>1 DEF HasExt, Mail
<1>4. ASSUME NEW o \in DOMAIN Q.relay PROVE ~Q.relay[o].pExtern /\ ~Q.relay[o].serves
  <2>1. PICK r : r = P.relay[o]
    OBVIOUS
  <2>2. ~r.serves
    BY <1>2, <2>1 DEF ClientOK, ClientRelays
  <2>3. Q.relay[o] = COMRelay_object_destroyed(r)
    BY <1>1, <2>1
  <2>4. Q.relay[o] = IF r.pExtern THEN [r EXCEPT !.unused = TRUE, !.pExtern = FALSE] ELSE r
    BY <2>3 DEF COMRelay_object_destroyed
  <2> QED
    BY <2>2, <2>4
<1>5. ClientRelays(Q)
  BY <1>1, <1>2, <1>3, <1>4 DEF ClientOK, ClientRelays
<1>6. ClientKept(Q, di)
  BY <1>3 DEF ClientKept
<1>7. ClientSent(Q, s, dr)
  BY <1>1 DEF ClientOK, ClientSent
<1>8. \A m \in Range(Mail(Q)) : ClientMail(Q, m, s, di)
  BY <1>3 DEF ClientOK, ClientMail, AppCall, ExtReply, ExtEnd
<1> QED
  BY <1>1, <1>5, <1>6, <1>7, <1>8 DEF ClientOK

\* EndRound is made of the swap of the queues, the Extern's end and the sweep.
LEMMA RoundIs ==
    ASSUME RelaysInv, NEW p \in Procs, EndRound(p)
    PROVE  \E R, G, U, Q : Rounds(p, proc[p], R, G, U, Q) /\ proc' = [proc EXCEPT ![p] = Q]
<1>1. PICK P : P = proc[p]
  OBVIOUS
<1>2. PICK R : R = [P EXCEPT !.inq = P.outq, !.outq = <<>>]
  OBVIOUS
<1>3. Good(p, P, DOMAIN sent) /\ P.ext # "exited" /\ P.inq = <<>>
  BY <1>1 DEF RelaysInv, EndRound
<1>4. Same(P, R, {"inq", "outq"}) /\ R.inq = P.outq /\ R.outq = <<>>
  BY <1>2, <1>3 DEF Same, Field, Good
<1>5. Mail(R) = Mail(P)
  <2>1. P.outq \in Seq(Queued)
    BY <1>3 DEF Good, IsProcess
  <2> QED
    BY <1>3, <1>4, <2>1, MailSwapped
<1>6. Good(p, R, DOMAIN sent)
  <2>1. R.outq \in Seq(Queued) /\ R.outq \in Seq(Message(DOMAIN sent))
    BY <1>4
  <2> QED
    BY <1>3, <1>4, <2>1 DEF Same, Field, Good, IsProcess, ConnsOK, RelaysOK
<1>7. PICK G : G = IF R.ext = "closed" THEN Extern_destroy(R) ELSE R
  OBVIOUS
<1>8. Good(p, G, DOMAIN sent)
  BY <1>6, <1>7, ExternDestroyGood
<1>9. PICK U, Q : U = UnusedRelays(G) /\ Q = DestroyUnused(p, R)
  OBVIOUS
<1>10. \E f : Sweeps(p, G, U, f, MaxOid) /\ Q = f[MaxOid]
  BY <1>7, <1>9, DestroyUnusedSweeps
<1>11. proc' = [proc EXCEPT ![p] = Q]
  BY <1>1, <1>2, <1>9 DEF EndRound
<1>12. Rounds(p, P, R, G, U, Q)
  BY <1>3, <1>4, <1>5, <1>6, <1>7, <1>8, <1>9, <1>10 DEF Rounds
<1> QED
  BY <1>1, <1>11, <1>12

\* The end of a round at the client.
LEMMA ClientRound ==
    ASSUME RelaysInv, NEW P, P = proc["client"], ClientOK(P, sent, dropped, died), EndRound("client")
    PROVE  ClientOK(proc'["client"], sent, dropped, died)
<1>1. PICK R, G, U, Q : Rounds("client", P, R, G, U, Q) /\ proc' = [proc EXCEPT !["client"] = Q]
  BY RoundIs DEF Procs
<1>2. proc'["client"] = Q
  BY <1>1 DEF RelaysInv, Procs
<1>3. /\ R.relay = P.relay /\ R.objects = P.objects /\ R.conns = P.conns /\ R.ext = P.ext
      /\ R.extlinks = P.extlinks /\ R.interfaces = P.interfaces /\ Mail(R) = Mail(P) /\ R.out = P.out
      /\ R.applinks = P.applinks /\ DOMAIN R = Field /\ R.ext # "exited"
  BY <1>1 DEF Rounds, Same, Field
<1>4. ClientOK(R, sent, dropped, died)
  <2>1. Calm(P, R)
    BY <1>3 DEF Calm, HasExt
  <2>2. R.interfaces \subseteq Found("client")
    BY <1>3 DEF ClientOK, ClientRelays
  <2> QED
    BY <1>3, <2>1, <2>2, ClientCalm
<1>5. ClientOK(G, sent, dropped, died)
  BY <1>1, <1>3, <1>4, ClientGone DEF Rounds
<1>6. Good("client", G, DOMAIN sent) /\ U = UnusedRelays(G)
  BY <1>1 DEF Rounds
<1>7. U \subseteq DOMAIN G.relay /\ \A o \in U : G.relay[o].unused
  BY <1>5, <1>6 DEF UnusedRelays, ClientOK, ClientRelays
<1>8. \A o \in U : ~G.relay[o].pExtern
  BY <1>5, <1>7 DEF ClientOK, ClientRelays
<1>9. Connected(G, U)
  BY <1>7, <1>8 DEF Connected
<1>10. Swept(G, Q, U)
  BY <1>1, <1>6, <1>7, <1>9, SweptAll DEF Rounds, Procs
<1>11. G.out \in Seq(Written) /\ DOMAIN G.relay \subseteq Oids
  BY <1>6 DEF Good, IsProcess
<1>12. \A o \in U : HasExt(G) /\ o \in G.applinks => Proxy(o) \in died
  BY <1>5, <1>7, <1>8 DEF ClientOK, ClientKept, Kept
<1>13. ClientOK(Q, sent, dropped, died)
  BY <1>5, <1>7, <1>8, <1>10, <1>11, <1>12, ClientSwept
<1> QED
  BY <1>2, <1>13

\* The end of the client.
LEMMA ClientExits ==
    ASSUME RelaysInv, NEW P, P = proc["client"], ClientOK(P, sent, dropped, died), Exit("client")
    PROVE  ClientOK(proc'["client"], sent, dropped, died)
<1>1. PICK N, Q :
        /\ N \in Closed(P)
        /\ Q = [N EXCEPT
            !.ext = "exited", !.interfaces = {}, !.conns = {}, !.applinks = {},
            !.extlinks = {}, !.relay = <<>>, !.objects = <<>>, !.inq = <<>>, !.outq = <<>>]
        /\ proc' = [proc EXCEPT !["client"] = Q]
  BY DEF Exit
<1>2. proc'["client"] = Q
  BY <1>1 DEF RelaysInv, Procs
<1>3. DOMAIN P = Field /\ P.out \in Seq(Written)
  BY DEF RelaysInv, Good, Procs, IsProcess
<1>4. DOMAIN N = Field /\ \E k \in 0 .. Len(P.out) : N.out = SubSeq(P.out, 1, k)
  BY <1>1, <1>3, ClosedIs DEF Same
<1>5. /\ Q.ext = "exited" /\ Q.interfaces = {} /\ Q.conns = {} /\ Q.relay = <<>> /\ Q.objects = <<>>
      /\ Q.inq = <<>> /\ Q.outq = <<>> /\ Q.out = N.out
  BY <1>1, <1>4 DEF Field
<1>6. Range(Q.out) \subseteq Range(P.out)
  BY <1>3, <1>4, <1>5, RangePrefix
<1>7. ~HasExt(Q)
  BY <1>5 DEF HasExt
<1>8. Mail(Q) = <<>> /\ Range(<<>>) = {}
  BY <1>5 DEF Mail, Range
<1>9. DOMAIN Q.relay = {} /\ DOMAIN Q.objects = {}
  BY <1>5
<1>10. ClientRelays(Q) /\ ClientKept(Q, died)
  BY <1>5, <1>7, <1>9 DEF ClientRelays, ClientKept
<1>11. ClientSent(Q, sent, dropped)
  BY <1>5 DEF ClientOK, ClientSent
<1>12. ClientOK(Q, sent, dropped, died)
  BY <1>6, <1>8, <1>10, <1>11 DEF ClientOK
<1> QED
  BY <1>2, <1>12

-----------------------------------------------------------------------------
(* What the server can do to the client *)

\* Every step of the client keeps what its calls and replies go through.
LEMMA ClientActs ==
    ASSUME OneWay, RelaysInv, NEW P, P = proc["client"], ClientOK(P, sent, dropped, died),
           Loop("client") \/ Socket("client") \/ Program("client"),
           \A w \in Range(proc["server"].out) : ServerOut(w, sent, died),
           COMRelay_COM_error("client") => NoStray(proc'["client"])
    PROVE  ClientOK(proc'["client"], sent', dropped', died') /\ died' = died
<1>0. Good("client", P, DOMAIN sent) /\ DOMAIN proc = Procs
  BY DEF RelaysInv, Procs
<1>1. CASE COMRelay_COM_message("client")
  <2>1. sent' = sent /\ dropped' = dropped /\ died' = died
    BY <1>1 DEF COMRelay_COM_message
  <2> QED
    BY <1>1, <2>1, ClientMessage
<1>2. CASE COMRelay_COM_error("client")
  <2>1. sent' = sent /\ dropped' = dropped /\ died' = died
    BY <1>2 DEF COMRelay_COM_error
  <2> QED
    BY <1>2, <2>1, ClientError
<1>3. CASE COMRelay_COM_delete("client")
  <2>1. sent' = sent /\ dropped' = dropped /\ died' = died
    BY <1>3 DEF COMRelay_COM_delete, history
  <2> QED
    BY <1>3, <2>1, ClientDelete
<1>4. ~PCOM_create_object("client")
  <2> SUFFICES ASSUME PCOM_create_object("client") PROVE FALSE
    OBVIOUS
  <2>1. PICK m : m = Head(P.inq)
    OBVIOUS
  <2>2. Delivers("client") /\ m.kind = "create"
    BY <2>1 DEF PCOM_create_object
  <2>3. m \in Range(Mail(P))
    BY <2>1, <2>2, TakenMail DEF Procs
  <2>4. ClientMail(P, m, sent, died)
    BY <2>3 DEF ClientOK
  <2> QED
    BY <2>2, <2>4 DEF ClientMail, AppCall, ExtReply, AppReply, ExtEnd, ToSelf
<1>5. CASE DropMessage("client") \/ AppConnected("client") \/ AppAnswered("client") \/ AppCloses("client")
           \/ Extern_Extern_close("client") \/ ReadClosed("client")
  <2>1. sent' = sent /\ dropped' = dropped /\ died' = died
    BY <1>5 DEF DropMessage, AppConnected, AppAnswered, AppCloses, Extern_Extern_close, ReadClosed, history
  <2>2. PICK Q : proc' = [proc EXCEPT !["client"] = Q] /\ Quiet(proc["client"], Q)
    BY <1>5, QuietIs DEF Procs
  <2>3. proc'["client"] = Q
    BY <1>0, <2>2 DEF Procs
  <2> QED
    BY <1>0, <2>1, <2>2, <2>3, ClientQuiet
<1>6. ~ObjectCalled("client") /\ ~ObjectDies("client") /\ ~ObjectFails("client")
  <2>1. DOMAIN P.objects = {} /\ \A o \in DOMAIN P.relay : ~P.relay[o].serves
    BY DEF ClientOK, ClientRelays
  <2>2. \A s : Servers(P, s) = {}
    BY <2>1 DEF Servers
  <2> QED
    BY <2>1, <2>2 DEF ObjectCalled, ObjectDies, ObjectFails
<1>7. CASE EndRound("client")
  <2>1. sent' = sent /\ dropped' = dropped /\ died' = died
    BY <1>7 DEF EndRound, history
  <2> QED
    BY <1>7, <2>1, ClientRound
<1>8. CASE Extern_reading("client")
  <2>1. sent' = sent /\ dropped' = dropped /\ died' = died
    BY <1>8 DEF Extern_reading
  <2>2. PICK m, Q, R :
            /\ m \in Sendable(DOMAIN sent)
            /\ proc'["client"] = Q /\ P.ext = "open"
            /\ Given(proc["server"], m, R) /\ Comes("client", P, m, Q)
    BY <1>8, ReadIs DEF Procs, Other
  <2>3. ServerOut(m, sent, died)
    <3>1. proc["server"].out \in Seq(Written) /\ proc["server"].out # <<>> /\ m = Head(proc["server"].out)
      BY <2>2 DEF Given, RelaysInv, Good, IsProcess, Procs
    <3> QED
      BY <3>1, RangeHead
  <2> QED
    BY <1>0, <2>1, <2>2, <2>3, ClientReads
<1>9. CASE AppCalls("client")
  <2>1. dropped' = dropped /\ died' = died
    BY <1>9 DEF AppCalls
  <2> QED
    BY <1>9, <2>1, ClientCalls
<1>10. CASE AppDrops("client")
  <2>1. sent' = sent /\ died' = died
    BY <1>10 DEF AppDrops
  <2> QED
    BY <1>10, <2>1, ClientDrops
<1>11. CASE Exit("client")
  <2>1. sent' = sent /\ dropped' = dropped /\ died' = died
    BY <1>11 DEF Exit, history
  <2> QED
    BY <1>11, <2>1, ClientExits
<1> QED
  BY <1>1, <1>2, <1>3, <1>4, <1>5, <1>6, <1>7, <1>8, <1>9, <1>10, <1>11 DEF Loop, Socket, Program

\* Steps of the server leave the client alone, but for what they read.
LEMMA ServerLeaves ==
    ASSUME RelaysInv, NEW P, P = proc["client"], ClientOK(P, sent, dropped, died), ServerIdle(proc["server"]),
           Loop("server") \/ Socket("server") \/ Program("server")
    PROVE  /\ ClientOK(proc'["client"], sent', dropped', died') /\ sent' = sent /\ dropped' = dropped
           /\ died \subseteq died'
           /\ ~AppCalls("server") /\ ~AppDrops("server")
           /\ ~Extern_reading("server") => proc'["client"] = P
<1>0. Good("client", P, DOMAIN sent) /\ DOMAIN proc = Procs
  BY DEF RelaysInv, Procs
<1>1. ~AppCalls("server") /\ ~AppDrops("server")
  BY DEF ServerIdle, AppCalls, AppDrops
<1>2. sent' = sent /\ dropped' = dropped /\ died \subseteq died'
  <2>1. CASE Loop("server")
    BY <2>1 DEF Loop, COMRelay_COM_message, COMRelay_COM_error, COMRelay_COM_delete, PCOM_create_object,
                DropMessage, ObjectCalled, AppConnected, AppAnswered, Extern_Extern_close, EndRound, history
  <2>2. CASE Socket("server")
    BY <2>2 DEF Socket, Extern_reading, ReadClosed, history
  <2>3. CASE Program("server")
    BY <1>1, <2>3 DEF Program, AppCloses, ObjectDies, ObjectFails, Exit, history
  <2> QED
    BY <2>1, <2>2, <2>3
<1>3. CASE Extern_reading("server")
  <2>1. PICK m, Q, R : proc'["client"] = R /\ Given(P, m, R)
    BY <1>3, ReadIs DEF Procs, Other
  <2>2. ClientOK(R, sent, dropped, died)
    BY <1>0, <2>1, ClientGiven
  <2>3. ClientOK(R, sent', dropped', died')
    BY <1>2, <2>2, ClientKnows
  <2> QED
    BY <1>1, <1>2, <1>3, <2>1, <2>3
<1>4. CASE ~Extern_reading("server")
  <2>1. proc'["client"] = P
    <3>1. \E Q : proc' = [proc EXCEPT !["server"] = Q]
      <4>1. CASE Loop("server")
        BY <4>1 DEF Loop, COMRelay_COM_message, COMRelay_COM_error, COMRelay_COM_delete, PCOM_create_object,
                DropMessage, ObjectCalled, AppConnected, AppAnswered, Extern_Extern_close, EndRound
      <4>2. CASE ReadClosed("server")
        BY <4>2 DEF ReadClosed
      <4>3. CASE Program("server")
        BY <1>1, <4>3 DEF Program, AppCloses, ObjectDies, ObjectFails, Exit
      <4> QED
        BY <1>4, <4>1, <4>2, <4>3 DEF Socket
    <3> QED
      BY <1>0, <3>1 DEF Procs
  <2>2. ClientOK(P, sent', dropped', died')
    BY <1>2, ClientKnows
  <2> QED
    BY <1>1, <1>2, <1>4, <2>1, <2>2
<1> QED
  BY <1>3, <1>4

-----------------------------------------------------------------------------

\* A create is followed by its first message when another message is taken,
LEMMA PairedTail ==
    ASSUME NEW T, NEW M \in Seq(T), M # <<>>, Paired(M)
    PROVE  /\ Paired(Tail(M))
           /\ Head(M).kind = "create" =>
                /\ Tail(M) # <<>> /\ First(Head(Tail(M)), Head(M).dest)
                /\ \A m \in Range(Tail(M)) : Apart(Head(M), m)
<1>1. /\ Len(M) \in Nat /\ Len(M) >= 1 /\ DOMAIN M = 1 .. Len(M)
      /\ Tail(M) \in Seq(T) /\ DOMAIN Tail(M) = 1 .. Len(M) - 1
      /\ \A i \in 1 .. Len(M) - 1 : Tail(M)[i] = M[i + 1]
      /\ Head(M) = M[1]
  OBVIOUS
<1>2. Paired(Tail(M))
  <2> SUFFICES ASSUME NEW i \in 1 .. Len(M) - 1, M[i + 1].kind = "create"
               PROVE  /\ i + 1 \in 1 .. Len(M) - 1 /\ First(M[i + 2], M[i + 1].dest)
                      /\ \A j \in 1 .. Len(M) - 1 : i < j => Apart(M[i + 1], M[j + 1])
    <3>1. \A i \in 1 .. Len(M) - 1 : i + 1 + 1 = i + 2
      BY <1>1
    <3> QED
      BY <1>1, <3>1 DEF Paired
  <2>1. i + 1 \in DOMAIN M /\ (i + 1) + 1 = i + 2
    BY <1>1
  <2>2. i + 2 \in DOMAIN M /\ First(M[i + 2], M[i + 1].dest)
        /\ \A j \in DOMAIN M : i + 1 < j => Apart(M[i + 1], M[j])
    BY <2>1 DEF Paired
  <2> QED
    BY <1>1, <2>2
<1>3. ASSUME Head(M).kind = "create"
      PROVE  /\ Tail(M) # <<>> /\ First(Head(Tail(M)), Head(M).dest)
             /\ \A m \in Range(Tail(M)) : Apart(Head(M), m)
  <2>1. /\ 2 \in DOMAIN M /\ First(M[2], M[1].dest)
        /\ \A j \in DOMAIN M : 1 < j => Apart(M[1], M[j])
    BY <1>1, <1>3 DEF Paired
  <2>2. Tail(M) # <<>> /\ Head(Tail(M)) = M[2]
    BY <1>1, <2>1
  <2>3. \A m \in Range(Tail(M)) : \E j \in DOMAIN M : 1 < j /\ m = M[j]
    BY <1>1 DEF Range
  <2> QED
    BY <1>1, <2>1, <2>2, <2>3
<1> QED
  BY <1>2, <1>3

\* when one is posted,
LEMMA PairedAppend ==
    ASSUME NEW T, NEW M \in Seq(T), NEW m, Paired(M), m.kind # "create",
           \A a \in Range(M) : a.kind = "create" => Apart(a, m)
    PROVE  Paired(Append(M, m))
<1>1. /\ Len(M) \in Nat /\ DOMAIN M = 1 .. Len(M) /\ DOMAIN Append(M, m) = 1 .. Len(M) + 1
      /\ \A i \in 1 .. Len(M) : Append(M, m)[i] = M[i]
      /\ Append(M, m)[Len(M) + 1] = m
  OBVIOUS
<1>2. PICK N : N = Append(M, m)
  OBVIOUS
<1>3. ASSUME NEW i \in DOMAIN N, N[i].kind = "create"
      PROVE  /\ i + 1 \in DOMAIN N /\ First(N[i + 1], N[i].dest)
             /\ \A j \in DOMAIN N : i < j => Apart(N[i], N[j])
  <2>1. i \in DOMAIN M /\ N[i] = M[i]
    BY <1>1, <1>2, <1>3
  <2>2. /\ i + 1 \in DOMAIN M /\ First(M[i + 1], M[i].dest)
        /\ \A j \in DOMAIN M : i < j => Apart(M[i], M[j])
    BY <1>3, <2>1 DEF Paired
  <2>3. M[i] \in Range(M)
    BY <2>1 DEF Range
  <2> QED
    BY <1>1, <1>2, <1>3, <2>1, <2>2, <2>3
<1> QED
  BY <1>2, <1>3 DEF Paired

\* and when it is posted with that message.
LEMMA PairedNew ==
    ASSUME NEW T, NEW M \in Seq(T), NEW c, NEW m, Paired(M), c.kind = "create", First(m, c.dest),
           \A a \in Range(M) : a.kind = "create" => a.dest # c.dest
    PROVE  Paired(Append(Append(M, c), m))
<1>1. /\ Len(M) \in Nat /\ DOMAIN M = 1 .. Len(M) /\ DOMAIN Append(Append(M, c), m) = 1 .. Len(M) + 2
      /\ \A i \in 1 .. Len(M) : Append(Append(M, c), m)[i] = M[i]
      /\ Append(Append(M, c), m)[Len(M) + 1] = c
      /\ Append(Append(M, c), m)[Len(M) + 2] = m
  OBVIOUS
<1>2. PICK N : N = Append(Append(M, c), m)
  OBVIOUS
<1>3. m.kind # "create" /\ Apart(c, m)
  BY DEF First, Apart
<1>4. ASSUME NEW i \in DOMAIN N, N[i].kind = "create"
      PROVE  /\ i + 1 \in DOMAIN N /\ First(N[i + 1], N[i].dest)
             /\ \A j \in DOMAIN N : i < j => Apart(N[i], N[j])
  <2>1. i \in DOMAIN M \/ i = Len(M) + 1
    BY <1>1, <1>2, <1>3, <1>4
  <2>2. CASE i \in DOMAIN M
    <3>1. /\ i + 1 \in DOMAIN M /\ First(M[i + 1], M[i].dest) /\ N[i] = M[i]
          /\ \A j \in DOMAIN M : i < j => Apart(M[i], M[j])
      BY <1>1, <1>2, <1>4, <2>2 DEF Paired
    <3>2. M[i] \in Range(M)
      BY <2>2 DEF Range
    <3>3. Apart(M[i], c) /\ Apart(M[i], m)
      BY <1>4, <3>1, <3>2 DEF Apart, First
    <3>4. i \in DOMAIN N /\ i + 1 \in DOMAIN N /\ N[i + 1] = M[i + 1]
      BY <1>1, <1>2, <2>2, <3>1
    <3>5. ASSUME NEW j \in DOMAIN N, i < j PROVE Apart(N[i], N[j])
      <4>1. j \in DOMAIN M \/ j = Len(M) + 1 \/ j = Len(M) + 2
        BY <1>1, <1>2
      <4>2. j \in DOMAIN M => N[j] = M[j]
        BY <1>1, <1>2
      <4>3. j = Len(M) + 1 => N[j] = c
        BY <1>1, <1>2
      <4>4. j = Len(M) + 2 => N[j] = m
        BY <1>1, <1>2
      <4> QED
        BY <3>1, <3>3, <3>5, <4>1, <4>2, <4>3, <4>4
    <3> QED
      BY <3>1, <3>4, <3>5
  <2>3. CASE i = Len(M) + 1
    BY <1>1, <1>2, <1>3, <2>3
  <2> QED
    BY <2>1, <2>2, <2>3
<1> QED
  BY <1>2, <1>4 DEF Paired

-----------------------------------------------------------------------------
(* Queues, relays and connections of the server change *)

\* A step that changes only the queues keeps the server's invariant if each new
\* message has its place.
LEMMA CoreMail ==
    ASSUME NEW P, NEW Q, NEW s, NEW dr, NEW di, ServerCore(P, s, dr, di), Alike(P, Q),
           Paired(Mail(Q)), Waiting(Q) \subseteq Waiting(P),
           \A m \in Range(Mail(Q)) : m \in Range(Mail(P)) \/ ServerMail(Q, m, s, dr, di),
           \A w \in Range(Q.out) : w \in Range(P.out) \/ ServerOut(w, s, di)
    PROVE  ServerCore(Q, s, dr, di)
<1>1. ServerRelays(Q, dr)
  <2>1. ServerRelays(P, dr)
    BY DEF ServerCore
  <2>2. \A r \in DOMAIN Q.relay : ServerRelay(Q, r, dr)
    BY <2>1 DEF Alike, ServerRelays, ServerRelay, Of
  <2> QED
    BY <2>1, <2>2 DEF Alike, ServerRelays, ServerIdle
<1>2. \A x \in DOMAIN Q.objects : Serving(Q, x, s, dr, di)
  <2>1. \A x : Servers(Q, x) = Servers(P, x)
    BY DEF Alike, Servers
  <2> QED
    BY <2>1 DEF ServerCore, Serving, Alike, Of
<1>3. ASSUME NEW m \in Range(Mail(P)) PROVE ServerMail(Q, m, s, dr, di)
  <2>1. ServerMail(P, m, s, dr, di)
    BY DEF ServerCore
  <2>2. \A r : Tied(P, r) => Tied(Q, r)
    BY DEF Alike, Tied
  <2>3. \A r : Fresh(P, r) => Fresh(Q, r)
    BY DEF Alike, Fresh
  <2>4. \A r, n : Routed(P, r, n, s) => Routed(Q, r, n, s)
    BY DEF Alike, Routed
  <2>5. \A r, x : Through(P, r, x) => Through(Q, r, x)
    BY <2>2 DEF Alike, Through
  <2>6. \A r : Of(P, r, dr) => Of(Q, r, dr)
    BY DEF Alike, Of
  <2>7. Creates(P, m) => Creates(Q, m)
    BY <2>2, <2>3 DEF Creates
  <2>8. ExtCall(P, m, s, dr \cup di) => ExtCall(Q, m, s, dr \cup di)
    BY <2>2, <2>4 DEF ExtCall, Alike
  <2>9. ToObject(P, m, s, dr \cup di) => ToObject(Q, m, s, dr \cup di)
    BY <2>3, <2>4, <2>5 DEF ToObject, Alike
  <2>10. FromObject(P, m, s) => FromObject(Q, m, s)
    BY <2>4, <2>5 DEF FromObject
  <2>11. ExtDelete(P, m, dr) => ExtDelete(Q, m, dr)
    BY <2>2, <2>6 DEF ExtDelete
  <2> QED
    BY <2>1, <2>7, <2>8, <2>9, <2>10, <2>11 DEF ServerMail
<1>4. \A w \in Range(Q.out) : ServerOut(w, s, di)
  BY DEF ServerCore
<1> QED
  BY <1>1, <1>2, <1>3, <1>4 DEF ServerCore

\* A relay that is found, or made, or has its local object set keeps it.
LEMMA CoreRelay ==
    ASSUME NEW P, NEW Q, NEW s, NEW dr, NEW di, NEW r, ServerCore(P, s, dr, di), Rerouted(P, Q, r, dr)
    PROVE  ServerCore(Q, s, dr, di)
<1>1. /\ Q.conns = P.conns /\ Q.objects = P.objects /\ Q.applinks = P.applinks
      /\ Q.interfaces = P.interfaces /\ Q.extlinks = P.extlinks /\ (HasExt(Q) <=> HasExt(P))
      /\ Mail(Q) = Mail(P) /\ Q.out = P.out /\ Waiting(Q) = Waiting(P)
  BY DEF Rerouted, Same, Field, HasExt, Mail, Waiting
<1>2. /\ HasExt(P) /\ r \in Oids /\ DOMAIN Q.relay = DOMAIN P.relay \cup {r}
      /\ \A x \in DOMAIN P.relay : x # r => Q.relay[x] = P.relay[x]
      /\ ServerRelay(Q, r, dr)
      /\ r \in DOMAIN P.relay /\ P.relay[r].serves =>
            Q.relay[r].serves /\ Q.relay[r].localp = P.relay[r].localp
  BY DEF Rerouted
<1>3. ServerRelays(P, dr)
  BY DEF ServerCore
<1>4. ServerRelays(Q, dr)
  <2>1. ASSUME NEW x \in DOMAIN P.relay, x # r PROVE ServerRelay(Q, x, dr)
    <3>1. ServerRelay(P, x, dr) /\ Q.relay[x] = P.relay[x]
      BY <1>2, <1>3, <2>1 DEF ServerRelays
    <3>2. ASSUME Q.relay[x].serves, NEW y \in DOMAIN Q.relay, Q.relay[y].serves,
                 Q.relay[y].localp = Q.relay[x].localp
          PROVE  y = x
      <4>1. CASE y = r
        <5>1. \A z \in DOMAIN Q.relay : Q.relay[z].serves /\ Q.relay[z].localp = Q.relay[r].localp => z = r
          BY <1>2, <3>2, <4>1 DEF ServerRelay
        <5> QED
          BY <1>2, <2>1, <3>2, <4>1, <5>1
      <4>2. CASE y # r
        BY <1>2, <3>1, <3>2, <4>2 DEF ServerRelay
      <4> QED
        BY <4>1, <4>2
    <3> QED
      BY <1>1, <3>1, <3>2 DEF ServerRelay, Of
  <2>2. \A x \in DOMAIN Q.relay : ServerRelay(Q, x, dr)
    BY <1>2, <2>1
  <2> QED
    BY <1>1, <1>2, <1>3, <2>2 DEF ServerRelays, ServerIdle
<1>5. ASSUME NEW x \in DOMAIN Q.objects PROVE Serving(Q, x, s, dr, di)
  <2>1. Serving(P, x, s, dr, di)
    BY <1>1 DEF ServerCore
  <2>2. Servers(P, x) \subseteq Servers(Q, x)
    BY <1>2 DEF Servers
  <2>3. \A y, z \in Servers(Q, x) : y = z
    BY <1>4 DEF Servers, ServerRelays, ServerRelay
  <2>4. Servers(Q, x) = Servers(P, x)
    BY <2>1, <2>2, <2>3 DEF Serving
  <2> QED
    BY <1>1, <2>1, <2>4 DEF Serving, Of
<1>6. ASSUME NEW m \in Range(Mail(P)) PROVE ServerMail(Q, m, s, dr, di)
  <2>1. ServerMail(P, m, s, dr, di)
    BY DEF ServerCore
  <2>2. \A x : Tied(P, x) => Tied(Q, x)
    BY <1>1 DEF Tied
  <2>3. \A x, n : Routed(P, x, n, s) => Routed(Q, x, n, s)
    BY <1>1 DEF Routed
  <2>4. \A x : Of(P, x, dr) => Of(Q, x, dr)
    BY <1>1 DEF Of
  <2>5. /\ Q.relay[r].pExtern => \/ /\ r \in DOMAIN P.relay /\ P.relay[r].pExtern
                                    /\ Q.relay[r].localp = P.relay[r].localp
                                 \/ Unused(P, r)
        /\ r \in DOMAIN P.relay /\ P.relay[r].pExtern => Q.relay[r].pExtern \/ Of(P, r, dr)
    BY DEF Rerouted
  <2>6. ASSUME NEW x, Fresh(P, x), x = r => ~Unused(P, r) PROVE Fresh(Q, x)
    BY <1>2, <2>5, <2>6 DEF Fresh
  <2>7. ASSUME NEW x, NEW y, Through(P, x, y), x = r => ~Unused(P, r) PROVE Through(Q, x, y)
    BY <1>1, <1>2, <2>2, <2>5, <2>7 DEF Through
  <2>8. Creates(P, m) => Creates(Q, m)
    <3>1. m.kind = "create" => m.dest \in Waiting(P)
      BY DEF Waiting
    <3> QED
      BY <2>2, <2>6, <3>1 DEF Creates, Unused
  <2>9. ExtCall(P, m, s, dr \cup di) => ExtCall(Q, m, s, dr \cup di)
    BY <1>1, <2>2, <2>3 DEF ExtCall
  <2>10. ASSUME ToObject(P, m, s, dr \cup di) PROVE ToObject(Q, m, s, dr \cup di)
    <3>1. m.kind = "call" /\ m.src # Ext
      BY <2>10, OidFacts DEF ToObject, Through, Tied
    <3>2. Through(Q, m.src, m.dest) /\ Fresh(Q, m.dest)
      <4>1. Through(P, m.src, m.dest) /\ Fresh(P, m.dest)
        BY <2>10 DEF ToObject
      <4>2. m.src = r => ~Unused(P, r)
        BY <3>1 DEF Unused
      <4>3. m.dest = r => ~Unused(P, r)
        BY <3>1 DEF Unused
      <4> QED
        BY <2>6, <2>7, <4>1, <4>2, <4>3
    <3>3. ASSUME s[m.n] \notin dr \cup di PROVE m.src \in DOMAIN Q.relay /\ Q.relay[m.src].pExtern
      <4>1. m.src \in DOMAIN P.relay /\ P.relay[m.src].pExtern
        BY <1>2, <2>10, <3>3 DEF ToObject
      <4>2. CASE m.src # r
        BY <1>2, <4>1, <4>2
      <4>3. CASE m.src = r
        <5>1. PICK d \in P.conns : d.oid = r
          BY <1>3, <4>1, <4>3 DEF ServerRelays, ServerRelay
        <5>2. PICK o \in Oids : s[m.n] = Proxy(o) /\ d.extid = Key(o)
          BY <2>10, <4>3, <5>1 DEF ToObject, Routed
        <5>3. ~Of(P, r, dr)
          <6> SUFFICES ASSUME Of(P, r, dr) PROVE FALSE
            OBVIOUS
          <6>1. PICK q \in Oids : Proxy(q) \in dr /\ d.extid = Key(q)
            BY <5>1 DEF Of
          <6> QED
            BY <3>3, <5>2, <6>1, KeyFacts
        <5> QED
          BY <1>2, <2>5, <4>1, <4>3, <5>3
      <4> QED
        BY <4>2, <4>3
    <3> QED
      BY <2>3, <2>10, <3>2, <3>3 DEF ToObject
  <2>11. FromObject(P, m, s) => FromObject(Q, m, s)
    <3>1. m.kind = "reply" /\ m.dest = r => ~Unused(P, r)
      BY DEF Unused
    <3> QED
      BY <2>3, <2>7, <3>1 DEF FromObject
  <2>12. ExtDelete(P, m, dr) => ExtDelete(Q, m, dr)
    BY <2>2, <2>4 DEF ExtDelete
  <2> QED
    BY <2>1, <2>8, <2>9, <2>10, <2>11, <2>12 DEF ServerMail
<1>7. Paired(Mail(Q)) /\ \A w \in Range(Q.out) : ServerOut(w, s, di)
  BY <1>1 DEF ServerCore
<1> QED
  BY <1>1, <1>4, <1>5, <1>6, <1>7 DEF ServerCore

\* Relays go whose objects have ended.
LEMMA CoreSwept ==
    ASSUME NEW P, NEW Q, NEW s, NEW dr, NEW di, NEW U, ServerCore(P, s, dr, di), Swept(P, Q, U),
           U \subseteq DOMAIN P.relay, P.out \in Seq(Written),
           \A o \in U : P.relay[o].pExtern => Of(P, o, di)
    PROVE  ServerCore(Q, s, dr, di)
<1>1. /\ Q.applinks = P.applinks /\ Q.interfaces = P.interfaces /\ Q.extlinks = P.extlinks
      /\ (HasExt(Q) <=> HasExt(P)) /\ Mail(Q) = Mail(P) /\ Waiting(Q) = Waiting(P)
  BY DEF Swept, Same, Field, HasExt, Mail, Waiting
<1>2. /\ DOMAIN Q.relay = DOMAIN P.relay \ U /\ \A x \in DOMAIN Q.relay : Q.relay[x] = P.relay[x]
      /\ Q.conns = {c \in P.conns : ~(c.oid \in U /\ P.relay[c.oid].pExtern)}
      /\ DOMAIN Q.objects = DOMAIN P.objects \ {P.relay[o].localp : o \in {r \in U : P.relay[r].serves}}
      /\ \A x \in DOMAIN Q.objects : Q.objects[x] = P.objects[x]
  BY DEF Swept
<1>3. ServerRelays(P, dr)
  BY DEF ServerCore
<1>4. ServerRelays(Q, dr)
  <2>1. ASSUME NEW x \in DOMAIN Q.relay PROVE ServerRelay(Q, x, dr)
    <3>1. ServerRelay(P, x, dr) /\ Q.relay[x] = P.relay[x] /\ x \in DOMAIN P.relay /\ x \notin U
      BY <1>2, <1>3 DEF ServerRelays
    <3> QED
      BY <1>1, <1>2, <3>1 DEF ServerRelay, Of
  <2> QED
    BY <1>1, <1>2, <1>3, <2>1 DEF ServerRelays, ServerIdle
<1>5. ASSUME NEW x \in DOMAIN Q.objects PROVE Serving(Q, x, s, dr, di)
  <2>1. Serving(P, x, s, dr, di) /\ Q.objects[x] = P.objects[x]
    BY <1>2 DEF ServerCore
  <2>2. Servers(Q, x) = Servers(P, x) /\ \A r \in Servers(P, x) : r \notin U
    BY <1>2 DEF Servers
  <2>3. \A r \in Servers(P, x) : Of(P, r, di) => Of(Q, r, di)
    BY <1>2 DEF Of
  <2>4. \A r \in Servers(P, x) : \A e : [oid |-> r, extid |-> e] \in P.conns => [oid |-> r, extid |-> e] \in Q.conns
    BY <1>2, <2>2
  <2> QED
    BY <2>1, <2>2, <2>3, <2>4 DEF Serving
<1>6. ASSUME NEW m \in Range(Mail(P)) PROVE ServerMail(Q, m, s, dr, di)
  <2>1. ServerMail(P, m, s, dr, di)
    BY DEF ServerCore
  <2>2. \A x : Tied(P, x) => Tied(Q, x)
    BY <1>1 DEF Tied
  <2>3. \A x, n : Routed(P, x, n, s) => Routed(Q, x, n, s)
    BY <1>2 DEF Routed
  <2>4. \A x : Of(P, x, dr) => Of(Q, x, dr)
    BY <1>2 DEF Of
  <2>5. \A x : Fresh(P, x) => Fresh(Q, x)
    BY <1>2 DEF Fresh
  <2>6. \A x, y : Through(P, x, y) => Through(Q, x, y)
    BY <1>1, <1>2, <2>2 DEF Through
  <2>7. ASSUME NEW d \in P.conns, d \notin Q.conns, Routed(P, d.oid, m.n, s) PROVE s[m.n] \in dr \cup di
    <3>1. d.oid \in U /\ P.relay[d.oid].pExtern
      BY <1>2, <2>7
    <3>2. Of(P, d.oid, di)
      BY <3>1
    <3>3. PICK o \in Oids : Proxy(o) \in di /\ d.extid = Key(o)
      BY <3>2 DEF Of
    <3> QED
      BY <2>7, <3>3, KeyFacts DEF Routed
  <2>8. ASSUME ExtCall(P, m, s, dr \cup di) PROVE ExtCall(Q, m, s, dr \cup di)
    <3>1. HasExt(Q) /\ s[m.n] \notin dr \cup di => \E d \in Q.conns : d.oid = m.dest
      BY <1>1, <2>7, <2>8 DEF ExtCall
    <3> QED
      BY <2>2, <2>3, <2>8, <3>1 DEF ExtCall
  <2>9. ASSUME ToObject(P, m, s, dr \cup di) PROVE ToObject(Q, m, s, dr \cup di)
    <3>1. ASSUME HasExt(P), s[m.n] \notin dr \cup di PROVE m.src \in DOMAIN Q.relay /\ Q.relay[m.src].pExtern
      <4>1. m.src \in DOMAIN P.relay /\ P.relay[m.src].pExtern
        BY <2>9, <3>1 DEF ToObject
      <4>2. PICK d \in P.conns : d.oid = m.src
        BY <1>3, <4>1 DEF ServerRelays, ServerRelay
      <4>3. d \in Q.conns
        BY <2>7, <2>9, <3>1, <4>2 DEF ToObject
      <4>4. m.src \notin U
        BY <1>2, <4>1, <4>2, <4>3
      <4> QED
        BY <1>2, <4>1, <4>4
    <3> QED
      BY <1>1, <2>3, <2>5, <2>6, <2>9, <3>1 DEF ToObject
  <2> QED
    BY <2>1, <2>2, <2>3, <2>4, <2>5, <2>6, <2>8, <2>9 DEF ServerMail, Creates, FromObject, ExtDelete
<1>7. ASSUME NEW w \in Range(Q.out) PROVE ServerOut(w, s, di)
  <2>1. PICK t \in Seq(Written) : Q.out = P.out \o t /\ \A v \in Range(t) : DeleteOf(P, U, v)
    BY DEF Swept
  <2>2. w \in Range(P.out) \/ w \in Range(t)
    BY <2>1, ConcatFacts
  <2>3. CASE w \in Range(t)
    <3>1. PICK c \in P.conns : c.oid \in U \cap DOMAIN P.relay /\ P.relay[c.oid].pExtern /\ w.extid = c.extid
      BY <2>1, <2>3 DEF DeleteOf
    <3>2. PICK o \in Oids : Proxy(o) \in di /\ c.extid = Key(o)
      BY <3>1 DEF Of
    <3> QED
      BY <2>1, <2>3, <3>1, <3>2 DEF ServerOut, DeleteOf
  <2> QED
    BY <2>2, <2>3 DEF ServerCore
<1>8. Paired(Mail(Q))
  BY <1>1 DEF ServerCore
<1> QED
  BY <1>1, <1>4, <1>5, <1>6, <1>7, <1>8 DEF ServerCore

\* History that grows.
LEMMA CoreGrows ==
    ASSUME NEW P, NEW s, NEW t, NEW dr, NEW er, NEW di, NEW ei, ServerCore(P, s, dr, di),
           dr \subseteq er, di \subseteq ei, DOMAIN s \subseteq DOMAIN t,
           \A n \in DOMAIN s : t[n] = s[n]
    PROVE  ServerCore(P, t, er, ei)
<1>1. \A r : (Of(P, r, dr) => Of(P, r, er)) /\ (Of(P, r, di) => Of(P, r, ei))
  BY DEF Of
<1>2. ServerRelays(P, er)
  <2>1. ServerRelays(P, dr)
    BY DEF ServerCore
  <2>2. \A r \in DOMAIN P.relay : ServerRelay(P, r, er)
    BY <1>1, <2>1 DEF ServerRelays, ServerRelay
  <2> QED
    BY <2>1, <2>2 DEF ServerRelays
<1>3. ASSUME NEW x \in DOMAIN P.objects PROVE Serving(P, x, t, er, ei)
  <2>1. Serving(P, x, s, dr, di)
    BY DEF ServerCore
  <2>2. ASSUME NEW n \in Range(P.objects[x].calls)
        PROVE  n \in DOMAIN t /\ (t[n] \notin er \cup ei =>
                \E r \in Servers(P, x), o \in Oids : t[n] = Proxy(o) /\ [oid |-> r, extid |-> Key(o)] \in P.conns)
    <3>1. n \in DOMAIN s /\ t[n] = s[n]
      BY <2>1 DEF Serving
    <3> QED
      BY <2>1, <3>1 DEF Serving
  <2> QED
    BY <1>1, <2>1, <2>2 DEF Serving
<1>4. ASSUME NEW m \in Range(Mail(P)) PROVE ServerMail(P, m, t, er, ei)
  <2>1. ServerMail(P, m, s, dr, di)
    BY DEF ServerCore
  <2>2. \A r, n : Routed(P, r, n, s) => Routed(P, r, n, t) /\ n \in DOMAIN s
    BY DEF Routed
  <2>3. ExtCall(P, m, s, dr \cup di) => ExtCall(P, m, t, er \cup ei)
    BY <2>2 DEF ExtCall
  <2>4. ToObject(P, m, s, dr \cup di) => ToObject(P, m, t, er \cup ei)
    BY <2>2 DEF ToObject
  <2>5. FromObject(P, m, s) => FromObject(P, m, t)
    BY <2>2 DEF FromObject
  <2>6. ExtDelete(P, m, dr) => ExtDelete(P, m, er)
    BY <1>1 DEF ExtDelete
  <2> QED
    BY <2>1, <2>3, <2>4, <2>5, <2>6 DEF ServerMail
<1>5. ASSUME NEW w \in Range(P.out) PROVE ServerOut(w, t, ei)
  <2>1. ServerOut(w, s, di)
    BY DEF ServerCore
  <2> QED
    BY <2>1 DEF ServerOut
<1> QED
  BY <1>2, <1>3, <1>4, <1>5 DEF ServerCore

-----------------------------------------------------------------------------
(* The server reads *)

\* The mail with a new relay and its first message.
LEMMA NewMail ==
    ASSUME NEW P, NEW D, Good("server", P, D), NEW Q, NEW m, NEW o, Free(P) # {}, m \in Sendable(D),
           m.kind = "call", m.iid \in Iface, TakesNew("server", P, m, o, Q),
           NEW c, c = Msg(Ext, o, "create", "COM", 0), NEW f, f = Msg(Ext, o, "call", m.iid, m.n)
    PROVE  /\ Mail(Q) = Append(Append(Mail(P), c), f) /\ Range(Mail(Q)) = Range(Mail(P)) \cup {c, f}
           /\ Mail(P) \in Seq(Message(D)) /\ c \in Message(D) /\ f \in Message(D)
<1>0. o \in Oids /\ Q.inq = P.inq
  BY FreeIs DEF TakesNew, Same, Field
<1>1. P.inq \in Seq(Message(D)) /\ P.outq \in Seq(Message(D))
  BY DEF Good
<1>2. c \in Message(D) /\ f \in Message(D)
  BY <1>0, OidFacts DEF Msg, Message, Queued, Kinds, Ext, Sendable, Written
<1>3. PICK q1 : q1 = Append(P.outq, c)
  OBVIOUS
<1>4. q1 \in Seq(Message(D)) /\ Q.outq = Append(q1, f)
  BY <1>1, <1>2, <1>3 DEF TakesNew
<1>5. P.inq \o q1 = Append(Mail(P), c) /\ Mail(Q) = Append(P.inq \o q1, f)
  <2>1. \A a, b \in Seq(Message(D)), x \in Message(D) : a \o Append(b, x) = Append(a \o b, x)
    BY AppendAll
  <2>2. P.inq \o q1 = Append(P.inq \o P.outq, c)
    BY <1>1, <1>2, <1>3, <2>1, Zenon
  <2>3. P.inq \o Append(q1, f) = Append(P.inq \o q1, f)
    BY <1>1, <1>2, <1>4, <2>1, Zenon
  <2> QED
    BY <1>0, <1>4, <2>2, <2>3 DEF Mail
<1>6. Mail(P) \in Seq(Message(D))
  BY <1>1, MailIs
<1>7. Range(Append(Mail(P), c)) = Range(Mail(P)) \cup {c}
  BY <1>6, RangeAppend
<1>8. Append(Mail(P), c) \in Seq(Message(D))
  BY <1>2, <1>6
<1>9. Range(Append(Append(Mail(P), c), f)) = Range(Append(Mail(P), c)) \cup {f}
  BY <1>8, RangeAppend
<1> QED
  BY <1>2, <1>5, <1>6, <1>7, <1>9

\* What a call of the client brings to a new relay.
LEMMA CoreNew ==
    ASSUME NEW P, NEW D, Good("server", P, D), NEW Q, NEW s, NEW dr, NEW di, NEW m, NEW o,
           ServerCore(P, s, dr, di), HasExt(P), Free(P) # {}, m \in Sendable(D),
           ClientOut(m, s, dr), IsExported("server", m.iid), TakesNew("server", P, m, o, Q)
    PROVE  ServerCore(Q, s, dr, di)
<1>1. /\ o \in Oids \ P.extlinks /\ \A r \in DOMAIN P.relay : P.relay[r].localp # o
      /\ P.conns \subseteq Q.conns /\ P.extlinks \subseteq Q.extlinks
      /\ Q.extlinks = P.extlinks \cup {o} /\ Q.conns = P.conns \cup {[oid |-> o, extid |-> m.extid]}
  <2>1. o = Min(Free(P))
    BY DEF TakesNew
  <2> QED
    BY <2>1, FreeIs DEF TakesNew
<1>2. /\ Q.relay = P.relay /\ Q.objects = P.objects /\ Q.applinks = P.applinks /\ Q.out = P.out
      /\ Q.interfaces = P.interfaces /\ HasExt(Q) /\ Q.inq = P.inq
  BY DEF TakesNew, Same, Field, HasExt
<1>3. PICK q \in Oids : m.extid = Key(q) /\ m.kind = "call" /\ m.iid \in Iface
                        /\ m.n \in DOMAIN s /\ s[m.n] = Proxy(q)
  BY DEF ClientOut, TakesNew
<1>4. PICK c, f : c = Msg(Ext, o, "create", "COM", 0) /\ f = Msg(Ext, o, "call", m.iid, m.n)
  OBVIOUS
<1>5. /\ c.src = Ext /\ c.dest = o /\ c.kind = "create" /\ c.iid = "COM"
      /\ f.src = Ext /\ f.dest = o /\ f.kind = "call" /\ f.iid = m.iid /\ f.n = m.n
  BY <1>4 DEF Msg
<1>6. Mail(Q) = Append(Append(Mail(P), c), f) /\ Range(Mail(Q)) = Range(Mail(P)) \cup {c, f}
      /\ Mail(P) \in Seq(Message(D))
  BY <1>3, <1>4, NewMail
<1>7. ServerRelays(P, dr)
  BY DEF ServerCore
<1>8. \A x : x \in P.extlinks => \A E : Of(P, x, E) => Of(Q, x, E)
  BY <1>1 DEF Of
<1>9. \A d \in P.conns : d.oid \in P.extlinks
  BY DEF Good, ConnsOK
<1>10. ServerRelays(Q, dr)
  <2>1. ASSUME NEW r \in DOMAIN Q.relay PROVE ServerRelay(Q, r, dr)
    <3>1. ServerRelay(P, r, dr)
      BY <1>2, <1>7 DEF ServerRelays
    <3>2. P.relay[r].unused => Of(Q, r, dr)
      BY <1>8, <3>1 DEF ServerRelay
    <3>3. P.relay[r].serves => P.relay[r].localp \in Oids \ Q.extlinks
      BY <1>1, <1>2, <3>1 DEF ServerRelay
    <3> QED
      BY <1>1, <1>2, <3>1, <3>2, <3>3 DEF ServerRelay
  <2> QED
    BY <1>1, <1>2, <1>3, <1>7, <2>1 DEF ServerRelays, ServerIdle
<1>11. ASSUME NEW x \in DOMAIN Q.objects PROVE Serving(Q, x, s, dr, di)
  <2>1. Serving(P, x, s, dr, di) /\ Servers(Q, x) = Servers(P, x)
    BY <1>2 DEF ServerCore, Servers
  <2>2. \A r \in Servers(P, x) : r \in P.extlinks
    BY <1>7 DEF Servers, ServerRelays, ServerRelay
  <2> QED
    BY <1>1, <1>2, <1>8, <2>1, <2>2 DEF Serving
<1>12. Waiting(Q) = Waiting(P) \cup {o}
  BY <1>5, <1>6 DEF Waiting
<1>13. ASSUME NEW a \in Range(Mail(P)) PROVE ServerMail(Q, a, s, dr, di)
  <2>1. ServerMail(P, a, s, dr, di)
    BY DEF ServerCore
  <2>2. \A x : Tied(P, x) => Tied(Q, x) /\ x \in P.extlinks /\ x # o
    BY <1>1 DEF Tied
  <2>3. \A x, n : Tied(P, x) /\ Routed(P, x, n, s) => Routed(Q, x, n, s)
    BY <1>1, <2>2 DEF Routed
  <2>4. \A x : Tied(P, x) /\ Of(P, x, dr) => Of(Q, x, dr)
    BY <1>8, <2>2
  <2>5. \A x : Fresh(P, x) => Fresh(Q, x)
    BY <1>2 DEF Fresh
  <2>6. \A x, y : Through(P, x, y) => Through(Q, x, y) /\ Tied(P, x)
    BY <1>2, <1>12, <2>2 DEF Through
  <2>7. Creates(P, a) => Creates(Q, a)
    BY <2>2, <2>5 DEF Creates
  <2>8. ExtCall(P, a, s, dr \cup di) => ExtCall(Q, a, s, dr \cup di)
    BY <1>1, <2>2, <2>3 DEF ExtCall
  <2>9. ToObject(P, a, s, dr \cup di) => ToObject(Q, a, s, dr \cup di)
    BY <1>2, <2>3, <2>5, <2>6 DEF ToObject
  <2>10. FromObject(P, a, s) => FromObject(Q, a, s)
    BY <2>3, <2>6 DEF FromObject
  <2>11. ExtDelete(P, a, dr) => ExtDelete(Q, a, dr)
    BY <2>2, <2>4 DEF ExtDelete
  <2> QED
    BY <2>1, <2>7, <2>8, <2>9, <2>10, <2>11 DEF ServerMail
<1>14. Tied(Q, o) /\ Fresh(Q, o)
  <2>1. o \in DOMAIN P.relay => ~P.relay[o].pExtern
    BY <1>1, <1>7, <1>9 DEF ServerRelays, ServerRelay
  <2> QED
    BY <1>1, <1>2, <2>1 DEF Tied, Fresh
<1>15. ServerMail(Q, c, s, dr, di)
  BY <1>5, <1>14 DEF ServerMail, Creates
<1>16. ServerMail(Q, f, s, dr, di)
  <2>1. Routed(Q, o, m.n, s)
    BY <1>1, <1>3, <1>9 DEF Routed
  <2>2. \E d \in Q.conns : d.oid = o
    <3>1. PICK d : d = [oid |-> o, extid |-> m.extid]
      OBVIOUS
    <3> QED
      BY <1>1, <3>1
  <2> QED
    BY <1>3, <1>5, <1>14, <2>1, <2>2 DEF ServerMail, ExtCall
<1>17. Paired(Mail(Q))
  <2>1. First(f, c.dest)
    BY <1>5 DEF First
  <2>2. \A a \in Range(Mail(P)) : a.kind = "create" => a.dest # c.dest
    <3> SUFFICES ASSUME NEW a \in Range(Mail(P)), a.kind = "create" PROVE a.dest # c.dest
      OBVIOUS
    <3>1. ServerMail(P, a, s, dr, di)
      BY DEF ServerCore
    <3>2. Creates(P, a)
      BY <3>1 DEF ServerMail, ExtCall, ToObject, FromObject, ExtDelete, ToSelf
    <3> QED
      BY <1>1, <1>5, <3>2 DEF Creates, Tied
  <2> QED
    BY <1>5, <1>6, <2>1, <2>2, PairedNew DEF ServerCore
<1>18. \A w \in Range(Q.out) : ServerOut(w, s, di)
  BY <1>2 DEF ServerCore
<1> QED
  BY <1>2, <1>6, <1>10, <1>11, <1>13, <1>15, <1>16, <1>17, <1>18 DEF ServerCore

\* The first message waits for its turn.
LEMMA AwaitsKept ==
    ASSUME NEW P, NEW Q, Awaits(P), Q.relay = P.relay,
           Mail(P) # <<>> => Mail(Q) # <<>> /\ Head(Mail(Q)) = Head(Mail(P))
    PROVE  Awaits(Q)
BY DEF Awaits

\* A message of the Extern or the application to itself, or one for a relay.
LEMMA CorePosted ==
    ASSUME NEW P, NEW T, Mail(P) \in Seq(T), NEW Q, NEW s, NEW dr, NEW di, NEW m,
           ServerOK(P, s, dr, di), Alike(P, Q), m.kind # "create",
           \A a \in Range(Mail(P)) : a.kind = "create" => Apart(a, m),
           Mail(Q) = Append(Mail(P), m), ServerMail(Q, m, s, dr, di),
           \A w \in Range(Q.out) : w \in Range(P.out)
    PROVE  ServerOK(Q, s, dr, di)
<1>1. ServerCore(P, s, dr, di) /\ Awaits(P) /\ Paired(Mail(P))
  BY DEF ServerOK, ServerCore
<1>2. PICK M : M = Mail(P) /\ M \in Seq(T)
  OBVIOUS
<1>3. Range(Mail(Q)) = Range(Mail(P)) \cup {m}
  BY <1>2, RangeAppend
<1>4. Paired(Mail(Q))
  BY <1>1, <1>2, PairedAppend
<1>5. Waiting(Q) \subseteq Waiting(P)
  BY <1>3 DEF Waiting
<1>6. ServerCore(Q, s, dr, di)
  <2>1. \A a \in Range(Mail(Q)) : a \in Range(Mail(P)) \/ ServerMail(Q, a, s, dr, di)
    BY <1>3
  <2> QED
    BY <1>1, <1>4, <1>5, <2>1, CoreMail
<1>7. Awaits(Q)
  <2>1. M # <<>> => Append(M, m) # <<>> /\ Head(Append(M, m)) = Head(M)
    BY <1>2
  <2>2. Q.relay = P.relay
    BY DEF Alike
  <2> QED
    BY <1>1, <1>2, <2>1, <2>2, AwaitsKept
<1> QED
  BY <1>6, <1>7 DEF ServerOK

\* The steps that leave connections and relays alone.
LEMMA ServerQuiet ==
    ASSUME NEW P, NEW D, Good("server", P, D), NEW Q, NEW s, NEW dr, NEW di,
           ServerOK(P, s, dr, di), Quiet(P, Q)
    PROVE  ServerOK(Q, s, dr, di)
<1>1. ServerCore(P, s, dr, di) /\ Awaits(P) /\ Paired(Mail(P)) /\ ServerRelays(P, dr)
  BY DEF ServerOK, ServerCore
<1>2. Alike(P, Q)
  BY DEF Quiet, Same, Field, Alike
<1>3. PICK M : M = Mail(P) /\ M \in Seq(Message(D))
  BY MailIs DEF Good
<1>4. \A w \in Range(Q.out) : w \in Range(P.out)
  <2>1. P.out \in Seq(Written)
    BY DEF Good, IsProcess
  <2> QED
    BY <2>1, RangePrefix DEF Quiet
<1>5. CASE Mail(Q) = Mail(P)
  <2>1. ServerCore(Q, s, dr, di)
    BY <1>1, <1>2, <1>4, <1>5, CoreMail DEF Waiting
  <2>2. Awaits(Q)
    BY <1>1, <1>2, <1>5 DEF Alike, Awaits
  <2> QED
    BY <2>1, <2>2 DEF ServerOK
<1>6. CASE M # <<>> /\ Skipped(P, Head(M)) /\ Mail(Q) = Tail(M)
  <2>1. Paired(Mail(Q)) /\ Range(Mail(Q)) \subseteq Range(Mail(P))
    BY <1>1, <1>3, <1>6, PairedTail, RangeHead
  <2>2. ServerCore(Q, s, dr, di)
    <3>1. Waiting(Q) \subseteq Waiting(P)
      BY <2>1 DEF Waiting
    <3> QED
      BY <1>1, <1>2, <1>4, <2>1, <3>1, CoreMail
  <2>3. ASSUME NEW r \in DOMAIN P.relay, P.relay[r].pExtern, P.relay[r].localp = NoOid PROVE FALSE
    <3>1. First(Head(M), r)
      BY <1>1, <1>3, <2>3 DEF Awaits
    <3>2. r \in Oids /\ r \in P.extlinks
      BY <1>1, <2>3 DEF Good, IsProcess, ServerRelays, ServerRelay
    <3> QED
      BY <1>6, <3>1, <3>2, OidFacts DEF First, Skipped, Linked
  <2>4. Awaits(Q)
    BY <1>2, <2>3 DEF Alike, Awaits
  <2> QED
    BY <2>2, <2>4 DEF ServerOK
<1>7. ASSUME NEW m, ToSelf(m), Mail(Q) = Append(Mail(P), m)
      PROVE  ServerOK(Q, s, dr, di)
  <2>1. m.kind # "create" /\ m.kind # "call" /\ ServerMail(Q, m, s, dr, di)
    BY <1>7 DEF ToSelf, ServerMail
  <2>2. \A a \in Range(Mail(P)) : a.kind = "create" => Apart(a, m)
    BY <2>1 DEF Apart
  <2> QED
    BY <1>2, <1>3, <1>4, <1>7, <2>1, <2>2, CorePosted
<1> QED
  BY <1>3, <1>5, <1>6, <1>7 DEF Quiet, QuietMail

\* A call or a delete of the client reaches the connection of its proxy.
LEMMA ServerKnown ==
    ASSUME NEW P, NEW D, Good("server", P, D), NEW Q, NEW s, NEW dr, NEW di, NEW m, NEW c,
           ServerOK(P, s, dr, di), HasExt(P), m \in Sendable(D),
           ClientOut(m, s, dr), TakesKnown("server", P, m, c, Q)
    PROVE  ServerOK(Q, s, dr, di)
<1>1. /\ c \in P.conns /\ c.extid = m.extid /\ c.oid \in Oids \cap P.extlinks
      /\ \A d \in P.conns : d.oid = c.oid => d.extid = c.extid
      /\ Same(P, Q, {"extlinks", "outq"}) /\ Q.extlinks = P.extlinks
  <2>1. /\ c \in P.conns /\ c.extid = m.extid
        /\ Same(P, Q, {"extlinks", "outq"}) /\ Q.extlinks = P.extlinks \cup {c.oid}
    BY DEF TakesKnown
  <2> QED
    BY <2>1 DEF Good, ConnsOK
<1>2. Alike(P, Q) /\ HasExt(Q) /\ Q.out = P.out /\ Q.inq = P.inq
  BY <1>1 DEF Same, Field, HasExt, Alike
<1>3. PICK q \in Oids :
        /\ m.extid = Key(q)
        /\ \/ m.kind = "call" /\ m.iid \in Iface /\ m.n \in DOMAIN s /\ s[m.n] = Proxy(q)
           \/ m.kind = "delete" /\ m.iid = "COM" /\ Proxy(q) \in dr
  BY DEF ClientOut, TakesKnown
<1>4. PICK f : f = Msg(Ext, c.oid, m.kind, m.iid, m.n)
  OBVIOUS
<1>5. f.src = Ext /\ f.dest = c.oid /\ f.kind = m.kind /\ f.iid = m.iid /\ f.n = m.n
  BY <1>4 DEF Msg
<1>6. Mail(Q) = Append(Mail(P), f)
  <2>1. P.inq \in Seq(Message(D)) /\ P.outq \in Seq(Message(D))
    BY DEF Good
  <2>2. f \in Message(D)
    BY <1>1, <1>3, <1>4, OidFacts DEF Msg, Message, Queued, Kinds, Ext, Sendable, Written
  <2>3. Q.outq = Append(P.outq, f)
    BY <1>4 DEF TakesKnown
  <2>4. Puts(Message(D), P, f, Q)
    BY <1>2, <2>1, <2>2, <2>3 DEF Puts
  <2> QED
    BY <2>4, MailPosted
<1>7. ServerMail(Q, f, s, dr, di)
  <2>1. Tied(Q, c.oid)
    BY <1>1 DEF Tied
  <2>2. CASE m.kind = "call"
    <3>1. Routed(Q, c.oid, m.n, s)
      BY <1>1, <1>2, <1>3, <2>2 DEF Routed, Alike
    <3>2. \E d \in Q.conns : d.oid = c.oid
      BY <1>1, <1>2 DEF Alike
    <3> QED
      BY <1>3, <1>5, <2>1, <2>2, <3>1, <3>2 DEF ServerMail, ExtCall
  <2>3. CASE m.kind = "delete"
    <3>1. Of(Q, c.oid, dr)
      BY <1>1, <1>2, <1>3, <2>3 DEF Of, Alike
    <3> QED
      BY <1>3, <1>5, <2>1, <2>3, <3>1 DEF ServerMail, ExtDelete
  <2> QED
    BY <1>3, <2>2, <2>3
<1>8. f.kind # "create" /\ \A a \in Range(Mail(P)) : a.kind = "create" => Apart(a, f)
  BY <1>3, <1>5 DEF Apart
<1>9. Mail(P) \in Seq(Message(D))
  BY MailIs DEF Good
<1> QED
  BY <1>2, <1>6, <1>7, <1>8, <1>9, CorePosted

\* The server reads what the client writes.
LEMMA ServerReads ==
    ASSUME OneWay, NEW P, NEW D, Good("server", P, D), NEW Q, NEW s, NEW dr, NEW di, NEW m,
           ServerOK(P, s, dr, di), P.ext = "open", Free(P) # {}, ClientOut(m, s, dr),
           m \in Sendable(D), Comes("server", P, m, Q)
    PROVE  ServerOK(Q, s, dr, di)
<1>0. HasExt(P) /\ ServerCore(P, s, dr, di) /\ Awaits(P) /\ DOMAIN P = Field
  BY DEF HasExt, ServerOK, Good
<1>1. CASE Q \in Closed(P)
  BY <1>0, <1>1, ClosedQuiet, ServerQuiet
<1>2. CASE Q = P
  BY <1>2
<1>3. CASE TakesExport("server", P, m, Q)
  <2>1. PICK a : a = Msg(Ext, App, "connected", "COM", 0)
    OBVIOUS
  <2>2. /\ Same(P, Q, {"interfaces", "outq"}) /\ Q.interfaces = Found("server")
        /\ Q.outq = Append(P.outq, a)
    BY <1>3, <2>1 DEF TakesExport
  <2>3. a \in Message(D) /\ ToSelf(a) /\ a.kind = "connected"
    BY <2>1 DEF Msg, Message, Queued, Kinds, Ext, App, ToSelf
  <2>4. Mail(Q) = Append(Mail(P), a) /\ Q.out = P.out
    <3>1. P.inq \in Seq(Message(D)) /\ P.outq \in Seq(Message(D)) /\ Q.inq = P.inq /\ Q.out = P.out
      BY <2>2 DEF Good, Same, Field
    <3>2. Puts(Message(D), P, a, Q)
      BY <2>2, <2>3, <3>1 DEF Puts
    <3> QED
      BY <3>1, <3>2, MailPosted
  <2>5. Found("server") = {}
    BY DEF OneWay, Found, Other
  <2>6. Alike(P, Q)
    <3>1. P.interfaces = {}
      BY <1>0 DEF ServerCore, ServerRelays, ServerIdle
    <3> QED
      BY <2>2, <2>5, <3>1 DEF Alike, Same, Field, HasExt
  <2>7. ServerMail(Q, a, s, dr, di) /\ \A b \in Range(Mail(P)) : b.kind = "create" => Apart(b, a)
    BY <2>3 DEF ServerMail, Apart
  <2>8. Mail(P) \in Seq(Message(D))
    BY MailIs DEF Good
  <2> QED
    BY <2>3, <2>4, <2>6, <2>7, <2>8, CorePosted
<1>4. ASSUME NEW c, TakesKnown("server", P, m, c, Q) PROVE ServerOK(Q, s, dr, di)
  BY <1>0, <1>4, ServerKnown
<1>5. ASSUME IsExported("server", m.iid), NEW o, TakesNew("server", P, m, o, Q)
      PROVE  ServerOK(Q, s, dr, di)
  <2>1. ServerCore(Q, s, dr, di)
    BY <1>0, <1>5, CoreNew
  <2>2. PICK M : M = Mail(P) /\ M \in Seq(Message(D))
    BY MailIs DEF Good
  <2>3. M # <<>> => Mail(Q) # <<>> /\ Head(Mail(Q)) = Head(M)
    <3>1. m.kind = "call" /\ m.iid \in Iface
      BY <1>5 DEF ClientOut, TakesNew
    <3>2. PICK c, f : c = Msg(Ext, o, "create", "COM", 0) /\ f = Msg(Ext, o, "call", m.iid, m.n)
      OBVIOUS
    <3>3. Mail(Q) = Append(Append(M, c), f) /\ c \in Message(D) /\ f \in Message(D)
      BY <1>5, <2>2, <3>1, <3>2, NewMail
    <3> QED
      BY <2>2, <3>3
  <2>4. Q.relay = P.relay
    BY <1>5 DEF TakesNew, Same, Field
  <2> QED
    BY <1>0, <2>1, <2>2, <2>3, <2>4, AwaitsKept DEF ServerOK
<1> QED
  BY <1>1, <1>2, <1>3, <1>4, <1>5 DEF Comes

\* The server is read from.
LEMMA ServerGiven ==
    ASSUME NEW P, NEW D, Good("server", P, D), NEW Q, NEW s, NEW dr, NEW di, NEW m,
           ServerOK(P, s, dr, di), Given(P, m, Q)
    PROVE  ServerOK(Q, s, dr, di)
<1>1. Alike(P, Q) /\ Mail(Q) = Mail(P)
  BY DEF Given, Same, Field, Alike, HasExt, Mail
<1>2. Range(Q.out) \subseteq Range(P.out)
  <2>1. P.out \in Seq(Written) /\ P.out # <<>> /\ Q.out = Tail(P.out)
    BY DEF Given, Good, IsProcess
  <2> QED
    BY <2>1, RangeHead
<1>3. ServerCore(Q, s, dr, di)
  <2>1. ServerCore(P, s, dr, di) /\ Waiting(Q) \subseteq Waiting(P) /\ Paired(Mail(Q))
    BY <1>1 DEF ServerOK, ServerCore, Waiting
  <2> QED
    BY <1>1, <1>2, <2>1, CoreMail
<1>4. Awaits(Q)
  BY <1>1 DEF ServerOK, Awaits, Alike
<1> QED
  BY <1>3, <1>4 DEF ServerOK

-----------------------------------------------------------------------------
(* The server delivers a message *)

\* What is known of the message that the server takes off its queue.
LEMMA DeliveredIs ==
    ASSUME RelaysInv, NEW P, P = proc["server"], ServerOK(P, sent, dropped, died),
           Delivers("server"), NEW T, T = Taken("server"), NEW m, m = Head(P.inq)
    PROVE  Delivered(P, T, m, sent, dropped, died)
<1>1. "server" \in Procs
  BY DEF Procs
<1>2. /\ Mail(P) # <<>> /\ Head(Mail(P)) = m /\ Mail(T) = Tail(Mail(P))
      /\ Mail(T) \in Seq(Message(DOMAIN sent)) /\ Range(Mail(P)) = {m} \cup Range(Mail(T))
      /\ Good("server", T, DOMAIN sent) /\ Same(P, T, {"inq"}) /\ m \in Message(DOMAIN sent)
  BY <1>1, TakenMail
<1>3. Alike(P, T) /\ T.out = P.out
  BY <1>2 DEF Same, Field, Alike, HasExt
<1>4. ServerCore(P, sent, dropped, died) /\ Awaits(P) /\ Paired(Mail(P))
  BY DEF ServerOK, ServerCore
<1>5. Mail(P) \in Seq(Message(DOMAIN sent))
  BY <1>1, MailIs DEF RelaysInv, Good
<1>6. /\ Paired(Tail(Mail(P)))
      /\ m.kind = "create" => /\ Mail(T) # <<>> /\ First(Head(Mail(T)), m.dest)
                              /\ \A a \in Range(Mail(T)) : Apart(m, a)
  BY <1>2, <1>4, <1>5, PairedTail
<1>7. ServerCore(T, sent, dropped, died)
  <2>1. Paired(Mail(T)) /\ Waiting(T) \subseteq Waiting(P)
    BY <1>2, <1>6 DEF Waiting
  <2> QED
    BY <1>2, <1>3, <1>4, <2>1, CoreMail
<1>8. ServerMail(P, m, sent, dropped, died)
  BY <1>2, <1>4 DEF ServerCore
<1> QED
  BY <1>2, <1>3, <1>4, <1>6, <1>7, <1>8 DEF Delivered, Awaits

\* A relay is for an oid that has a link, and nothing has one without an Extern.
LEMMA RelayHasExt ==
    ASSUME NEW P, NEW s, NEW dr, NEW di, ServerCore(P, s, dr, di), NEW o,
           IsRelay(P, o) \/ Servers(P, o) # {}
    PROVE  HasExt(P) /\ (IsRelay(P, o) => o \in Oids)
<1>1. ServerRelays(P, dr)
  BY DEF ServerCore
<1>2. ~HasExt(P) => DOMAIN P.relay = {} /\ P.applinks = {} /\ P.extlinks = {}
  BY <1>1 DEF ServerRelays, ServerIdle
<1>3. ASSUME ~HasExt(P) PROVE Linked(P) = {} /\ Servers(P, o) = {}
  BY <1>2, <1>3 DEF Linked, Servers
<1> QED
  BY <1>3 DEF IsRelay

\* Nothing goes through a relay that has no Extern or is not there.
LEMMA NotThrough ==
    ASSUME NEW P, NEW s, NEW dr, NEW di, ServerCore(P, s, dr, di), NEW r \in Oids,
           Clear(P, s, dr \cup di, r)
    PROVE  Unused(P, r)
<1>1. r \notin Waiting(P)
  BY DEF Waiting, Clear
<1>2. ASSUME NEW a \in Range(Mail(P)), ToObject(P, a, s, dr \cup di) \/ FromObject(P, a, s)
      PROVE  /\ a.kind = "call" => a.src # r /\ (a.src # Ext => a.dest # r)
             /\ a.kind = "reply" => a.dest # r
  BY <1>2 DEF ToObject, FromObject, Clear
<1>3. ASSUME NEW a \in Range(Mail(P)), ExtCall(P, a, s, dr \cup di)
      PROVE  /\ a.kind = "call" => a.src # r /\ (a.src # Ext => a.dest # r)
             /\ a.kind = "reply" => a.dest # r
  BY <1>3, OidFacts DEF ExtCall
<1>4. ASSUME NEW a \in Range(Mail(P)), Creates(P, a) \/ ExtDelete(P, a, dr) \/ ToSelf(a)
      PROVE  a.kind # "call" /\ a.kind # "reply"
  BY <1>4 DEF Creates, ExtDelete, ToSelf
<1>5. \A a \in Range(Mail(P)) : ServerMail(P, a, s, dr, di)
  BY DEF ServerCore
<1>6. \A a \in Range(Mail(P)) :
        /\ a.kind = "call" => a.src # r /\ (a.src # Ext => a.dest # r)
        /\ a.kind = "reply" => a.dest # r
  BY <1>2, <1>3, <1>4, <1>5 DEF ServerMail
<1> QED
  BY <1>1, <1>6 DEF Unused

\* PCOM_create_object at the server.
LEMMA ServerCreate ==
    ASSUME RelaysInv, NEW P, P = proc["server"], ServerOK(P, sent, dropped, died),
           PCOM_create_object("server")
    PROVE  ServerOK(proc'["server"], sent, dropped, died)
<1> DEFINE s == sent
<1>1. PICK T, m, Q : T = Taken("server") /\ m = Head(P.inq) /\ Q = FindOrCreate(T, m)
  OBVIOUS
<1>2. Delivered(P, T, m, s, dropped, died) /\ proc'["server"] = Q /\ m.kind = "create" /\ IsRelay(P, m.dest)
  BY <1>1, DeliveredIs DEF PCOM_create_object, Delivers, RelaysInv, Procs
<1>3. PICK r : r = m.dest
  OBVIOUS
<1>4. /\ m.iid = "COM" /\ Tied(P, r) /\ Fresh(P, r) /\ HasExt(P) /\ r \in P.extlinks /\ r \in Oids
  <2>1. ServerCore(P, s, dropped, died) /\ Creates(P, m)
    BY <1>2 DEF Delivered, ServerMail, ExtCall, ToObject, FromObject, ExtDelete, ToSelf
  <2> QED
    BY <1>2, <1>3, <2>1, RelayHasExt DEF Creates, Tied
<1>5. Alike(P, T) /\ Good("server", T, DOMAIN s) /\ ServerCore(T, s, dropped, died) /\ ServerRelays(T, dropped)
  BY <1>2 DEF Delivered, ServerCore
<1>6. /\ Same(T, Q, {"relay"}) /\ DOMAIN Q.relay = DOMAIN T.relay \cup {r}
      /\ \A o \in DOMAIN T.relay : Q.relay[o] = T.relay[o]
      /\ r \notin DOMAIN T.relay =>
            /\ Q.relay[r].localp = NoOid /\ ~Q.relay[r].serves /\ ~Q.relay[r].unused
            /\ Q.relay[r].pExtern <=> HasExt(T) /\ \E c \in T.conns : c.oid = r
  <2>1. Q = FindOrCreate(T, m)
    BY <1>1
  <2>2. Good("server", T, DOMAIN s) /\ m.iid = "COM"
    BY <1>4, <1>5
  <2> HIDE DEF s
  <2> QED
    BY <1>3, <2>1, <2>2, CreatedIs
<1>7. r \in DOMAIN T.relay => ~Q.relay[r].pExtern
  BY <1>4, <1>5, <1>6 DEF Fresh, Alike
<1>8. ServerRelay(Q, r, dropped)
  <2>1. Q.conns = T.conns /\ Q.extlinks = P.extlinks
    BY <1>5, <1>6 DEF Same, Field, Alike
  <2>2. CASE r \in DOMAIN T.relay
    <3>1. DOMAIN Q.relay = DOMAIN T.relay
      BY <1>6, <2>2
    <3>2. ServerRelay(T, r, dropped)
      BY <1>5, <2>2 DEF ServerRelays
    <3> QED
      BY <1>5, <1>6, <2>1, <2>2, <3>1, <3>2 DEF ServerRelay, Of, Alike
  <2>3. CASE r \notin DOMAIN T.relay
    BY <1>4, <1>6, <2>1, <2>3 DEF ServerRelay
  <2> QED
    BY <2>2, <2>3
<1>9. Unused(T, r)
  <2>1. ASSUME NEW a \in Range(Mail(T))
        PROVE  /\ a.kind = "create" => a.dest # r
               /\ ToObject(T, a, s, dropped \cup died) => a.src # r /\ a.dest # r
               /\ FromObject(T, a, s) => a.dest # r
    <3>1. Apart(m, a)
      BY <1>2, <2>1 DEF Delivered
    <3>2. a.kind = "create" => a.dest # r
      BY <1>3, <3>1 DEF Apart
    <3>3. r \in Waiting(P) /\ ServerMail(P, a, s, dropped, died)
      BY <1>2, <1>3, <2>1 DEF Waiting, Delivered, ServerCore
    <3>4. ToObject(P, a, s, dropped \cup died) => a.src # r
      BY <3>3 DEF ToObject, Through
    <3>5. a.kind = "call" /\ a.src # Ext => a.dest # r
      BY <1>3, <3>1 DEF Apart
    <3>6. FromObject(P, a, s) => a.dest # r
      BY <3>3 DEF FromObject, Through
    <3>7. a.kind = "call" /\ a.src # Ext => ToObject(P, a, s, dropped \cup died)
      BY <3>3 DEF ServerMail, Creates, ExtCall, FromObject, ExtDelete, ToSelf
    <3>8. a.kind = "reply" => FromObject(P, a, s)
      BY <3>3 DEF ServerMail, Creates, ExtCall, ToObject, ExtDelete, ToSelf
    <3>9. ToObject(T, a, s, dropped \cup died) => a.kind = "call" /\ a.src # Ext
      BY OidFacts DEF ToObject, Through, Tied
    <3>10. FromObject(T, a, s) => a.kind = "reply"
      BY DEF FromObject
    <3> QED
      BY <3>2, <3>4, <3>5, <3>6, <3>7, <3>8, <3>9, <3>10
  <2>2. Clear(T, s, dropped \cup died, r)
    BY <2>1 DEF Clear
  <2> QED
    BY <1>4, <1>5, <2>2, NotThrough
<1>10. ServerCore(Q, s, dropped, died)
  <2>1. HasExt(T)
    BY <1>4, <1>5 DEF Alike
  <2>2. r \in DOMAIN T.relay /\ T.relay[r].pExtern => FALSE
    BY <1>6, <1>7
  <2>3. Rerouted(T, Q, r, dropped)
    BY <1>4, <1>6, <1>8, <1>9, <2>1, <2>2 DEF Rerouted
  <2> QED
    BY <1>5, <2>3, CoreRelay
<1>11. Awaits(Q)
  <2>1. Mail(Q) = Mail(T)
    BY <1>6 DEF Same, Field, Mail
  <2>2. Mail(T) # <<>> /\ First(Head(Mail(T)), r)
    BY <1>2, <1>3 DEF Delivered
  <2>3. ASSUME NEW x \in DOMAIN P.relay, P.relay[x].pExtern, P.relay[x].localp = NoOid PROVE FALSE
    BY <1>2, <2>3 DEF Delivered, First
  <2>4. \A x \in DOMAIN Q.relay : x # r => x \in DOMAIN P.relay /\ Q.relay[x] = P.relay[x]
    BY <1>5, <1>6 DEF Alike
  <2> QED
    BY <2>1, <2>2, <2>3, <2>4 DEF Awaits
<1> QED
  BY <1>2, <1>10, <1>11 DEF ServerOK

\* COMRelay_COM_delete at the server.
LEMMA ServerDelete ==
    ASSUME RelaysInv, NEW P, P = proc["server"], ServerOK(P, sent, dropped, died),
           COMRelay_COM_delete("server")
    PROVE  ServerOK(proc'["server"], sent, dropped, died)
<1> DEFINE s == sent
<1>1. PICK T, m, F, Q : /\ T = Taken("server") /\ m = Head(P.inq) /\ F = FindOrCreate(T, m)
                        /\ Q = [F EXCEPT !.relay[m.dest] = Deleted(@)]
  OBVIOUS
<1>2. Delivered(P, T, m, s, dropped, died) /\ proc'["server"] = Q /\ m.kind = "delete" /\ IsRelay(P, m.dest)
  <2>1. Delivers("server") /\ m.kind = "delete" /\ IsRelay(P, m.dest)
    BY <1>1 DEF COMRelay_COM_delete
  <2>2. Delivered(P, T, m, s, dropped, died)
    BY <1>1, <2>1, DeliveredIs
  <2>3. proc' = [proc EXCEPT !["server"] = Q]
    BY <1>1 DEF COMRelay_COM_delete
  <2> QED
    BY <2>1, <2>2, <2>3 DEF RelaysInv, Procs
<1>3. PICK r : r = m.dest
  OBVIOUS
<1>4. /\ m.iid = "COM" /\ Of(P, r, dropped) /\ HasExt(P) /\ r \in P.extlinks /\ r \in Oids
  <2>1. ServerCore(P, s, dropped, died) /\ ExtDelete(P, m, dropped)
    BY <1>2 DEF Delivered, ServerMail, ExtCall, ToObject, FromObject, Creates, ToSelf
  <2> QED
    BY <1>2, <1>3, <2>1, RelayHasExt DEF ExtDelete, Tied
<1>5. Alike(P, T) /\ Good("server", T, DOMAIN s) /\ ServerCore(T, s, dropped, died) /\ ServerRelays(T, dropped)
  BY <1>2 DEF Delivered, ServerCore
<1>6. /\ Same(T, F, {"relay"}) /\ DOMAIN F.relay = DOMAIN T.relay \cup {r}
      /\ \A o \in DOMAIN T.relay : F.relay[o] = T.relay[o]
      /\ r \notin DOMAIN T.relay => F.relay[r].localp = NoOid /\ ~F.relay[r].serves
  <2>1. F = FindOrCreate(T, m)
    BY <1>1
  <2>2. Good("server", T, DOMAIN s) /\ m.iid = "COM"
    BY <1>4, <1>5
  <2> HIDE DEF s
  <2> QED
    BY <1>3, <2>1, <2>2, CreatedIs
<1>7. Good("server", F, DOMAIN s)
  <2>1. m \in Message(DOMAIN s) /\ F = FindOrCreate(T, m)
    BY <1>1, <1>2, Zenon DEF Delivered
  <2>2. m.dest \in Oids /\ Good("server", T, DOMAIN s)
    BY <1>3, <1>4, <1>5
  <2> HIDE DEF s
  <2> QED
    BY <2>1, <2>2, FindOrCreateGood
<1>8. /\ Same(F, Q, {"relay"}) /\ DOMAIN Q.relay = DOMAIN F.relay
      /\ \A x \in DOMAIN F.relay : x # r => Q.relay[x] = F.relay[x]
      /\ ~Q.relay[r].pExtern /\ Q.relay[r].serves = F.relay[r].serves
      /\ Q.relay[r].localp = F.relay[r].localp
  <2>1. F.relay[r] \in Relay
    BY <1>6, <1>7 DEF Good, IsProcess
  <2>2. /\ Deleted(F.relay[r]).pExtern = FALSE
        /\ Deleted(F.relay[r]).serves = F.relay[r].serves
        /\ Deleted(F.relay[r]).localp = F.relay[r].localp
    BY <2>1 DEF Deleted, Relay
  <2>3. DOMAIN F = Field /\ r \in DOMAIN F.relay
    BY <1>6, <1>7 DEF Good
  <2>4. DOMAIN Q = Field /\ Q.relay = [F.relay EXCEPT ![r] = Deleted(F.relay[r])]
    BY <1>1, <1>3, <2>3 DEF Field
  <2>5. \A f \in Field \ {"relay"} : Q[f] = F[f]
    BY <1>1, <2>3
  <2> QED
    BY <2>2, <2>3, <2>4, <2>5 DEF Same
<1>9. /\ Same(T, Q, {"relay"}) /\ DOMAIN Q.relay = DOMAIN T.relay \cup {r}
      /\ \A x \in DOMAIN T.relay : x # r => Q.relay[x] = T.relay[x]
      /\ r \in DOMAIN T.relay => Q.relay[r].serves = T.relay[r].serves /\ Q.relay[r].localp = T.relay[r].localp
      /\ r \notin DOMAIN T.relay => Q.relay[r].localp = NoOid /\ ~Q.relay[r].serves
  BY <1>6, <1>8 DEF Same
<1>10. ServerRelay(Q, r, dropped)
  <2>1. Q.conns = T.conns /\ Q.extlinks = P.extlinks /\ Of(Q, r, dropped)
    BY <1>4, <1>5, <1>9 DEF Same, Field, Alike, Of
  <2>2. CASE r \in DOMAIN T.relay /\ Q.relay[r].serves
    <3>1. DOMAIN Q.relay = DOMAIN T.relay
      BY <1>9, <2>2
    <3>2. ServerRelay(T, r, dropped)
      BY <1>5, <2>2 DEF ServerRelays
    <3>3. T.relay[r].serves
      BY <1>9, <2>2
    <3>4. Q.relay[r].localp = T.relay[r].localp /\ T.relay[r].localp \in Oids \ Q.extlinks
      BY <1>5, <1>9, <2>1, <2>2, <3>2, <3>3 DEF ServerRelay, Alike
    <3>5. \A x \in DOMAIN Q.relay : Q.relay[x].serves /\ Q.relay[x].localp = Q.relay[r].localp => x = r
      BY <1>9, <3>1, <3>2, <3>3, <3>4 DEF ServerRelay
    <3> QED
      BY <1>4, <1>8, <2>1, <3>4, <3>5 DEF ServerRelay
  <2>3. CASE ~Q.relay[r].serves
    BY <1>4, <1>8, <2>1, <2>3 DEF ServerRelay
  <2> QED
    BY <1>9, <2>2, <2>3
<1>11. ServerCore(Q, s, dropped, died)
  <2>1. HasExt(T) /\ Of(T, r, dropped)
    BY <1>4, <1>5 DEF Alike, Of
  <2>2. Rerouted(T, Q, r, dropped)
    BY <1>4, <1>8, <1>9, <1>10, <2>1 DEF Rerouted
  <2> QED
    BY <1>5, <2>2, CoreRelay
<1>12. Awaits(Q)
  <2>1. ASSUME NEW x \in DOMAIN P.relay, P.relay[x].pExtern, P.relay[x].localp = NoOid PROVE FALSE
    BY <1>2, <2>1 DEF Delivered, First
  <2>2. \A x \in DOMAIN Q.relay : x # r => x \in DOMAIN P.relay /\ Q.relay[x] = P.relay[x]
    BY <1>5, <1>9 DEF Alike
  <2> QED
    BY <1>8, <2>1, <2>2 DEF Awaits
<1> QED
  BY <1>2, <1>11, <1>12 DEF ServerOK

\* The relay that a call or reply of the server meets.
LEMMA ServerMet ==
    ASSUME NEW P, NEW T, NEW m, NEW s, NEW dr, NEW di, Delivered(P, T, m, s, dr, di),
           IsRelay(P, m.dest), Passes(P, m, s, dr \cup di), NEW R, NEW r, Met("server", T, m, R, r)
    PROVE  Ready(P, T, m, s, dr, di, R, r)
<1>1. PICK o : o = m.dest
  OBVIOUS
<1>2. /\ Alike(P, T) /\ Good("server", T, DOMAIN s) /\ ServerCore(T, s, dr, di) /\ ServerRelays(T, dr)
      /\ ServerCore(P, s, dr, di)
  BY DEF Delivered, ServerCore
<1>3. HasExt(P) /\ HasExt(T) /\ o \in Oids
  BY <1>1, <1>2, RelayHasExt DEF Alike
<1>4. /\ Same(T, R, {"relay"}) /\ DOMAIN R.relay = DOMAIN T.relay \cup {o}
      /\ \A x \in DOMAIN T.relay : x # o => R.relay[x] = T.relay[x]
      /\ R.relay[o] = r
  BY <1>1 DEF Met
<1>5. R.conns = T.conns /\ R.extlinks = T.extlinks /\ HasExt(R) /\ Mail(R) = Mail(T)
  BY <1>3, <1>4 DEF Same, Field, HasExt, Mail
<1>6. \A x \in DOMAIN T.relay : T.relay[x].pExtern /\ T.relay[x].localp = NoOid => x = o /\ First(m, o)
  BY <1>1, <1>2 DEF Delivered, Alike, First
<1>7. CASE KnownRelay(T, m, r)
  <2>1. o \in DOMAIN T.relay /\ r = T.relay[o] /\ r.localp # NoOid /\ ServerRelay(T, o, dr)
    BY <1>1, <1>2, <1>7 DEF KnownRelay, ServerRelays
  <2>2. DOMAIN R.relay = DOMAIN T.relay /\ \A x \in DOMAIN T.relay : R.relay[x] = T.relay[x]
    BY <1>4, <2>1
  <2>3. ServerRelay(R, o, dr)
    BY <1>4, <1>5, <2>1, <2>2 DEF ServerRelay, Of
  <2>4. Rerouted(T, R, o, dr)
    BY <1>3, <1>4, <2>1, <2>3 DEF Rerouted
  <2>5. ServerCore(R, s, dr, di)
    BY <1>2, <2>4, CoreRelay
  <2>6. \A x \in DOMAIN R.relay : R.relay[x].pExtern => R.relay[x].localp # NoOid
    BY <1>6, <2>1, <2>2
  <2>7. ServerOK(R, s, dr, di)
    BY <2>5, <2>6 DEF ServerOK, Awaits
  <2>8. ASSUME r.pExtern PROVE \/ ExtCall(P, m, s, dr \cup di) /\ r.serves
                               \/ FromObject(P, m, s) /\ r.localp = m.src
    <3>1. r.serves /\ ~ToObject(P, m, s, dr \cup di)
      BY <1>1, <1>2, <2>1, <2>8 DEF ServerRelay, ToObject, Fresh, Alike
    <3>2. FromObject(P, m, s) => r.localp = m.src
      BY <1>1, <1>2, <2>1, <2>8 DEF FromObject, Through, Alike
    <3> QED
      BY <3>1, <3>2 DEF Passes
  <2> QED
    BY <1>1, <1>2, <1>3, <1>4, <1>5, <2>2, <2>6, <2>7, <2>8 DEF Alike, Ready
<1>8. CASE FirstUsed("server", T, m, r)
  <2>1. /\ o \in DOMAIN T.relay /\ T.relay[o].localp = NoOid /\ r.localp \in Free(T)
        /\ r.serves = IsExported("server", m.iid)
        /\ r.pExtern = T.relay[o].pExtern /\ r.unused = T.relay[o].unused /\ ServerRelay(T, o, dr)
    BY <1>1, <1>2, <1>8 DEF FirstUsed, ServerRelays
  <2>2. DOMAIN R.relay = DOMAIN T.relay
    BY <1>4, <2>1
  <2>3. /\ r.localp \in Oids \ T.extlinks /\ r.localp # NoOid
        /\ \A x \in DOMAIN T.relay : T.relay[x].localp # r.localp
    BY <2>1, OidFacts DEF Free, Linked
  <2>4. r.pExtern => First(m, o) /\ r.serves
    BY <1>6, <2>1 DEF First
  <2>5. ServerRelay(R, o, dr)
    <3>1. \A x \in DOMAIN R.relay : R.relay[x].localp = r.localp => x = o
      BY <1>4, <2>2, <2>3
    <3>2. Of(T, o, dr) => Of(R, o, dr)
      BY <1>5 DEF Of
    <3> QED
      BY <1>4, <1>5, <2>1, <2>3, <2>4, <3>1, <3>2 DEF ServerRelay
  <2>6. ASSUME T.relay[o].pExtern PROVE Unused(T, o)
    <3>1. ASSUME NEW a \in Range(Mail(T))
          PROVE  /\ a.kind = "create" => a.dest # o
                 /\ ToObject(T, a, s, dr \cup di) => a.src # o /\ a.dest # o
                 /\ FromObject(T, a, s) => a.dest # o
      <4>1. ServerMail(T, a, s, dr, di)
        BY <1>2 DEF ServerCore
      <4>2. a.kind = "create" => Creates(T, a)
        BY <4>1 DEF ServerMail, ExtCall, ToObject, FromObject, ExtDelete, ToSelf
      <4>3. ~Fresh(T, o)
        BY <2>1, <2>6 DEF Fresh
      <4>4. \A x : ~Through(T, o, x)
        BY <2>1, <2>6, OidFacts DEF Through
      <4> QED
        BY <4>2, <4>3, <4>4 DEF Creates, ToObject, FromObject
    <3>2. Clear(T, s, dr \cup di, o)
      BY <3>1 DEF Clear
    <3> QED
      BY <1>2, <1>3, <3>2, NotThrough
  <2>7. ~T.relay[o].serves
    BY <2>1, OidFacts DEF ServerRelay
  <2>8. Rerouted(T, R, o, dr)
    BY <1>3, <1>4, <2>1, <2>5, <2>6, <2>7 DEF Rerouted
  <2>9. ServerCore(R, s, dr, di)
    BY <1>2, <2>8, CoreRelay
  <2>10. \A x \in DOMAIN R.relay : R.relay[x].pExtern => R.relay[x].localp # NoOid
    BY <1>4, <1>6, <2>2, <2>3
  <2>11. ServerOK(R, s, dr, di)
    BY <2>9, <2>10 DEF ServerOK, Awaits
  <2>12. ASSUME r.pExtern PROVE ExtCall(P, m, s, dr \cup di)
    <3>1. m.kind = "call" /\ m.src = Ext
      BY <2>4, <2>12 DEF First
    <3> QED
      BY <3>1, OidFacts DEF Passes, ToObject, FromObject, Through, Tied
  <2> QED
    BY <1>1, <1>2, <1>3, <1>4, <1>5, <2>4, <2>10, <2>11, <2>12 DEF Alike, Ready
<1>9. CASE NewRelay(T, m, r)
  <2>1. o \notin DOMAIN T.relay /\ r.localp = m.src /\ ~r.serves /\ ~r.unused /\ ~r.pExtern
    <3>1. T.interfaces = {}
      BY <1>2 DEF ServerRelays, ServerIdle
    <3> QED
      BY <1>1, <1>9, <3>1 DEF NewRelay
  <2>2. m.src # NoOid
    BY OidFacts DEF Passes, ExtCall, ToObject, FromObject, Through, Tied, Ext, NoOid
  <2>3. ServerRelay(R, o, dr)
    BY <1>4, <2>1, <2>2 DEF ServerRelay
  <2>4. Rerouted(T, R, o, dr)
    BY <1>3, <1>4, <2>1, <2>3 DEF Rerouted
  <2>5. ServerCore(R, s, dr, di)
    BY <1>2, <2>4, CoreRelay
  <2>6. \A x \in DOMAIN R.relay : R.relay[x].pExtern => R.relay[x].localp # NoOid
    BY <1>4, <1>6, <2>1
  <2>7. ServerOK(R, s, dr, di)
    BY <2>5, <2>6 DEF ServerOK, Awaits
  <2> QED
    BY <1>1, <1>2, <1>3, <1>4, <1>5, <2>1, <2>6, <2>7 DEF Alike, Ready
<1> QED
  BY <1>7, <1>8, <1>9 DEF Met

\* A call goes on to the object.
LEMMA ServerPasses ==
    ASSUME NEW P, NEW T, NEW m, NEW s, NEW dr, NEW di, Delivered(P, T, m, s, dr, di),
           IsRelay(P, m.dest), Passes(P, m, s, dr \cup di), NEW R, NEW r, Met("server", T, m, R, r),
           NEW Q, Passed(R, r, m, Q)
    PROVE  ServerOK(Q, s, dr, di)
<1>1. /\ ServerOK(R, s, dr, di) /\ HasExt(R) /\ m.dest \in Oids /\ Mail(R) = Mail(T)
      /\ R.conns = P.conns /\ R.extlinks = P.extlinks /\ r = R.relay[m.dest] /\ m.dest \in DOMAIN R.relay
      /\ r.pExtern => \/ ExtCall(P, m, s, dr \cup di) /\ r.serves
                      \/ FromObject(P, m, s) /\ r.localp = m.src
  <2>1. Ready(P, T, m, s, dr, di, R, r)
    BY ServerMet
  <2> QED
    BY <2>1 DEF Ready
<1>2. PICK o, l : o = m.dest /\ l = r.localp
  OBVIOUS
<1>3. /\ r.pExtern /\ ExtCall(P, m, s, dr \cup di) /\ r.serves
      /\ Same(R, Q, {"outq"}) /\ Q.outq = Append(R.outq, Msg(o, l, m.kind, m.iid, m.n))
  BY <1>1, <1>2 DEF Passed
<1>4. ServerCore(R, s, dr, di) /\ ServerRelays(R, dr) /\ ServerRelay(R, o, dr)
  BY <1>1, <1>2 DEF ServerOK, ServerCore, ServerRelays
<1>5. l \in Oids \ R.extlinks /\ \E d \in R.conns : d.oid = o
  BY <1>1, <1>2, <1>3, <1>4 DEF ServerRelay
<1>6. PICK f : f = Msg(o, l, m.kind, m.iid, m.n)
  OBVIOUS
<1>7. /\ f.src = o /\ f.dest = l /\ f.kind = "call" /\ f.iid = m.iid /\ f.n = m.n
  BY <1>3, <1>6 DEF Msg, ExtCall
<1>8. Alike(R, Q) /\ Q.out = R.out
  BY <1>3 DEF Alike, Same, Field, HasExt
<1>9. Mail(R) \in Seq(Message(DOMAIN s)) /\ Mail(Q) = Append(Mail(R), f)
  <2>1. R.inq \in Seq(Message(DOMAIN s)) /\ R.outq \in Seq(Message(DOMAIN s))
    BY DEF Met, Delivered, Same, Field, Good
  <2>2. f \in Message(DOMAIN s)
    <3>1. m \in Message(DOMAIN s)
      BY DEF Delivered
    <3> QED
      BY <1>1, <1>2, <1>3, <1>5, <1>6, <3>1, OidFacts DEF Msg, Message, Queued, ExtCall
  <2>3. Q.inq = R.inq
    BY <1>3 DEF Same, Field
  <2>4. Puts(Message(DOMAIN s), R, f, Q)
    BY <1>3, <1>6, <2>1, <2>2, <2>3 DEF Puts
  <2>5. Mail(Q) = Append(Mail(R), f)
    BY <2>4, MailPosted
  <2> QED
    BY <2>1, <2>5, MailIs
<1>10. o \notin Waiting(Q)
  <2>1. ASSUME NEW a \in Range(Mail(R)), a.kind = "create", a.dest = o PROVE FALSE
    <3>1. ServerMail(R, a, s, dr, di)
      BY <1>4 DEF ServerCore
    <3>2. Creates(R, a)
      BY <2>1, <3>1 DEF ServerMail, ExtCall, ToObject, FromObject, ExtDelete, ToSelf
    <3> QED
      BY <1>1, <1>2, <1>3, <2>1, <3>2 DEF Creates, Fresh
  <2>2. Range(Mail(Q)) = Range(Mail(R)) \cup {f}
    BY <1>9, RangeAppend
  <2> QED
    BY <1>7, <2>1, <2>2 DEF Waiting
<1>11. ServerMail(Q, f, s, dr, di)
  <2>1. Tied(Q, o)
    <3>1. HasExt(P) /\ o \in Oids /\ (HasExt(P) => o \in P.extlinks)
      BY <1>1, <1>2, <1>3 DEF Tied, ExtCall, Met, Same, Field, Delivered, Alike, HasExt
    <3> QED
      BY <1>1, <1>8, <3>1 DEF Tied, Alike
  <2>2. Through(Q, o, l)
    BY <1>1, <1>2, <1>5, <1>8, <1>10, <2>1 DEF Through, Alike
  <2>3. Fresh(Q, l)
    <3>1. ASSUME l \in DOMAIN R.relay, R.relay[l].pExtern PROVE FALSE
      <4>1. \E d \in R.conns : d.oid = l
        BY <1>4, <3>1 DEF ServerRelays, ServerRelay
      <4>2. \A d \in R.conns : d.oid \in R.extlinks
        <5>1. T.conns = R.conns /\ T.extlinks = R.extlinks /\ ConnsOK("server", T)
          BY DEF Met, Same, Field, Delivered, Good
        <5> QED
          BY <5>1 DEF ConnsOK
      <4> QED
        BY <1>5, <4>1, <4>2
    <3> QED
      BY <1>8, <3>1 DEF Fresh, Alike
  <2>4. Routed(Q, o, m.n, s)
    BY <1>1, <1>2, <1>3, <1>8 DEF ExtCall, Routed, Alike
  <2>5. o \in DOMAIN Q.relay /\ Q.relay[o].pExtern
    BY <1>1, <1>2, <1>3, <1>8 DEF Alike
  <2> QED
    BY <1>3, <1>7, <2>2, <2>3, <2>4, <2>5 DEF ServerMail, ToObject, ExtCall
<1>12. \A a \in Range(Mail(R)) : a.kind = "create" => Apart(a, f)
  <2>1. ASSUME NEW a \in Range(Mail(R)), a.kind = "create" PROVE a.dest # l
    <3>1. ServerMail(R, a, s, dr, di)
      BY <1>4 DEF ServerCore
    <3>2. Creates(R, a)
      BY <2>1, <3>1 DEF ServerMail, ExtCall, ToObject, FromObject, ExtDelete, ToSelf
    <3> QED
      BY <1>1, <1>5, <3>2 DEF Creates, Tied
  <2> QED
    BY <1>7, <2>1 DEF Apart
<1>13. f.kind # "create"
  BY <1>7
<1> QED
  BY <1>1, <1>8, <1>9, <1>11, <1>12, <1>13, CorePosted

\* A reply of the object goes out.
LEMMA ServerSends ==
    ASSUME NEW P, NEW T, NEW m, NEW s, NEW dr, NEW di, Delivered(P, T, m, s, dr, di),
           IsRelay(P, m.dest), Passes(P, m, s, dr \cup di), NEW R, NEW r, Met("server", T, m, R, r),
           NEW Q, SentOut("server", R, r, m, Q)
    PROVE  ServerOK(Q, s, dr, di)
<1>1. /\ ServerOK(R, s, dr, di) /\ HasExt(R) /\ m.dest \in Oids /\ Mail(R) = Mail(T)
      /\ R.conns = P.conns /\ R.extlinks = P.extlinks /\ r = R.relay[m.dest] /\ m.dest \in DOMAIN R.relay
      /\ r.pExtern => \/ ExtCall(P, m, s, dr \cup di) /\ r.serves
                      \/ FromObject(P, m, s) /\ r.localp = m.src
  <2>1. Ready(P, T, m, s, dr, di, R, r)
    BY ServerMet
  <2> QED
    BY <2>1 DEF Ready
<1>2. /\ r.pExtern /\ m.src = r.localp
      /\ Same(R, Q, {"conns", "extlinks", "out"})
  BY DEF SentOut
<1>3. ServerCore(R, s, dr, di) /\ ServerRelays(R, dr) /\ ServerRelay(R, m.dest, dr)
  BY <1>1 DEF ServerOK, ServerCore, ServerRelays
<1>4. FromObject(P, m, s)
  BY <1>1, <1>2, <1>3, OidFacts DEF ExtCall, ServerRelay
<1>5. PICK c : SentBy("server", R, Q, m.dest, m.kind, m.iid, m.n, c)
  BY DEF SentOut
<1>6. c \in R.conns /\ c.oid = m.dest
  BY <1>1, <1>2, <1>3, <1>5 DEF SentBy, Leaves, ServerRelay
<1>7. Q.conns = R.conns /\ Q.extlinks = R.extlinks
  BY <1>4, <1>5, <1>6 DEF SentBy, FromObject
<1>8. Alike(R, Q) /\ Mail(Q) = Mail(R)
  BY <1>2, <1>7 DEF Alike, Same, Field, HasExt, Mail
<1>9. PICK w : w = [extid |-> c.extid, kind |-> m.kind, iid |-> m.iid, n |-> m.n]
  OBVIOUS
<1>10. ServerOut(w, s, di)
  <2>1. PICK o \in Oids : s[m.n] = Proxy(o) /\ c.extid = Key(o)
    BY <1>1, <1>4, <1>6 DEF FromObject, Routed
  <2> QED
    BY <1>4, <1>9, <2>1 DEF ServerOut, FromObject, Routed
<1>11. \A v \in Range(Q.out) : v \in Range(R.out) \/ ServerOut(v, s, di)
  <2>1. Q.out = IF R.ext = "open" THEN Append(R.out, w) ELSE R.out
    BY <1>5, <1>9 DEF SentBy
  <2>2. R.out \in Seq(Written)
    BY DEF Met, Delivered, Same, Field, Good, IsProcess
  <2>3. Range(Append(R.out, w)) = Range(R.out) \cup {w}
    BY <2>2, RangeAppend
  <2> QED
    BY <1>10, <2>1, <2>3
<1>12. ServerCore(Q, s, dr, di)
  <2>1. Paired(Mail(Q)) /\ Waiting(Q) \subseteq Waiting(R)
    BY <1>3, <1>8 DEF ServerCore, Waiting
  <2> QED
    BY <1>3, <1>8, <1>11, <2>1, CoreMail
<1>13. Awaits(Q)
  BY <1>1, <1>8 DEF ServerOK, Awaits, Alike
<1> QED
  BY <1>12, <1>13 DEF ServerOK

\* COMRelay_COM_message at the server.
LEMMA ServerMessage ==
    ASSUME RelaysInv, NEW P, P = proc["server"], ServerOK(P, sent, dropped, died),
           COMRelay_COM_message("server")
    PROVE  ServerOK(proc'["server"], sent, dropped, died)
<1>0. "server" \in Procs
  BY DEF Procs
<1>1. PICK T, m : T = Taken("server") /\ m = Head(P.inq)
  OBVIOUS
<1>2. Delivered(P, T, m, sent, dropped, died) /\ IsRelay(P, m.dest) /\ m.kind \in {"call", "reply"}
  BY <1>1, DeliveredIs DEF COMRelay_COM_message
<1>3. Passes(P, m, sent, dropped \cup died)
  BY <1>2 DEF Delivered, ServerMail, Creates, ExtDelete, ToSelf, Passes
<1>4. m.iid # "COM"
  BY <1>3, IfaceFacts DEF Passes, ExtCall, ToObject, FromObject
<1>5. PICK R, r, Q : Relayed("server", m, R, r, Q) /\ proc' = [proc EXCEPT !["server"] = Q]
  BY <1>0, <1>1, <1>4, MessageIs
<1>6. proc'["server"] = Q
  BY <1>0, <1>5 DEF RelaysInv
<1>7. Met("server", T, m, R, r)
  BY <1>1, <1>5 DEF Relayed
<1>8. CASE IsLost(R, r, Q)
  <2>1. Ready(P, T, m, sent, dropped, died, R, r)
    BY <1>2, <1>3, <1>7, ServerMet
  <2> QED
    BY <1>6, <1>8, <2>1 DEF IsLost, Ready
<1>9. CASE Passed(R, r, m, Q)
  BY <1>2, <1>3, <1>6, <1>7, <1>9, ServerPasses
<1>10. CASE SentOut("server", R, r, m, Q)
  BY <1>2, <1>3, <1>6, <1>7, <1>10, ServerSends
<1> QED
  BY <1>5, <1>8, <1>9, <1>10 DEF Relayed

-----------------------------------------------------------------------------
(* The objects of the server *)

\* Objects change.
LEMMA CoreObjects ==
    ASSUME NEW P, NEW Q, NEW s, NEW dr, NEW di, NEW ei, di \subseteq ei,
           ServerCore(P, s, dr, di), HasExt(P), Same(P, Q, {"objects"}),
           \A x \in DOMAIN Q.objects : Serving(Q, x, s, dr, ei)
    PROVE  ServerCore(Q, s, dr, ei)
<1>1. /\ Q.conns = P.conns /\ Q.relay = P.relay /\ Q.applinks = P.applinks /\ Mail(Q) = Mail(P)
      /\ Q.interfaces = P.interfaces /\ Q.extlinks = P.extlinks /\ HasExt(Q) /\ Q.out = P.out
  BY DEF Same, Field, HasExt, Mail
<1>2. ServerCore(P, s, dr, ei)
  BY CoreGrows
<1>3. ServerRelays(Q, dr)
  <2>1. ServerRelays(P, dr)
    BY DEF ServerCore
  <2>2. \A r \in DOMAIN Q.relay : ServerRelay(Q, r, dr)
    BY <1>1, <2>1 DEF ServerRelays, ServerRelay, Of
  <2> QED
    BY <1>1, <2>1, <2>2 DEF ServerRelays, ServerIdle
<1>4. ASSUME NEW m \in Range(Mail(P)) PROVE ServerMail(Q, m, s, dr, ei)
  <2>1. ServerMail(P, m, s, dr, ei)
    BY <1>2 DEF ServerCore
  <2>2. Waiting(Q) = Waiting(P)
    BY <1>1 DEF Waiting
  <2>3. \A r : Tied(P, r) => Tied(Q, r)
    BY <1>1 DEF Tied
  <2>4. \A r : Fresh(P, r) => Fresh(Q, r)
    BY <1>1 DEF Fresh
  <2>5. \A r, n : Routed(P, r, n, s) => Routed(Q, r, n, s)
    BY <1>1 DEF Routed
  <2>6. \A r, x : Through(P, r, x) => Through(Q, r, x)
    BY <1>1, <2>2, <2>3 DEF Through
  <2>7. \A r : Of(P, r, dr) => Of(Q, r, dr)
    BY <1>1 DEF Of
  <2>8. ExtCall(P, m, s, dr \cup ei) => ExtCall(Q, m, s, dr \cup ei)
    BY <1>1, <2>3, <2>5 DEF ExtCall
  <2>9. ToObject(P, m, s, dr \cup ei) => ToObject(Q, m, s, dr \cup ei)
    BY <1>1, <2>4, <2>5, <2>6 DEF ToObject
  <2> QED
    BY <2>1, <2>3, <2>4, <2>5, <2>6, <2>7, <2>8, <2>9 DEF ServerMail, Creates, FromObject, ExtDelete
<1> QED
  BY <1>1, <1>2, <1>3, <1>4 DEF ServerCore

\* ObjectCalled gives the call to the object.
LEMMA TakesIs ==
    ASSUME NEW P, NEW D, Good("server", P, D), NEW x, NEW n, NEW N,
           N = [P EXCEPT !.objects = With(@, x, Calling(P, x, n))]
    PROVE  Takes(P, N, x, n)
<1>1. PICK old, c : /\ old = IF x \in DOMAIN P.objects THEN P.objects[x] ELSE [calls |-> <<>>, unused |-> FALSE]
                    /\ c = [old EXCEPT !.calls = Append(@, n)]
  OBVIOUS
<1>2. c = Calling(P, x, n)
  BY <1>1 DEF Calling
<1>3. Same(P, N, {"objects"}) /\ N.objects = With(P.objects, x, c)
  BY <1>2 DEF Same, Field, Good
<1>4. /\ DOMAIN N.objects = DOMAIN P.objects \cup {x}
      /\ \A y \in DOMAIN N.objects : N.objects[y] = IF y = x THEN c ELSE P.objects[y]
  BY <1>3 DEF With
<1>5. DOMAIN old = {"calls", "unused"} /\ old.calls \in Seq(Nat)
      /\ (x \notin DOMAIN P.objects => old.unused = FALSE /\ old.calls = <<>>)
  BY <1>1 DEF Good, IsProcess, Object
<1>6. c.unused = old.unused /\ c.calls = Append(old.calls, n)
  BY <1>1, <1>5
<1>7. Range(c.calls) = Range(old.calls) \cup {n}
  BY <1>5, <1>6, RangeAppend
<1>8. Range(<<>>) = {}
  BY DEF Range
<1>9. N.objects[x].unused => x \in DOMAIN P.objects /\ P.objects[x].unused
  BY <1>1, <1>4, <1>5, <1>6
<1>10. \A k \in Range(N.objects[x].calls) :
            k = n \/ (x \in DOMAIN P.objects /\ k \in Range(P.objects[x].calls))
  BY <1>1, <1>4, <1>5, <1>7, <1>8
<1> QED
  BY <1>3, <1>4, <1>9, <1>10 DEF Takes

\* The call that an object takes came through its relay.
LEMMA ServerTakes ==
    ASSUME NEW P, NEW T, NEW m, NEW s, NEW dr, NEW di, Delivered(P, T, m, s, dr, di),
           Servers(P, m.dest) # {}, m.kind = "call", NEW N, Takes(T, N, m.dest, m.n)
    PROVE  /\ ServerOK(N, s, dr, di) /\ Mail(N) = Mail(T) /\ HasExt(N)
           /\ Through(N, m.src, m.dest) /\ Routed(N, m.src, m.n, s) /\ N.out = T.out
<1>1. PICK x : x = m.dest
  OBVIOUS
<1>2. /\ Alike(P, T) /\ Good("server", T, DOMAIN s) /\ ServerCore(T, s, dr, di) /\ ServerRelays(T, dr)
      /\ ServerCore(P, s, dr, di) /\ ServerMail(P, m, s, dr, di)
      /\ Range(Mail(P)) = {m} \cup Range(Mail(T))
  BY DEF Delivered, ServerCore
<1>3. HasExt(T) /\ HasExt(P) /\ Servers(T, x) # {} /\ x \notin P.extlinks
  <2>1. HasExt(P)
    BY <1>1, <1>2, RelayHasExt
  <2>2. Servers(T, x) = Servers(P, x) /\ T.extlinks = P.extlinks
    BY <1>2 DEF Servers, Alike
  <2>3. PICK r \in DOMAIN T.relay : T.relay[r].serves /\ T.relay[r].localp = x
    BY <1>1, <2>2 DEF Servers
  <2>4. x \notin T.extlinks
    BY <1>2, <2>3 DEF ServerRelays, ServerRelay
  <2> QED
    BY <1>1, <1>2, <2>1, <2>2, <2>4 DEF Alike
<1>4. ToObject(P, m, s, dr \cup di)
  BY <1>1, <1>2, <1>3 DEF ServerMail, Creates, ExtCall, FromObject, ExtDelete, ToSelf, Tied
<1>5. /\ N.conns = T.conns /\ N.relay = T.relay /\ Mail(N) = Mail(T) /\ HasExt(N)
      /\ N.extlinks = T.extlinks /\ N.out = T.out
  BY <1>3 DEF Takes, Same, Field, HasExt, Mail
<1>6. Routed(N, m.src, m.n, s) /\ Through(N, m.src, x)
  <2>1. Waiting(N) \subseteq Waiting(P)
    BY <1>2, <1>5 DEF Waiting
  <2>2. Routed(P, m.src, m.n, s) /\ Through(P, m.src, x)
    BY <1>1, <1>4 DEF ToObject
  <2>3. Routed(N, m.src, m.n, s)
    BY <1>2, <1>5, <2>2 DEF Routed, Alike
  <2>4. Tied(N, m.src)
    BY <1>2, <1>3, <1>5, <2>2 DEF Tied, Alike, Through
  <2> QED
    BY <1>2, <1>5, <2>1, <2>2, <2>3, <2>4 DEF Through, Alike
<1>7. /\ DOMAIN N.objects = DOMAIN T.objects \cup {x}
      /\ \A y \in DOMAIN T.objects : y # x => N.objects[y] = T.objects[y]
      /\ N.objects[x].unused => x \in DOMAIN T.objects /\ T.objects[x].unused
      /\ \A k \in Range(N.objects[x].calls) :
            k = m.n \/ (x \in DOMAIN T.objects /\ k \in Range(T.objects[x].calls))
  BY <1>1 DEF Takes
<1>8. \A y : Servers(N, y) = Servers(T, y)
  BY <1>5 DEF Servers
<1>9. \A r : Of(T, r, di) => Of(N, r, di)
  BY <1>5 DEF Of
<1>10. \A y \in DOMAIN T.objects : Serving(T, y, s, dr, di)
  BY <1>2 DEF ServerCore
<1>11. ASSUME s[m.n] \notin dr \cup di
       PROVE  \E r \in Servers(N, x), o \in Oids : s[m.n] = Proxy(o) /\ [oid |-> r, extid |-> Key(o)] \in N.conns
  <2>1. PICK r : r = m.src
    OBVIOUS
  <2>2. r \in DOMAIN T.relay /\ T.relay[r].pExtern
    BY <1>2, <1>3, <1>4, <1>11, <2>1 DEF ToObject, Alike
  <2>3. T.relay[r].localp = x /\ x \in Oids
    BY <1>5, <1>6, <2>1, <2>2 DEF Through
  <2>4. T.relay[r].serves
    BY <1>2, <2>2, <2>3, OidFacts DEF ServerRelays, ServerRelay
  <2>5. r \in Servers(N, x)
    BY <1>5, <2>2, <2>3, <2>4 DEF Servers
  <2>6. PICK d \in N.conns : d.oid = r
    BY <1>2, <1>5, <2>2 DEF ServerRelays, ServerRelay
  <2>7. PICK o \in Oids : s[m.n] = Proxy(o) /\ d.extid = Key(o)
    BY <1>6, <2>1, <2>6 DEF Routed
  <2>8. d \in [oid : 0 .. MaxOid, extid : Nat]
    BY <1>2, <1>5, <2>6 DEF Good, IsProcess
  <2>9. d = [oid |-> r, extid |-> Key(o)]
    BY <2>6, <2>7, <2>8
  <2> QED
    BY <2>5, <2>6, <2>7, <2>9
<1>12. ASSUME NEW y \in DOMAIN N.objects PROVE Serving(N, y, s, dr, di)
  <2>1. CASE y # x
    <3>1. Serving(T, y, s, dr, di) /\ N.objects[y] = T.objects[y]
      BY <1>7, <1>10, <2>1
    <3> QED
      BY <1>5, <1>8, <1>9, <3>1 DEF Serving
  <2>2. CASE y = x
    <3>1. N.objects[x].unused => \A r \in Servers(N, x) : Of(N, r, di)
      BY <1>7, <1>8, <1>9, <1>10 DEF Serving
    <3>2. ASSUME NEW k \in Range(N.objects[x].calls)
          PROVE  k \in DOMAIN s /\ (s[k] \notin dr \cup di =>
            \E r \in Servers(N, x), o \in Oids : s[k] = Proxy(o) /\ [oid |-> r, extid |-> Key(o)] \in N.conns)
      <4>1. CASE k = m.n
        BY <1>6, <1>11, <4>1 DEF Routed
      <4>2. CASE x \in DOMAIN T.objects /\ k \in Range(T.objects[x].calls)
        BY <1>5, <1>8, <1>10, <4>2 DEF Serving
      <4> QED
        BY <1>7, <4>1, <4>2
    <3> QED
      BY <1>3, <1>8, <2>2, <3>1, <3>2 DEF Serving
  <2> QED
    BY <2>1, <2>2
<1>13. ServerCore(N, s, dr, di)
  <2>1. Same(T, N, {"objects"})
    BY DEF Takes
  <2> QED
    BY <1>2, <1>3, <1>12, <2>1, CoreObjects
<1>14. Awaits(N)
  <2>1. m.src # Ext
    BY <1>4, OidFacts DEF ToObject, Through, Tied
  <2>2. \A r \in DOMAIN P.relay : P.relay[r].pExtern /\ P.relay[r].localp = NoOid => First(m, r)
    BY DEF Delivered
  <2> QED
    BY <1>2, <1>5, <2>1, <2>2 DEF Awaits, First, Alike
<1> QED
  BY <1>1, <1>5, <1>6, <1>13, <1>14 DEF ServerOK

\* A call to an object, which may reply.
LEMMA ServerCalled ==
    ASSUME RelaysInv, NEW P, P = proc["server"], ServerOK(P, sent, dropped, died), ObjectCalled("server")
    PROVE  ServerOK(proc'["server"], sent, dropped, died)
<1>0. "server" \in Procs
  BY DEF Procs
<1>1. PICK T, m : T = Taken("server") /\ m = Head(P.inq)
  OBVIOUS
<1>2. Delivered(P, T, m, sent, dropped, died) /\ Servers(P, m.dest) # {} /\ m.kind = "call"
  BY <1>1, DeliveredIs DEF ObjectCalled
<1>3. PICK N :
        /\ N = [T EXCEPT !.objects = With(@, m.dest, Calling(P, m.dest, m.n))]
        /\ \/ proc' = [proc EXCEPT !["server"] = N]
           \/ proc' = [proc EXCEPT !["server"] = Post(N, Msg(m.dest, m.src, "reply", "R", m.n))]
  BY <1>0, <1>1, CalledIs
<1>4. Good("server", T, DOMAIN sent) /\ m \in Message(DOMAIN sent)
  BY <1>2 DEF Delivered
<1>5. Takes(T, N, m.dest, m.n)
  <2>1. Calling(P, m.dest, m.n) = Calling(T, m.dest, m.n)
    BY <1>2 DEF Calling, Delivered, Alike
  <2> QED
    BY <1>3, <1>4, <2>1, TakesIs
<1>6. /\ ServerOK(N, sent, dropped, died) /\ Mail(N) = Mail(T) /\ HasExt(N)
      /\ Through(N, m.src, m.dest) /\ Routed(N, m.src, m.n, sent)
  BY <1>2, <1>5, ServerTakes
<1>7. PICK f, Q : f = Msg(m.dest, m.src, "reply", "R", m.n) /\ Q = Post(N, f)
  OBVIOUS
<1>8. ServerOK(Q, sent, dropped, died)
  <2>1. DOMAIN N = Field /\ N.inq = T.inq /\ N.outq = T.outq
    BY <1>4, <1>5 DEF Takes, Same, Field
  <2>2. Same(N, Q, {"outq"}) /\ Q.outq = Append(N.outq, f)
    BY <1>7, <2>1, PostIs
  <2>3. /\ f.src = m.dest /\ f.dest = m.src /\ f.kind = "reply" /\ f.iid = "R" /\ f.n = m.n
    BY <1>7 DEF Msg
  <2>4. f \in Message(DOMAIN sent)
    BY <1>4, <1>6, <1>7, OidFacts DEF Msg, Message, Queued, Kinds, Through, Tied
  <2>5. N.inq \in Seq(Message(DOMAIN sent)) /\ N.outq \in Seq(Message(DOMAIN sent)) /\ Q.inq = N.inq
    BY <1>4, <2>1, <2>2 DEF Good, Same, Field
  <2>6. Puts(Message(DOMAIN sent), N, f, Q)
    BY <2>2, <2>4, <2>5 DEF Puts
  <2>7. Mail(Q) = Append(Mail(N), f) /\ Mail(N) \in Seq(Message(DOMAIN sent))
    BY <2>5, <2>6, MailPosted, MailIs
  <2>8. Alike(N, Q) /\ Q.out = N.out
    BY <2>2 DEF Alike, Same, Field, HasExt
  <2>9. Range(Mail(Q)) = Range(Mail(N)) \cup {f}
    BY <2>7, RangeAppend
  <2>10. Waiting(Q) = Waiting(N)
    BY <2>3, <2>9 DEF Waiting
  <2>11. ServerMail(Q, f, sent, dropped, died)
    <3>1. Through(Q, m.src, m.dest)
      BY <1>6, <2>8, <2>10 DEF Through, Tied, Alike
    <3>2. Routed(Q, m.src, m.n, sent)
      BY <1>6, <2>8 DEF Routed, Alike
    <3> QED
      BY <2>3, <3>1, <3>2 DEF ServerMail, FromObject
  <2>12. f.kind # "create" /\ \A a \in Range(Mail(N)) : a.kind = "create" => Apart(a, f)
    BY <2>3 DEF Apart
  <2> QED
    BY <1>6, <2>7, <2>8, <2>11, <2>12, CorePosted
<1>9. proc'["server"] = N \/ proc'["server"] = Q
  BY <1>0, <1>3, <1>7 DEF RelaysInv
<1> QED
  BY <1>6, <1>8, <1>9

-----------------------------------------------------------------------------
(* Objects and relays of the server end *)

\* The proxies whose connection a relay of the object has are its origin.
LEMMA OriginOf ==
    ASSUME NEW P, P = proc["server"], NEW s, NEW dr, NEW di, ServerCore(P, s, dr, di),
           NEW x \in DOMAIN P.objects, NEW r \in Servers(P, x), NEW ei, Origin("server", x) \subseteq ei
    PROVE  Of(P, r, ei)
<1>1. ASSUME NEW d \in P.conns, d.oid = r PROVE \E o \in Oids : Proxy(o) \in ei /\ d.extid = Key(o)
  <2>1. PICK o \in Oids : d.extid = Key(o)
    BY <1>1 DEF ServerCore, ServerRelays
  <2>2. PICK pr : pr = Proxy(o)
    OBVIOUS
  <2>3. pr[1] = "client" /\ pr[2] = o /\ pr \in {Other("server")} \X Oids /\ Other(pr[1]) = "server"
    BY <2>2 DEF Proxy, Other
  <2>4. x \in ServedFor(pr)
    BY <1>1, <2>1, <2>3 DEF ServedFor, Key, NewExtid
  <2>5. pr \in Origin("server", x)
    BY <2>3, <2>4 DEF Origin
  <2> QED
    BY <2>1, <2>2, <2>5
<1> QED
  BY <1>1 DEF Of

\* casycom_mark_unused by an object of the server.
LEMMA ServerDies ==
    ASSUME RelaysInv, NEW P, P = proc["server"], ServerOK(P, sent, dropped, died), ObjectDies("server")
    PROVE  ServerOK(proc'["server"], sent, dropped, died')
<1>1. PICK x \in DOMAIN P.objects :
        /\ proc' = [proc EXCEPT !["server"].objects[x].unused = TRUE]
        /\ died' = died \cup Origin("server", x)
  BY DEF ObjectDies
<1>2. PICK Q, ei : Q = [P EXCEPT !.objects[x].unused = TRUE] /\ ei = died'
  OBVIOUS
<1>3. Good("server", P, DOMAIN sent) /\ proc'["server"] = Q
  BY <1>1, <1>2 DEF RelaysInv, Procs
<1>4. /\ Same(P, Q, {"objects"}) /\ DOMAIN Q.objects = DOMAIN P.objects
      /\ \A y \in DOMAIN P.objects : y # x => Q.objects[y] = P.objects[y]
      /\ Q.objects[x].calls = P.objects[x].calls
  <2>1. P.objects[x] \in Object
    BY <1>3 DEF Good, IsProcess
  <2>2. Same(P, Q, {"objects"}) /\ Q.objects = [P.objects EXCEPT ![x].unused = TRUE]
    BY <1>2, <1>3 DEF Good, Same, Field
  <2> QED
    BY <2>1, <2>2 DEF Object
<1>5. ServerCore(P, sent, dropped, died) /\ Awaits(P) /\ died \subseteq ei /\ Origin("server", x) \subseteq ei
  BY <1>1, <1>2 DEF ServerOK
<1>6. \A y \in DOMAIN P.objects : Serving(P, y, sent, dropped, died)
  BY <1>5 DEF ServerCore
<1>7. HasExt(P)
  BY <1>5 DEF ServerCore, ServerRelays
<1>8. Q.conns = P.conns /\ \A y : Servers(Q, y) = Servers(P, y)
  BY <1>4 DEF Same, Field, Servers
<1>9. ASSUME NEW y \in DOMAIN Q.objects PROVE Serving(Q, y, sent, dropped, ei)
  <2>1. Q.objects[y].calls = P.objects[y].calls
    BY <1>4
  <2>2. ASSUME Q.objects[y].unused, NEW r \in Servers(P, y) PROVE Of(P, r, ei)
    <3>1. CASE y = x
      BY <1>5, <2>2, <3>1, OriginOf
    <3>2. CASE y # x
      BY <1>4, <1>5, <1>6, <2>2, <3>2 DEF Serving, Of
    <3> QED
      BY <3>1, <3>2
  <2>3. Q.objects[y].unused => \A r \in Servers(Q, y) : Of(Q, r, ei)
    BY <1>8, <2>2 DEF Of
  <2>4. Serving(P, y, sent, dropped, died)
    BY <1>4, <1>6
  <2>5. \A n \in Range(Q.objects[y].calls) : n \in DOMAIN sent /\ (sent[n] \notin dropped \cup ei =>
            \E r \in Servers(Q, y), o \in Oids : sent[n] = Proxy(o) /\ [oid |-> r, extid |-> Key(o)] \in Q.conns)
    BY <1>5, <1>8, <2>1, <2>4 DEF Serving
  <2> QED
    BY <1>8, <2>3, <2>4, <2>5 DEF Serving
<1>10. ServerCore(Q, sent, dropped, ei)
  BY <1>4, <1>5, <1>7, <1>9, CoreObjects
<1>11. Awaits(Q)
  BY <1>4, <1>5 DEF Awaits, Same, Field, Mail
<1> QED
  BY <1>2, <1>3, <1>10, <1>11 DEF ServerOK

\* casycom_error in an object of the server.
LEMMA ServerFails ==
    ASSUME RelaysInv, NEW P, P = proc["server"], ServerOK(P, sent, dropped, died), ObjectFails("server")
    PROVE  ServerOK(proc'["server"], sent, dropped, died')
<1>1. PICK x \in DOMAIN P.objects, r \in DOMAIN P.relay :
        /\ r \in Servers(P, x) /\ P.relay[r].pExtern
        /\ proc' = [proc EXCEPT !["server"] = Outgoing("server", @, r, "error", "COM", Last(@.objects[x].calls))]
        /\ died' = died \cup Origin("server", x)
  BY DEF ObjectFails
<1>2. PICK n : n = Last(P.objects[x].calls)
  OBVIOUS
<1>3. PICK Q, ei : Q = Outgoing("server", P, r, "error", "COM", n) /\ ei = died'
  OBVIOUS
<1>4. Good("server", P, DOMAIN sent) /\ proc'["server"] = Q
  BY <1>1, <1>2, <1>3 DEF RelaysInv, Procs
<1>5. PICK c : SentBy("server", P, Q, r, "error", "COM", n, c) /\ Same(P, Q, {"conns", "extlinks", "out"})
  BY <1>3, <1>4, OutgoingIs DEF Good
<1>6. ServerCore(P, sent, dropped, died) /\ Awaits(P) /\ died \subseteq ei /\ Origin("server", x) \subseteq ei
  BY <1>1, <1>3 DEF ServerOK
<1>7. \E d \in P.conns : d.oid = r
  BY <1>1, <1>6 DEF ServerCore, ServerRelays, ServerRelay
<1>8. c \in P.conns /\ c.oid = r
  BY <1>5, <1>7 DEF SentBy, Leaves
<1>9. Alike(P, Q) /\ Mail(Q) = Mail(P)
  BY <1>5, <1>8 DEF SentBy, Alike, Same, Field, HasExt, Mail
<1>10. PICK w : w = [extid |-> c.extid, kind |-> "error", iid |-> "COM", n |-> n]
  OBVIOUS
<1>11. ServerOut(w, sent, ei)
  <2>1. Of(P, r, ei)
    BY <1>1, <1>6, OriginOf
  <2>2. PICK o \in Oids : Proxy(o) \in ei /\ c.extid = Key(o)
    BY <1>8, <2>1 DEF Of
  <2> QED
    BY <1>10, <2>2 DEF ServerOut
<1>12. \A v \in Range(Q.out) : v \in Range(P.out) \/ ServerOut(v, sent, ei)
  <2>1. Q.out = IF P.ext = "open" THEN Append(P.out, w) ELSE P.out
    BY <1>5, <1>10 DEF SentBy
  <2>2. P.out \in Seq(Written)
    BY <1>4 DEF Good, IsProcess
  <2>3. Range(Append(P.out, w)) = Range(P.out) \cup {w}
    BY <2>2, RangeAppend
  <2> QED
    BY <1>11, <2>1, <2>3
<1>13. ServerCore(Q, sent, dropped, ei)
  <2>1. ServerCore(P, sent, dropped, ei)
    BY <1>6, CoreGrows
  <2>2. Paired(Mail(Q)) /\ Waiting(Q) \subseteq Waiting(P)
    BY <1>6, <1>9 DEF ServerCore, Waiting
  <2> QED
    BY <1>9, <1>12, <2>1, <2>2, CoreMail
<1>14. Awaits(Q)
  BY <1>6, <1>9 DEF Awaits, Alike
<1> QED
  BY <1>3, <1>4, <1>13, <1>14 DEF ServerOK

\* A process without Extern, relays and objects has only messages left.
LEMMA ServerEmpty ==
    ASSUME NEW P, NEW Q, NEW s, NEW dr, NEW di, ServerCore(P, s, dr, di), ~HasExt(Q),
           Q.conns = {}, Q.extlinks = {}, Q.applinks = {}, Q.interfaces = {},
           DOMAIN Q.relay = {}, DOMAIN Q.objects = {},
           Mail(Q) = Mail(P) \/ Mail(Q) = <<>>, Range(Q.out) \subseteq Range(P.out)
    PROVE  ServerOK(Q, s, dr, di)
<1>1. ServerRelays(Q, dr)
  BY DEF ServerRelays, ServerIdle
<1>2. Range(<<>>) = {} /\ Paired(<<>>)
  BY DEF Range, Paired
<1>3. Range(Mail(Q)) \subseteq Range(Mail(P)) /\ Paired(Mail(Q)) /\ Waiting(Q) \subseteq Waiting(P)
  BY <1>2 DEF ServerCore, Waiting
<1>4. ASSUME NEW m \in Range(Mail(P)) PROVE ServerMail(Q, m, s, dr, di)
  <2>1. ServerMail(P, m, s, dr, di)
    BY DEF ServerCore
  <2>2. \A r : Tied(P, r) => Tied(Q, r)
    BY DEF Tied
  <2>3. \A r : Fresh(Q, r)
    BY DEF Fresh
  <2>4. \A r, n : Routed(P, r, n, s) => Routed(Q, r, n, s)
    BY DEF Routed
  <2>5. \A r, x : Through(P, r, x) => Through(Q, r, x)
    BY <1>3, <2>2 DEF Through
  <2>6. \A r : Of(Q, r, dr)
    BY DEF Of
  <2>7. ExtCall(P, m, s, dr \cup di) => ExtCall(Q, m, s, dr \cup di)
    BY <2>2, <2>4 DEF ExtCall
  <2>8. ToObject(P, m, s, dr \cup di) => ToObject(Q, m, s, dr \cup di)
    BY <2>3, <2>4, <2>5 DEF ToObject
  <2> QED
    BY <2>1, <2>2, <2>3, <2>4, <2>5, <2>6, <2>7, <2>8 DEF ServerMail, Creates, FromObject, ExtDelete
<1>5. ServerCore(Q, s, dr, di)
  BY <1>1, <1>3, <1>4 DEF ServerCore
<1> QED
  BY <1>5 DEF ServerOK, Awaits

\* Extern_destroy at the server, where the relays are the Extern's.
LEMMA ServerGone ==
    ASSUME NEW P, NEW Q, NEW s, NEW dr, NEW di, ServerCore(P, s, dr, di), DOMAIN P = Field,
           Q = Extern_destroy(P)
    PROVE  ServerOK(Q, s, dr, di)
<1> DEFINE orphans == {o \in DOMAIN P.relay : o \notin P.applinks}
           served == {P.relay[o].localp : o \in {r \in orphans : P.relay[r].serves}}
<1>1. /\ Q.ext = "gone" /\ Q.interfaces = {} /\ Q.conns = {} /\ Q.extlinks = {}
      /\ Q.relay = [o \in DOMAIN P.relay \ orphans |-> COMRelay_object_destroyed(P.relay[o])]
      /\ Q.objects = [x \in DOMAIN P.objects \ served |-> P.objects[x]]
      /\ Q.applinks = P.applinks /\ Q.inq = P.inq /\ Q.outq = P.outq /\ Q.out = P.out
  BY DEF Extern_destroy, Restrict, Field
<1>2. P.applinks = {}
  BY DEF ServerCore, ServerRelays, ServerIdle
<1>3. orphans = DOMAIN P.relay
  BY <1>2
<1>4. DOMAIN P.objects \subseteq served
  BY <1>3 DEF ServerCore, Serving, Servers
<1> HIDE DEF orphans, served
<1>5. DOMAIN Q.relay = {} /\ DOMAIN Q.objects = {}
  BY <1>1, <1>3, <1>4
<1>6. ~HasExt(Q) /\ Mail(Q) = Mail(P)
  BY <1>1 DEF HasExt, Mail
<1> QED
  BY <1>1, <1>2, <1>5, <1>6, ServerEmpty

\* The end of a round of the server.
LEMMA ServerRound ==
    ASSUME RelaysInv, NEW P, P = proc["server"], ServerOK(P, sent, dropped, died), EndRound("server")
    PROVE  ServerOK(proc'["server"], sent, dropped, died)
<1>1. PICK R, G, U, Q : Rounds("server", P, R, G, U, Q) /\ proc' = [proc EXCEPT !["server"] = Q]
  BY RoundIs DEF Procs
<1>2. proc'["server"] = Q
  BY <1>1 DEF RelaysInv, Procs
<1>3. Alike(P, R) /\ Mail(R) = Mail(P) /\ R.out = P.out /\ DOMAIN R = Field
  BY <1>1 DEF Rounds, Same, Field, Alike, HasExt
<1>4. ServerOK(R, sent, dropped, died)
  <2>1. ServerCore(P, sent, dropped, died) /\ Awaits(P) /\ Paired(Mail(R)) /\ Waiting(R) \subseteq Waiting(P)
    BY <1>3 DEF ServerOK, ServerCore, Waiting
  <2>2. ServerCore(R, sent, dropped, died)
    BY <1>3, <2>1, CoreMail
  <2>3. Awaits(R)
    BY <1>3, <2>1 DEF Awaits, Alike
  <2> QED
    BY <2>2, <2>3 DEF ServerOK
<1>5. ServerOK(G, sent, dropped, died)
  BY <1>1, <1>3, <1>4, ServerGone DEF Rounds, ServerOK
<1>6. Good("server", G, DOMAIN sent) /\ U = UnusedRelays(G) /\ G.out \in Seq(Written)
  BY <1>1 DEF Rounds, Good, IsProcess
<1>7. ServerCore(G, sent, dropped, died) /\ ServerRelays(G, dropped)
  BY <1>5 DEF ServerOK, ServerCore
<1>8. ASSUME NEW o \in U
      PROVE  /\ o \in DOMAIN G.relay
             /\ G.relay[o].pExtern => /\ Of(G, o, died) /\ G.relay[o].localp # NoOid
                                      /\ \E c \in G.conns : c.oid = o
  <2>1. o \in DOMAIN G.relay /\ (\/ G.relay[o].unused
                                 \/ \E x \in DOMAIN G.objects : G.objects[x].unused /\ o \in Servers(G, x))
    BY <1>6, <1>8 DEF UnusedRelays
  <2>2. ServerRelay(G, o, dropped)
    BY <1>7, <2>1 DEF ServerRelays
  <2>3. ASSUME G.relay[o].pExtern
        PROVE  Of(G, o, died) /\ G.relay[o].localp # NoOid /\ \E c \in G.conns : c.oid = o
    <3>1. PICK x \in DOMAIN G.objects : G.objects[x].unused /\ o \in Servers(G, x)
      BY <2>1, <2>2, <2>3 DEF ServerRelay
    <3>2. Of(G, o, died)
      BY <1>7, <3>1 DEF ServerCore, Serving
    <3>3. G.relay[o].localp # NoOid
      BY <2>2, <3>1, OidFacts DEF Servers, ServerRelay
    <3> QED
      BY <2>2, <2>3, <3>2, <3>3 DEF ServerRelay
  <2> QED
    BY <2>1, <2>3
<1>9. U \subseteq DOMAIN G.relay /\ Connected(G, U)
  BY <1>8 DEF Connected
<1>10. Swept(G, Q, U)
  BY <1>1, <1>6, <1>9, SweptAll DEF Rounds, Procs
<1>11. ServerCore(Q, sent, dropped, died)
  BY <1>6, <1>7, <1>8, <1>9, <1>10, CoreSwept
<1>12. Awaits(Q)
  <2>1. Mail(Q) = Mail(G) /\ DOMAIN Q.relay \subseteq DOMAIN G.relay
        /\ \A x \in DOMAIN Q.relay : Q.relay[x] = G.relay[x]
    BY <1>10 DEF Swept, Same, Field, Mail
  <2> QED
    BY <1>5, <2>1 DEF ServerOK, Awaits
<1> QED
  BY <1>2, <1>11, <1>12 DEF ServerOK

\* The end of the server.
LEMMA ServerExits ==
    ASSUME RelaysInv, NEW P, P = proc["server"], ServerOK(P, sent, dropped, died), Exit("server")
    PROVE  ServerOK(proc'["server"], sent, dropped, died)
<1>1. PICK N, Q :
        /\ N \in Closed(P)
        /\ Q = [N EXCEPT
            !.ext = "exited", !.interfaces = {}, !.conns = {}, !.applinks = {},
            !.extlinks = {}, !.relay = <<>>, !.objects = <<>>, !.inq = <<>>, !.outq = <<>>]
        /\ proc' = [proc EXCEPT !["server"] = Q]
  BY DEF Exit
<1>2. proc'["server"] = Q
  BY <1>1 DEF RelaysInv, Procs
<1>3. DOMAIN P = Field /\ P.out \in Seq(Written)
  BY DEF RelaysInv, Good, Procs, IsProcess
<1>4. DOMAIN N = Field /\ \E k \in 0 .. Len(P.out) : N.out = SubSeq(P.out, 1, k)
  BY <1>1, <1>3, ClosedIs DEF Same
<1>5. /\ Q.ext = "exited" /\ Q.interfaces = {} /\ Q.conns = {} /\ Q.relay = <<>> /\ Q.objects = <<>>
      /\ Q.applinks = {} /\ Q.extlinks = {} /\ Q.inq = <<>> /\ Q.outq = <<>> /\ Q.out = N.out
  BY <1>1, <1>4 DEF Field
<1>6. Range(Q.out) \subseteq Range(P.out)
  BY <1>3, <1>4, <1>5, RangePrefix
<1>7. ~HasExt(Q) /\ Mail(Q) = <<>> /\ DOMAIN Q.relay = {} /\ DOMAIN Q.objects = {}
  BY <1>5 DEF HasExt, Mail
<1>8. ServerOK(Q, sent, dropped, died)
  BY <1>5, <1>6, <1>7, ServerEmpty DEF ServerOK
<1> QED
  BY <1>2, <1>8

\* No object of the client fails for the server.
LEMMA ServerNoError ==
    ASSUME RelaysInv, NEW P, P = proc["server"], ServerOK(P, sent, dropped, died)
    PROVE  ~COMRelay_COM_error("server")
<1> SUFFICES ASSUME COMRelay_COM_error("server") PROVE FALSE
  OBVIOUS
<1>1. PICK T, m : T = Taken("server") /\ m = Head(P.inq)
  OBVIOUS
<1>2. Delivered(P, T, m, sent, dropped, died) /\ m.kind = "error"
  BY <1>1, DeliveredIs DEF COMRelay_COM_error
<1> QED
  BY <1>2 DEF Delivered, ServerMail, Creates, ExtCall, ToObject, FromObject, ExtDelete, ToSelf

-----------------------------------------------------------------------------
(* The order of messages *)

\* An order that forbids less.
LEMMA OrderedLess ==
    ASSUME NEW M, NEW R, NEW Q, Ordered(M, R),
           \A a, b \in Range(M) : <<a, b>> \in Q => <<a, b>> \in R
    PROVE  Ordered(M, Q)
BY DEF Ordered, Range

-----------------------------------------------------------------------------
(* All steps of both processes *)

\* The server's steps keep what its calls and replies go through.
LEMMA ServerActs ==
    ASSUME OneWay, RelaysInv, NEW P, P = proc["server"], ServerOK(P, sent, dropped, died),
           ClientOK(proc["client"], sent, dropped, died),
           Loop("server") \/ Socket("server") \/ Program("server")
    PROVE  ServerOK(proc'["server"], sent', dropped', died')
<1>0. Good("server", P, DOMAIN sent) /\ DOMAIN proc = Procs /\ "server" \in Procs
  BY DEF RelaysInv, Procs
<1>1. sent' = sent /\ dropped' = dropped /\ ~AppCalls("server") /\ ~AppDrops("server")
  <2>1. ServerIdle(proc["server"])
    BY DEF ServerOK, ServerCore, ServerRelays
  <2> QED
    BY <2>1, ServerLeaves
<1>2. CASE ObjectDies("server")
  BY <1>1, <1>2, ServerDies
<1>3. CASE ObjectFails("server")
  BY <1>1, <1>3, ServerFails
<1>4. ASSUME ~ObjectDies("server"), ~ObjectFails("server")
      PROVE  died' = died
  <2>1. CASE Loop("server")
    BY <2>1 DEF Loop, COMRelay_COM_message, COMRelay_COM_error, COMRelay_COM_delete, PCOM_create_object,
                DropMessage, ObjectCalled, AppConnected, AppAnswered, Extern_Extern_close, EndRound, history
  <2>2. CASE Socket("server")
    BY <2>2 DEF Socket, Extern_reading, ReadClosed, history
  <2>3. CASE Program("server")
    BY <1>1, <1>4, <2>3 DEF Program, AppCloses, Exit, history
  <2> QED
    BY <2>1, <2>2, <2>3
<1>5. CASE COMRelay_COM_message("server")
  <2>1. ServerOK(proc'["server"], sent, dropped, died)
    BY <1>5, ServerMessage
  <2>2. died' = died
    BY <1>5 DEF COMRelay_COM_message
  <2> QED
    BY <1>1, <2>1, <2>2
<1>6. CASE COMRelay_COM_delete("server") \/ PCOM_create_object("server")
  <2>1. ServerOK(proc'["server"], sent, dropped, died)
    BY <1>6, ServerDelete, ServerCreate
  <2>2. died' = died
    BY <1>6 DEF COMRelay_COM_delete, PCOM_create_object, history
  <2> QED
    BY <1>1, <2>1, <2>2
<1>7. CASE ObjectCalled("server")
  <2>1. ServerOK(proc'["server"], sent, dropped, died)
    BY <1>7, ServerCalled
  <2>2. died' = died
    BY <1>7 DEF ObjectCalled
  <2> QED
    BY <1>1, <2>1, <2>2
<1>8. CASE EndRound("server") \/ Exit("server")
  <2>1. ServerOK(proc'["server"], sent, dropped, died)
    BY <1>8, ServerRound, ServerExits
  <2>2. died' = died
    BY <1>8 DEF EndRound, Exit, history
  <2> QED
    BY <1>1, <2>1, <2>2
<1>9. CASE DropMessage("server") \/ AppConnected("server") \/ AppAnswered("server") \/ AppCloses("server")
           \/ Extern_Extern_close("server") \/ ReadClosed("server")
  <2>1. died' = died
    BY <1>9 DEF DropMessage, AppConnected, AppAnswered, AppCloses, Extern_Extern_close, ReadClosed, history
  <2>2. PICK Q : proc' = [proc EXCEPT !["server"] = Q] /\ Quiet(proc["server"], Q)
    BY <1>0, <1>9, QuietIs
  <2>3. proc'["server"] = Q
    BY <1>0, <2>2
  <2>4. ServerOK(Q, sent, dropped, died)
    BY <1>0, <2>2, ServerQuiet
  <2> QED
    BY <1>1, <2>1, <2>3, <2>4
<1>10. CASE Extern_reading("server")
  <2>1. died' = died
    BY <1>10 DEF Extern_reading
  <2>2. PICK m, Q, R :
            /\ m \in Sendable(DOMAIN sent)
            /\ proc'["server"] = Q /\ P.ext = "open" /\ Free(P) # {}
            /\ Given(proc["client"], m, R) /\ Comes("server", P, m, Q)
    BY <1>0, <1>10, ReadIs DEF Other
  <2>3. ClientOut(m, sent, dropped)
    <3>1. proc["client"].out \in Seq(Written) /\ proc["client"].out # <<>> /\ m = Head(proc["client"].out)
      BY <2>2 DEF Given, RelaysInv, Good, IsProcess, Procs
    <3>2. m \in Range(proc["client"].out)
      BY <3>1, RangeHead
    <3> QED
      BY <3>2 DEF ClientOK
  <2>4. ServerOK(Q, sent, dropped, died)
    BY <1>0, <2>2, <2>3, ServerReads
  <2> QED
    BY <1>1, <2>1, <2>2, <2>4
<1>11. ~COMRelay_COM_error("server")
  BY ServerNoError
<1> QED
  BY <1>1, <1>2, <1>3, <1>5, <1>6, <1>7, <1>8, <1>9, <1>10, <1>11 DEF Loop, Socket, Program

\* What a step of the client leaves of the other processes and of the history.
LEMMA ClientLeaves ==
    ASSUME RelaysInv, NEW S, S = proc["server"],
           Loop("client") \/ Socket("client") \/ Program("client")
    PROVE  /\ dropped \subseteq dropped' /\ DOMAIN sent \subseteq DOMAIN sent'
           /\ \A n \in DOMAIN sent : sent'[n] = sent[n]
           /\ ~Extern_reading("client") => proc'["server"] = S
<1>0. DOMAIN proc = Procs /\ sent \in Seq(Procs \X Oids)
  BY DEF RelaysInv, HistoryOK
<1>1. dropped \subseteq dropped' /\ (sent' = sent \/ AppCalls("client"))
  <2>1. CASE Loop("client")
    BY <2>1 DEF Loop, COMRelay_COM_message, COMRelay_COM_error, COMRelay_COM_delete, PCOM_create_object,
                DropMessage, ObjectCalled, AppConnected, AppAnswered, Extern_Extern_close, EndRound, history
  <2>2. CASE Socket("client")
    BY <2>2 DEF Socket, Extern_reading, ReadClosed, history
  <2>3. CASE Program("client")
    BY <2>3 DEF Program, AppCalls, AppDrops, AppCloses, ObjectDies, ObjectFails, Exit, history
  <2> QED
    BY <2>1, <2>2, <2>3
<1>2. DOMAIN sent \subseteq DOMAIN sent' /\ \A n \in DOMAIN sent : sent'[n] = sent[n]
  <2>1. CASE AppCalls("client")
    <3>1. \E x : sent' = Append(sent, x)
      BY <2>1 DEF AppCalls
    <3> QED
      BY <1>0, <3>1
  <2> QED
    BY <1>1, <2>1
<1>3. ASSUME ~Extern_reading("client")
      PROVE  proc'["server"] = S
  <2>1. \E Q : proc' = [proc EXCEPT !["client"] = Q]
    <3>1. CASE Loop("client")
      BY <3>1 DEF Loop, COMRelay_COM_message, COMRelay_COM_error, COMRelay_COM_delete, PCOM_create_object,
                DropMessage, ObjectCalled, AppConnected, AppAnswered, Extern_Extern_close, EndRound
    <3>2. CASE ReadClosed("client")
      BY <3>2 DEF ReadClosed
    <3>3. CASE Program("client")
      BY <3>3 DEF Program, AppCalls, AppDrops, AppCloses, ObjectDies, ObjectFails, Exit
    <3> QED
      BY <1>3, <3>1, <3>2, <3>3 DEF Socket
  <2> QED
    BY <1>0, <2>1 DEF Procs
<1> QED
  BY <1>1, <1>2, <1>3

\* The client's steps leave the server as it is, but for what they read.
LEMMA ServerWaits ==
    ASSUME RelaysInv, NEW P, P = proc["server"], ServerOK(P, sent, dropped, died), died' = died,
           Loop("client") \/ Socket("client") \/ Program("client")
    PROVE  ServerOK(proc'["server"], sent', dropped', died')
<1>0. Good("server", P, DOMAIN sent)
  BY DEF RelaysInv, Procs
<1>1. /\ dropped \subseteq dropped' /\ DOMAIN sent \subseteq DOMAIN sent'
      /\ \A n \in DOMAIN sent : sent'[n] = sent[n]
      /\ ~Extern_reading("client") => proc'["server"] = P
  BY ClientLeaves
<1>2. ServerOK(proc'["server"], sent, dropped, died)
  <2>1. CASE Extern_reading("client")
    <3>1. PICK m, Q, R : proc'["server"] = R /\ Given(P, m, R)
      BY <2>1, ReadIs DEF Procs, Other
    <3>2. ServerOK(R, sent, dropped, died)
      BY <1>0, <3>1, ServerGiven
    <3> QED
      BY <3>1, <3>2
  <2> QED
    BY <1>1, <2>1
<1>3. ServerCore(proc'["server"], sent', dropped', died')
  <2>1. ServerCore(proc'["server"], sent, dropped, died)
    BY <1>2 DEF ServerOK
  <2> QED
    BY <1>1, <2>1, CoreGrows
<1> QED
  BY <1>2, <1>3 DEF ServerOK

-----------------------------------------------------------------------------
(* What a step of the client does to its messages *)

\* The relays and connections of Q cut no more than those of P.
LEMMA CutSame ==
    ASSUME NEW P, NEW Q, HasExt(Q) => HasExt(P), Q.relay = P.relay, Q.conns \subseteq P.conns
    PROVE  CutBy(P, Q)
BY DEF CutBy, Cut

\* Relays that are destroyed take their connection with them.
LEMMA SweptIdle ==
    ASSUME NEW P, NEW Q, NEW U, Swept(P, Q, U), NEW s, NEW gone
    PROVE  /\ CutBy(P, Q) /\ Mail(Q) = Mail(P) /\ Q.ext = P.ext /\ OutIdle(P, Q) /\ Idles(P, Q, s, gone)
<1>1. Q.ext = P.ext /\ Q.inq = P.inq /\ Q.outq = P.outq
  BY DEF Swept, Same, Field
<1>2. Mail(Q) = Mail(P) /\ (HasExt(Q) <=> HasExt(P))
  BY <1>1 DEF Mail, HasExt
<1>3. OutIdle(P, Q)
  BY DEF Swept, OutIdle, DeleteOf
<1>4. ASSUME NEW o \in Oids, Cut(Q, o)
      PROVE  Cut(P, o)
  <2>1. PICK d \in Q.conns : d.oid = o
    BY <1>4 DEF Cut
  <2>2. d \in P.conns /\ ~(o \in U /\ P.relay[o].pExtern)
    BY <2>1 DEF Swept
  <2>3. o \in DOMAIN P.relay => ~P.relay[o].pExtern
    <3>1. CASE o \in DOMAIN Q.relay
      BY <1>4, <3>1 DEF Cut, Swept
    <3>2. CASE o \notin DOMAIN Q.relay
      BY <2>2, <3>2 DEF Swept
    <3> QED
      BY <3>1, <3>2
  <2> QED
    BY <1>2, <1>4, <2>1, <2>2, <2>3 DEF Cut
<1> QED
  BY <1>1, <1>2, <1>3, <1>4 DEF CutBy, Idles, MailIdle

\* COMRelay_COM_message at the client.
LEMMA ClientMessageIs ==
    ASSUME OneWay, RelaysInv, NEW P, P = proc["client"], ClientOK(P, sent, dropped, died),
           COMRelay_COM_message("client")
    PROVE  ClientStep(P, proc'["client"])
<1>0. PICK m : m = Head(P.inq)
  OBVIOUS
<1>1. PICK T : T = Taken("client")
  OBVIOUS
<1>2. Delivers("client") /\ m.dest \in Oids /\ m.kind \in {"call", "reply"}
  BY <1>0 DEF COMRelay_COM_message, IsRelay
<1>3. /\ Mail(P) # <<>> /\ Head(Mail(P)) = m /\ Mail(T) = Tail(Mail(P))
      /\ Range(Mail(P)) = {m} \cup Range(Mail(T)) /\ Same(P, T, {"inq"})
      /\ Mail(T) \in Seq(Message(DOMAIN sent)) /\ m \in Message(DOMAIN sent)
      /\ Good("client", T, DOMAIN sent)
  BY <1>0, <1>1, <1>2, TakenMail DEF Procs
<1>4. AppCall(P, m, sent) \/ ExtReply(P, m, sent)
  <2>1. ClientMail(P, m, sent, died)
    BY <1>3 DEF ClientOK
  <2> QED
    BY <1>2, <2>1, OidFacts DEF ClientMail, AppReply, ExtEnd, ToSelf
<1>5. m.iid # "COM"
  BY <1>4, IfaceFacts DEF AppCall, ExtReply
<1>6. PICK R, r, Q : Relayed("client", m, R, r, Q) /\ proc' = [proc EXCEPT !["client"] = Q]
  BY <1>0, <1>2, <1>5, MessageIs DEF Procs
<1>7. proc'["client"] = Q /\ proc'["server"] = proc["server"]
  BY <1>6 DEF RelaysInv, Procs
<1>8. Met("client", T, m, R, r)
  BY <1>1, <1>6 DEF Relayed
<1>9. AtClient(P, m, R, r, sent, died)
  BY <1>0, <1>1, <1>2, <1>4, <1>8, ClientMet
<1>10. R.inq = T.inq /\ R.outq = T.outq
  BY <1>8 DEF Met, Same, Field
<1>11. sent' = sent /\ answers' = answers
  BY DEF COMRelay_COM_message
<1>12. Q.relay = R.relay /\ Q.ext = P.ext
  BY <1>6, <1>9 DEF Relayed, IsLost, Passed, SentOut, Same, Field, AtClient
<1>13. CutBy(P, Q)
  <2>1. ASSUME NEW o \in Oids, Cut(Q, o)
        PROVE  Cut(P, o)
    <3>1. HasExt(P)
      BY <1>12, <2>1 DEF Cut, HasExt
    <3>2. CASE o # m.dest
      <4>1. \A d \in Q.conns : d.oid = o => d \in P.conns
        <5>1. R.conns = P.conns
          BY <1>9 DEF AtClient
        <5>2. CASE IsLost(R, r, Q) \/ Passed(R, r, m, Q)
          BY <5>1, <5>2 DEF IsLost, Passed, Same, Field
        <5>3. CASE SentOut("client", R, r, m, Q)
          <6>1. PICK c : SentBy("client", R, Q, m.dest, m.kind, m.iid, m.n, c)
            BY <5>3 DEF SentOut
          <6>2. c.oid = m.dest /\ Q.conns \subseteq R.conns \cup {c}
            BY <6>1 DEF SentBy
          <6> QED
            BY <3>2, <5>1, <6>2
        <5> QED
          BY <1>6, <5>2, <5>3 DEF Relayed
      <4>2. o \in DOMAIN P.relay => o \in DOMAIN Q.relay /\ Q.relay[o] = P.relay[o]
        BY <1>9, <1>12, <3>2 DEF AtClient
      <4> QED
        BY <2>1, <3>1, <4>1, <4>2 DEF Cut
    <3>3. CASE o = m.dest
      <4>1. ~r.pExtern
        BY <1>9, <1>12, <2>1, <3>3 DEF Cut, AtClient
      <4>2. Q.conns = P.conns
        BY <1>6, <1>9, <4>1 DEF Relayed, IsLost, Passed, SentOut, AtClient
      <4>3. m.dest \in DOMAIN P.relay => ~P.relay[m.dest].pExtern
        BY <1>9, <4>1 DEF AtClient
      <4> QED
        BY <2>1, <3>1, <3>3, <4>2, <4>3 DEF Cut
    <3> QED
      BY <3>2, <3>3
  <2> QED
    BY <2>1 DEF CutBy
<1>14. ASSUME AppCall(P, m, sent), ~r.pExtern, Q.ext = "open"
       PROVE  sent[m.n] \in dropped \cup died
  <2>1. P.ext = "open" /\ HasExt(P)
    BY <1>12, <1>14 DEF HasExt
  <2>2. m.n \in DOMAIN sent /\ sent[m.n] = Proxy(m.dest)
    BY <1>14 DEF AppCall
  <2>3. PICK o \in Oids : sent[m.n] = Proxy(o) /\ (P.ext # "exited" => o \in P.applinks \/ Proxy(o) \in dropped)
    BY <2>2 DEF ClientOK, ClientSent
  <2>4. o = m.dest
    BY <2>2, <2>3 DEF Proxy
  <2> QED
    BY <1>9, <1>14, <2>1, <2>2, <2>3, <2>4 DEF AtClient
<1>15. CASE IsLost(R, r, Q)
  <2>1. Q = R /\ Shifts(P, Q) /\ Q.out = P.out
    BY <1>3, <1>9, <1>10, <1>15 DEF IsLost, Mail, Shifts, AtClient
  <2>2. MailIdle(P, Q, sent, dropped \cup died)
    BY <1>3, <1>4, <1>14, <1>15, <2>1 DEF MailIdle, IsLost, ExtReply
  <2> QED
    BY <1>7, <1>11, <1>12, <1>13, <2>1, <2>2 DEF ClientStep, Idles, OutIdle
<1>16. CASE Passed(R, r, m, Q)
  <2>1. PICK a : a = Msg(m.dest, App, m.kind, m.iid, m.n)
    OBVIOUS
  <2>2. r.localp = App /\ m.src # App /\ Q.outq = Append(T.outq, a) /\ Q.inq = T.inq
    BY <1>9, <1>10, <1>16, <2>1 DEF Passed, Same, Field, AtClient
  <2>3. ExtReply(P, m, sent)
    BY <1>4, <2>2 DEF AppCall
  <2>4. a \in Message(DOMAIN sent)
    BY <1>2, <1>3, <2>1, <2>3, OidFacts DEF Message, Queued, Msg, ExtReply, App
  <2>5. Mail(Q) = Append(Mail(T), a)
    <3>1. Puts(Message(DOMAIN sent), T, a, Q)
      BY <1>3, <2>2, <2>4 DEF Puts, Good
    <3> QED
      BY <3>1, MailPosted
  <2>6. Q.out = P.out
    BY <1>9, <1>16 DEF Passed, Same, Field, AtClient
  <2>7. PassesReply(P, Q, m, sent)
    BY <1>3, <2>1, <2>3, <2>5, <2>6 DEF PassesReply
  <2> QED
    BY <1>7, <1>11, <1>12, <1>13, <2>7 DEF ClientStep
<1>17. CASE SentOut("client", R, r, m, Q)
  <2>1. Mail(Q) = Mail(T)
    BY <1>10, <1>17 DEF SentOut, Same, Field, Mail
  <2>2. PICK c : SentBy("client", R, Q, m.dest, m.kind, m.iid, m.n, c)
    BY <1>17 DEF SentOut
  <2>3. AppCall(P, m, sent)
    BY <1>4, <1>9, <1>17 DEF SentOut, ExtReply, App, Ext, AtClient
  <2>4. c.extid = Key(m.dest)
    BY <1>9, <2>2 DEF SentBy, Leaves, ClientRelays, ClientOK, Key, AtClient
  <2>5. Shifts(P, Q)
    BY <1>3, <2>1 DEF Shifts
  <2>6. CASE P.ext = "open"
    <3>1. Q.out = Append(P.out, [extid |-> Key(m.dest), kind |-> m.kind, iid |-> m.iid, n |-> m.n])
      BY <1>9, <2>2, <2>4, <2>6 DEF SentBy, AtClient
    <3>2. SendsCall(P, Q, m, sent)
      BY <1>3, <2>3, <2>5, <2>6, <3>1 DEF SendsCall
    <3> QED
      BY <1>7, <1>11, <1>12, <1>13, <3>2 DEF ClientStep
  <2>7. CASE P.ext # "open"
    <3>1. Q.out = P.out
      BY <1>9, <2>2, <2>7 DEF SentBy, AtClient
    <3>2. Idles(P, Q, sent, dropped \cup died)
      BY <1>12, <2>5, <2>7, <3>1 DEF Idles, OutIdle, MailIdle
    <3> QED
      BY <1>7, <1>11, <1>12, <1>13, <3>2 DEF ClientStep
  <2> QED
    BY <2>6, <2>7
<1> QED
  BY <1>6, <1>15, <1>16, <1>17 DEF Relayed

\* The end of an object, as its relay at the client hears of it.
LEMMA ClientEndIs ==
    ASSUME RelaysInv, NEW P, P = proc["client"], ClientOK(P, sent, dropped, died),
           COMRelay_COM_error("client") \/ COMRelay_COM_delete("client")
    PROVE  ClientStep(P, proc'["client"])
<1>1. PICK m, T, F : m = Head(P.inq) /\ T = Taken("client") /\ F = FindOrCreate(T, m)
  OBVIOUS
<1>2. PICK o, D : o = m.dest /\ D = [F EXCEPT !.relay[o] = Deleted(@)]
  OBVIOUS
<1>3. Delivers("client") /\ o \in Oids /\ m.kind \in {"error", "delete"}
  BY <1>1, <1>2 DEF COMRelay_COM_error, COMRelay_COM_delete, IsRelay
<1>4. \/ COMRelay_COM_error("client") /\ proc' = [proc EXCEPT !["client"] = F]
      \/ m.kind = "delete" /\ COMRelay_COM_delete("client") /\ proc' = [proc EXCEPT !["client"] = D]
  BY <1>1, <1>2 DEF COMRelay_COM_error, COMRelay_COM_delete
<1>5. PICK Q : Q = proc'["client"]
  OBVIOUS
<1>6. ((m.kind = "delete" /\ Q = D) \/ Q = F) /\ proc'["server"] = proc["server"]
  BY <1>4, <1>5 DEF RelaysInv, Procs
<1>7. /\ Mail(P) # <<>> /\ Head(Mail(P)) = m /\ Mail(T) = Tail(Mail(P)) /\ Same(P, T, {"inq"})
      /\ Good("client", T, DOMAIN sent) /\ m \in Message(DOMAIN sent) /\ m \in Range(Mail(P))
  BY <1>1, <1>3, TakenMail DEF Procs
<1>8. Good("client", F, DOMAIN sent) /\ Same(T, F, {"relay"}) /\ o \in DOMAIN F.relay
  BY <1>1, <1>2, <1>3, <1>7, FindOrCreateGood
<1>9. /\ DOMAIN F.relay = DOMAIN T.relay \cup {o} /\ \A x \in DOMAIN T.relay : F.relay[x] = T.relay[x]
  <2>1. m.iid = "COM"
    <3>1. ClientMail(P, m, sent, died)
      BY <1>7 DEF ClientOK
    <3> QED
      BY <1>3, <3>1 DEF ClientMail, AppCall, ExtReply, AppReply, ExtEnd, ToSelf
  <2> QED
    BY <1>1, <1>2, <1>7, <2>1, CreatedIs
<1>10. /\ Same(F, D, {"relay"}) /\ DOMAIN D.relay = DOMAIN F.relay
       /\ \A x \in DOMAIN F.relay : x # o => D.relay[x] = F.relay[x]
  BY <1>2, <1>8 DEF Same, Field, Good
<1>11. /\ Q.ext = P.ext /\ Q.out = P.out /\ Q.conns = P.conns /\ Mail(Q) = Mail(T)
       /\ o \in DOMAIN Q.relay /\ DOMAIN P.relay \subseteq DOMAIN Q.relay
       /\ \A x \in DOMAIN P.relay : (x # o \/ Q = F) => Q.relay[x] = P.relay[x]
  <2>1. /\ F.ext = P.ext /\ F.out = P.out /\ F.conns = P.conns /\ F.inq = T.inq /\ F.outq = T.outq
        /\ T.relay = P.relay
    BY <1>7, <1>8 DEF Same, Field
  <2>2. /\ D.ext = F.ext /\ D.out = F.out /\ D.conns = F.conns /\ D.inq = F.inq /\ D.outq = F.outq
    BY <1>10 DEF Same, Field
  <2>3. Q.ext = P.ext /\ Q.out = P.out /\ Q.conns = P.conns /\ Mail(Q) = Mail(T)
    BY <1>6, <2>1, <2>2 DEF Mail
  <2>4. DOMAIN Q.relay = DOMAIN F.relay /\ \A x \in DOMAIN F.relay : (x # o \/ Q = F) => Q.relay[x] = F.relay[x]
    BY <1>6, <1>10
  <2> QED
    BY <1>8, <1>9, <2>1, <2>3, <2>4
<1>12. Shifts(P, Q)
  BY <1>7, <1>11 DEF Shifts
<1>13. CutBy(P, Q)
  <2>1. ASSUME NEW x \in Oids, Cut(Q, x), ~(m.kind = "delete" /\ x = o)
        PROVE  Cut(P, x)
    <3>1. HasExt(P)
      BY <1>11, <2>1 DEF Cut, HasExt
    <3>2. x \in DOMAIN P.relay => Q.relay[x] = P.relay[x] /\ x \in DOMAIN Q.relay
      BY <1>6, <1>11, <2>1
    <3> QED
      BY <1>11, <2>1, <3>1, <3>2 DEF Cut
  <2> QED
    BY <1>2, <1>7, <1>12, <2>1 DEF CutBy
<1>14. Idles(P, Q, sent, dropped \cup died)
  BY <1>3, <1>7, <1>11, <1>12 DEF Idles, OutIdle, MailIdle
<1>15. sent' = sent /\ (answers' = answers \/ \E a : a.kind = "error" /\ answers' = Append(answers, a))
  <2>1. CASE COMRelay_COM_delete("client")
    BY <2>1 DEF COMRelay_COM_delete, history
  <2>2. CASE COMRelay_COM_error("client")
    <3>1. sent' = sent
      BY <2>2 DEF COMRelay_COM_error
    <3>2. \E x, n : answers' = Append(answers, [proc |-> "client", oid |-> x, kind |-> "error", n |-> n])
      BY <2>2 DEF COMRelay_COM_error
    <3>3. PICK x, n : answers' = Append(answers, [proc |-> "client", oid |-> x, kind |-> "error", n |-> n])
      BY <3>2
    <3> QED
      BY <3>1, <3>3
  <2> QED
    BY <1>4, <2>1, <2>2
<1> QED
  BY <1>5, <1>6, <1>11, <1>13, <1>14, <1>15 DEF ClientStep

\* What a quiet step does to the messages.
LEMMA QuietIdle ==
    ASSUME NEW P, NEW Q, Quiet(P, Q), NEW s, NEW gone,
           Mail(P) # <<>> /\ Skipped(P, Head(Mail(P))) =>
                (Q.ext = "open" /\ Head(Mail(P)).kind = "call" => s[Head(Mail(P)).n] \in gone)
    PROVE  Idles(P, Q, s, gone) /\ CutBy(P, Q) /\ (Q.ext = "open" => P.ext = "open")
<1>1. Q.relay = P.relay /\ Q.conns = P.conns
  BY DEF Quiet, Same, Field
<1>2. CutBy(P, Q)
  BY <1>1, CutSame DEF Quiet
<1>3. OutIdle(P, Q)
  BY DEF Quiet, OutIdle
<1>4. MailIdle(P, Q, s, gone)
  BY DEF Quiet, QuietMail, MailIdle, Shifts
<1> QED
  BY <1>2, <1>3, <1>4 DEF Idles, Quiet

\* The steps of the client that leave connections and relays alone.
LEMMA ClientQuietIs ==
    ASSUME RelaysInv, NEW P, P = proc["client"], ClientOK(P, sent, dropped, died),
           \/ DropMessage("client") \/ AppConnected("client") \/ AppAnswered("client")
           \/ AppCloses("client") \/ Extern_Extern_close("client") \/ ReadClosed("client")
    PROVE  ClientStep(P, proc'["client"])
<1>1. PICK Q : proc' = [proc EXCEPT !["client"] = Q] /\ Quiet(P, Q)
  BY QuietIs DEF Procs
<1>2. proc'["client"] = Q /\ proc'["server"] = proc["server"]
  BY <1>1 DEF RelaysInv, Procs
<1>3. P.ext # "exited" => \A m : m \in Range(Mail(P)) /\ Skipped(P, m) /\ m.kind = "call" => sent[m.n] \in dropped \cup died
  <2> SUFFICES ASSUME P.ext # "exited", NEW m, m \in Range(Mail(P)), Skipped(P, m), m.kind = "call"
               PROVE  sent[m.n] \in dropped \cup died
    OBVIOUS
  <2>1. ClientMail(P, m, sent, died)
    BY DEF ClientOK
  <2>2. AppCall(P, m, sent)
    BY <2>1 DEF ClientMail, ExtReply, AppReply, ExtEnd, ToSelf
  <2>3. m.dest \notin P.applinks
    BY <2>2, OidFacts DEF Skipped, Linked, AppCall
  <2>4. PICK o \in Oids : sent[m.n] = Proxy(o) /\ (o \in P.applinks \/ Proxy(o) \in dropped)
    BY <2>2 DEF AppCall, ClientOK, ClientSent
  <2> QED
    BY <2>2, <2>3, <2>4 DEF AppCall, Proxy
<1>4. Mail(P) \in Seq(Queued)
  <2>1. P.inq \in Seq(Queued) /\ P.outq \in Seq(Queued)
    BY DEF RelaysInv, Good, IsProcess, Procs
  <2> QED
    BY <2>1, MailIs
<1>5. Mail(P) # <<>> => Head(Mail(P)) \in Range(Mail(P))
  BY <1>4, RangeHead
<1>6. Q.ext = "open" => P.ext = "open"
  BY <1>1 DEF Quiet
<1>7. Idles(P, Q, sent, dropped \cup died) /\ CutBy(P, Q)
  <2>1. Mail(P) # <<>> /\ Skipped(P, Head(Mail(P))) =>
            (Q.ext = "open" /\ Head(Mail(P)).kind = "call" => sent[Head(Mail(P)).n] \in dropped \cup died)
    BY <1>3, <1>5, <1>6
  <2> QED
    BY <1>1, <2>1, QuietIdle
<1>8. CASE ~AppAnswered("client")
  <2>1. sent' = sent /\ answers' = answers
    BY <1>8 DEF DropMessage, AppConnected, AppCloses, Extern_Extern_close, ReadClosed, history
  <2> QED
    BY <1>2, <1>6, <1>7, <2>1 DEF ClientStep
<1>9. CASE AppAnswered("client")
  <2>1. PICK m, T : m = Head(P.inq) /\ T = Taken("client")
    OBVIOUS
  <2>2. /\ Delivers("client") /\ m.dest = App /\ m.kind = "reply" /\ sent' = sent
        /\ proc' = [proc EXCEPT !["client"] = T]
        /\ answers' = Append(answers, [proc |-> "client", oid |-> m.src, kind |-> "reply", n |-> m.n])
    BY <1>9, <2>1 DEF AppAnswered
  <2>3. Q = T
    BY <1>2, <2>2 DEF RelaysInv, Procs
  <2>4. /\ Mail(P) # <<>> /\ Head(Mail(P)) = m /\ Mail(T) = Tail(Mail(P)) /\ Same(P, T, {"inq"})
        /\ m \in Range(Mail(P))
    BY <2>1, <2>2, TakenMail DEF Procs
  <2>5. ClientMail(P, m, sent, died)
    BY <2>4 DEF ClientOK
  <2>6. AppReply(m, sent)
    BY <2>2, <2>5, OidFacts DEF ClientMail, AppCall, ExtReply, ExtEnd, ToSelf
  <2>7. GetsReply(P, Q, m, sent)
    BY <2>3, <2>4, <2>6 DEF GetsReply, Shifts, Same, Field
  <2> QED
    BY <1>2, <1>6, <1>7, <2>2, <2>7 DEF ClientStep
<1> QED
  BY <1>8, <1>9

\* A call of the application at the client.
LEMMA ClientCallsIs ==
    ASSUME RelaysInv, NEW P, P = proc["client"], AppCalls("client")
    PROVE  ClientStep(P, proc'["client"])
<1>1. PICK i \in P.interfaces, o \in P.applinks \cup {Min(Free(P))} :
        /\ proc' = [proc EXCEPT !["client"] =
              Post([P EXCEPT !.applinks = @ \cup {o}], Msg(App, o, "call", i, Len(sent) + 1))]
        /\ sent' = Append(sent, Proxy(o))
  BY DEF AppCalls, Proxy
<1>2. PICK R, a, Q, n : /\ R = [P EXCEPT !.applinks = @ \cup {o}] /\ Q = Post(R, a)
                        /\ a = Msg(App, o, "call", i, n) /\ n = Len(sent) + 1
  OBVIOUS
<1>3. proc'["client"] = Q /\ proc'["server"] = proc["server"]
  BY <1>1, <1>2 DEF RelaysInv, Procs
<1>4. Good("client", P, DOMAIN sent) /\ Free(P) # {} /\ n \in Nat
  BY <1>2 DEF RelaysInv, Procs, AppCalls, HistoryOK
<1>5. o \in Oids /\ i \in Iface
  BY <1>4, FreeIs DEF Good, IsProcess
<1>7. Same(P, R, {"applinks"})
  BY <1>2, <1>4 DEF Same, Field, Good
<1>8. Same(R, Q, {"outq"}) /\ Q.outq = Append(R.outq, a)
  <2>1. DOMAIN R = Field
    BY <1>7 DEF Same
  <2>2. Q = Post(R, a)
    BY <1>2
  <2> QED
    BY <2>1, <2>2, PostIs, Zenon
<1>9. /\ Q.relay = P.relay /\ Q.conns = P.conns /\ Q.ext = P.ext
      /\ Q.out = P.out /\ Q.inq = P.inq /\ Q.outq = Append(P.outq, a)
  BY <1>7, <1>8 DEF Same, Field
<1>10. Mail(Q) = Append(Mail(P), a)
  <2>1. a \in Queued
    BY <1>2, <1>4, <1>5, OidFacts DEF Msg, Queued, Kinds, App
  <2>2. P.inq \in Seq(Queued) /\ P.outq \in Seq(Queued)
    BY <1>4 DEF Good, IsProcess
  <2>3. Puts(Queued, P, a, Q)
    BY <1>9, <2>1, <2>2 DEF Puts
  <2> QED
    BY <2>3, MailPosted
<1>11. MakesCall(P, Q, o, i, Len(sent) + 1)
  BY <1>2, <1>5, <1>9, <1>10 DEF MakesCall
<1>12. CutBy(P, Q)
  BY <1>9, CutSame DEF HasExt
<1>13. answers' = answers
  BY DEF AppCalls
<1> QED
  BY <1>1, <1>3, <1>9, <1>11, <1>12, <1>13 DEF ClientStep

\* casycom_destroy_proxy at the client.
LEMMA ClientDropsIs ==
    ASSUME RelaysInv, NEW P, P = proc["client"], ClientOK(P, sent, dropped, died), AppDrops("client")
    PROVE  ClientStep(P, proc'["client"])
<1>1. PICK o, R, Q :
        /\ o \in P.applinks
        /\ R = [P EXCEPT !.applinks = @ \ {o}]
        /\ Q = IF o \in DOMAIN R.relay THEN COMRelay_destroy("client", R, o) ELSE R
        /\ proc' = [proc EXCEPT !["client"] = Q]
  BY DEF AppDrops, Proxy
<1>2. proc'["client"] = Q /\ proc'["server"] = proc["server"]
  BY <1>1 DEF RelaysInv, Procs
<1>3. Good("client", P, DOMAIN sent) /\ ClientRelays(P)
  BY DEF RelaysInv, Procs, ClientOK
<1>4. Same(P, R, {"applinks"}) /\ R.applinks = P.applinks \ {o}
  BY <1>1, <1>3 DEF Same, Field, Good
<1>5. Good("client", R, DOMAIN sent)
  BY <1>3, <1>4 DEF Same, Field, Good, IsProcess, ConnsOK, RelaysOK
<1>6. /\ R.relay = P.relay /\ R.conns = P.conns /\ R.ext = P.ext /\ Mail(R) = Mail(P) /\ R.out = P.out
      /\ (HasExt(R) <=> HasExt(P))
  BY <1>4 DEF Same, Field, Mail, HasExt
<1>7. sent' = sent /\ answers' = answers
  BY DEF AppDrops
<1>8. \E U : Swept(R, Q, U)
  <2>1. CASE o \in DOMAIN R.relay
    <3>1. Connected(R, {o})
      BY <1>3, <1>6, <2>1 DEF Connected, ClientRelays, App, NoOid
    <3> QED
      BY <1>1, <1>5, <2>1, <3>1, SweptOne
  <2>2. CASE o \notin DOMAIN R.relay
    <3>1. Swept(R, R, {})
      BY <1>5, SweptNone DEF Good, IsProcess
    <3> QED
      BY <1>1, <2>2, <3>1
  <2> QED
    BY <2>1, <2>2
<1>9. /\ CutBy(R, Q) /\ Mail(Q) = Mail(P) /\ Q.ext = P.ext /\ OutIdle(R, Q)
  <2>1. PICK U : Swept(R, Q, U)
    BY <1>8
  <2>2. CutBy(R, Q) /\ Mail(Q) = Mail(R) /\ Q.ext = R.ext /\ OutIdle(R, Q)
    BY <2>1, SweptIdle
  <2> QED
    BY <1>6, <2>2
<1>10. CutBy(P, Q)
  BY <1>6, <1>9 DEF CutBy, Cut, Shifts
<1>11. Idles(P, Q, sent, dropped \cup died)
  BY <1>6, <1>9 DEF Idles, OutIdle, MailIdle
<1> QED
  BY <1>2, <1>7, <1>9, <1>10, <1>11 DEF ClientStep

\* The end of a round of the client.
LEMMA ClientRoundIs ==
    ASSUME RelaysInv, NEW P, P = proc["client"], ClientOK(P, sent, dropped, died), EndRound("client")
    PROVE  ClientStep(P, proc'["client"])
<1>1. PICK R, G, U, Q : Rounds("client", P, R, G, U, Q) /\ proc' = [proc EXCEPT !["client"] = Q]
  BY RoundIs DEF Procs
<1>2. proc'["client"] = Q /\ proc'["server"] = proc["server"]
  BY <1>1 DEF RelaysInv, Procs
<1>3. /\ R.relay = P.relay /\ R.objects = P.objects /\ R.conns = P.conns /\ R.ext = P.ext
      /\ R.extlinks = P.extlinks /\ R.interfaces = P.interfaces /\ Mail(R) = Mail(P) /\ R.out = P.out
      /\ R.applinks = P.applinks /\ DOMAIN R = Field /\ R.ext # "exited"
  BY <1>1 DEF Rounds, Same, Field
<1>4. ClientOK(R, sent, dropped, died)
  <2>1. Calm(P, R)
    BY <1>3 DEF Calm, HasExt
  <2>2. R.interfaces \subseteq Found("client")
    BY <1>3 DEF ClientOK, ClientRelays
  <2> QED
    BY <1>3, <2>1, <2>2, ClientCalm
<1>5. ClientOK(G, sent, dropped, died)
  BY <1>1, <1>3, <1>4, ClientGone DEF Rounds
<1>6. Good("client", G, DOMAIN sent) /\ U = UnusedRelays(G)
  BY <1>1 DEF Rounds
<1>7. U \subseteq DOMAIN G.relay /\ \A o \in U : G.relay[o].unused
  BY <1>5, <1>6 DEF UnusedRelays, ClientOK, ClientRelays
<1>8. \A o \in U : ~G.relay[o].pExtern
  BY <1>5, <1>7 DEF ClientOK, ClientRelays
<1>9. Connected(G, U)
  BY <1>7, <1>8 DEF Connected
<1>10. Swept(G, Q, U)
  BY <1>1, <1>6, <1>7, <1>9, SweptAll DEF Rounds, Procs
<1>11. CutBy(G, Q) /\ Mail(Q) = Mail(G) /\ Q.ext = G.ext /\ OutIdle(G, Q)
  BY <1>10, SweptIdle
<1>12. sent' = sent /\ answers' = answers
  BY DEF EndRound, history
<1>13. CASE R.ext = "closed"
  <2>1. G = Extern_destroy(R)
    BY <1>1, <1>13 DEF Rounds
  <2>2. G.ext = "gone" /\ G.inq = R.inq /\ G.outq = R.outq /\ G.out = R.out
    BY <1>3, <2>1 DEF Extern_destroy, Field
  <2>3. Mail(G) = Mail(R) /\ ~HasExt(Q)
    BY <1>11, <2>2 DEF Mail, HasExt
  <2>4. CutBy(P, Q)
    BY <2>3 DEF CutBy, Cut
  <2>5. Idles(P, Q, sent, dropped \cup died) /\ Q.ext # "open"
    BY <1>3, <1>11, <2>2, <2>3 DEF Idles, OutIdle, MailIdle
  <2> QED
    BY <1>2, <1>12, <2>4, <2>5 DEF ClientStep
<1>14. CASE R.ext # "closed"
  <2>1. G = R
    BY <1>1, <1>14 DEF Rounds
  <2>2. CutBy(P, Q)
    BY <1>3, <1>11, <2>1 DEF CutBy, Cut, Shifts, HasExt
  <2>3. Idles(P, Q, sent, dropped \cup died) /\ Q.ext = P.ext
    BY <1>3, <1>11, <2>1 DEF Idles, OutIdle, MailIdle
  <2> QED
    BY <1>2, <1>12, <2>2, <2>3 DEF ClientStep
<1> QED
  BY <1>13, <1>14

\* A process that has exited has nothing but what it wrote.
LEMMA ExitIs ==
    ASSUME RelaysInv, NEW p \in Procs, Exit(p)
    PROVE  Ceases(proc[p], proc'[p]) /\ \A q \in Procs : q # p => proc'[q] = proc[q]
<1>1. PICK N, Q :
        /\ N \in Closed(proc[p])
        /\ Q = [N EXCEPT
            !.ext = "exited", !.interfaces = {}, !.conns = {}, !.applinks = {},
            !.extlinks = {}, !.relay = <<>>, !.objects = <<>>, !.inq = <<>>, !.outq = <<>>]
        /\ proc' = [proc EXCEPT ![p] = Q]
  BY DEF Exit
<1>2. proc'[p] = Q /\ \A q \in Procs : q # p => proc'[q] = proc[q]
  BY <1>1 DEF RelaysInv
<1>3. DOMAIN proc[p] = Field
  BY DEF RelaysInv, Good
<1>4. DOMAIN N = Field /\ \E k \in 0 .. Len(proc[p].out) : N.out = SubSeq(proc[p].out, 1, k)
  BY <1>1, <1>3, ClosedIs DEF Same
<1>5. /\ Q.ext = "exited" /\ Q.interfaces = {} /\ Q.conns = {} /\ Q.applinks = {} /\ Q.extlinks = {}
      /\ Q.relay = <<>> /\ Q.objects = <<>> /\ Q.inq = <<>> /\ Q.outq = <<>> /\ Q.out = N.out
  BY <1>1, <1>4 DEF Field
<1>6. Mail(Q) = <<>>
  BY <1>5 DEF Mail
<1>7. DOMAIN Q.relay = {} /\ DOMAIN Q.objects = {}
  BY <1>5
<1> QED
  BY <1>2, <1>4, <1>5, <1>6, <1>7 DEF Ceases

\* The end of the client.
LEMMA ClientExitIs ==
    ASSUME RelaysInv, NEW P, P = proc["client"], Exit("client")
    PROVE  ClientStep(P, proc'["client"])
<1>1. PICK Q : Q = proc'["client"]
  OBVIOUS
<1>2. Ceases(P, Q) /\ proc'["server"] = proc["server"]
  BY <1>1, ExitIs DEF Procs
<1>3. sent' = sent /\ answers' = answers
  BY DEF Exit, history
<1>4. CutBy(P, Q)
  BY <1>2 DEF Ceases, CutBy, Cut
<1>5. Idles(P, Q, sent, dropped \cup died) /\ Q.ext # "open"
  BY <1>2 DEF Ceases, Idles, OutIdle, MailIdle
<1> QED
  BY <1>1, <1>2, <1>3, <1>4, <1>5 DEF ClientStep

\* The client reads.
LEMMA ClientReadIs ==
    ASSUME OneWay, RelaysInv, NEW P, P = proc["client"], ClientOK(P, sent, dropped, died),
           Extern_reading("client")
    PROVE  ClientStep(P, proc'["client"])
<1>1. PICK w, Q, R :
            /\ w \in Sendable(DOMAIN sent)
            /\ proc'["client"] = Q /\ proc'["server"] = R /\ P.ext = "open"
            /\ Given(proc["server"], w, R) /\ Comes("client", P, w, Q)
  BY ReadIs DEF Procs, Other
<1>2. sent' = sent /\ answers' = answers
  BY DEF Extern_reading
<1>3. /\ Good("client", P, DOMAIN sent) /\ DOMAIN P = Field
      /\ P.inq \in Seq(Queued) /\ P.outq \in Seq(Queued)
  BY DEF RelaysInv, Procs, Good, IsProcess
<1>4. ~IsExported("client", w.iid)
  BY NoneExported
<1>5. CASE Q \in Closed(P)
  <2>1. Quiet(P, Q) /\ Same(P, Q, {"ext", "out"}) /\ Q.ext = "closed"
        /\ \E k \in 0 .. Len(P.out) : Q.out = SubSeq(P.out, 1, k)
    BY <1>1, <1>3, <1>5, ClosedQuiet, ClosedIs
  <2>2. Mail(Q) = Mail(P) /\ Q.relay = P.relay /\ Q.conns = P.conns
    BY <2>1 DEF Same, Field, Mail
  <2>3. CutBy(P, Q)
    BY <1>1, <2>2, CutSame DEF HasExt
  <2>4. Idles(P, Q, sent, dropped \cup died) /\ Q.ext # "open"
    BY <2>1, <2>2 DEF Idles, OutIdle, MailIdle
  <2> QED
    BY <1>1, <1>2, <2>3, <2>4 DEF ClientStep
<1>6. CASE Q = P
  <2>1. CutBy(P, Q)
    BY <1>6 DEF CutBy
  <2>2. Idles(P, Q, sent, dropped \cup died)
    BY <1>6 DEF Idles, OutIdle, MailIdle
  <2> QED
    BY <1>1, <1>2, <2>1, <2>2 DEF ClientStep
<1>7. CASE TakesExport("client", P, w, Q)
  <2>1. PICK a : a = Msg(Ext, App, "connected", "COM", 0)
    OBVIOUS
  <2>2. /\ Same(P, Q, {"interfaces", "outq"}) /\ Q.outq = Append(P.outq, a)
    BY <1>7, <2>1 DEF TakesExport
  <2>3. a \in Queued /\ ToSelf(a)
    BY <2>1 DEF Msg, Queued, Kinds, Ext, App, ToSelf
  <2>4. Mail(Q) = Append(Mail(P), a)
    <3>1. Puts(Queued, P, a, Q)
      BY <1>3, <2>2, <2>3 DEF Puts, Same, Field
    <3> QED
      BY <3>1, MailPosted
  <2>5. Q.out = P.out /\ Q.relay = P.relay /\ Q.conns = P.conns
    BY <2>2 DEF Same, Field
  <2>6. CutBy(P, Q)
    BY <1>1, <2>5, CutSame DEF HasExt
  <2>7. Idles(P, Q, sent, dropped \cup died)
    BY <2>3, <2>4, <2>5 DEF Idles, OutIdle, MailIdle
  <2> QED
    BY <1>1, <1>2, <2>6, <2>7 DEF ClientStep
<1>8. ASSUME NEW c, TakesKnown("client", P, w, c, Q) PROVE ClientStep(P, Q)
  <2>1. PICK o, a : o = c.oid /\ a = Msg(Ext, o, w.kind, w.iid, w.n)
    OBVIOUS
  <2>2. /\ Same(P, Q, {"extlinks", "outq"}) /\ Q.outq = Append(P.outq, a) /\ c \in P.conns
        /\ c.extid = w.extid
    BY <1>8, <2>1 DEF TakesKnown
  <2>3. o \in Oids /\ c.extid = Key(o)
    BY <1>3, <2>1, <2>2 DEF Good, ConnsOK, ClientOK, ClientRelays
  <2>4. a \in Queued
    BY <1>1, <2>1, <2>3, OidFacts DEF Msg, Queued, Sendable, Written, Ext
  <2>5. Mail(Q) = Append(Mail(P), a)
    <3>1. Puts(Queued, P, a, Q)
      BY <1>3, <2>2, <2>4 DEF Puts, Same, Field
    <3> QED
      BY <3>1, MailPosted
  <2>6. Q.out = P.out /\ Q.relay = P.relay /\ Q.conns = P.conns
    BY <2>2 DEF Same, Field
  <2>7. CutBy(P, Q)
    BY <1>1, <2>6, CutSame DEF HasExt
  <2>8. ReadsFor(P, Q, w, o)
    BY <2>1, <2>2, <2>3, <2>5, <2>6 DEF ReadsFor
  <2> QED
    BY <1>1, <1>2, <2>7, <2>8 DEF ClientStep
<1> QED
  BY <1>1, <1>4, <1>5, <1>6, <1>7, <1>8 DEF Comes

\* Every step of the client.
LEMMA ClientStepIs ==
    ASSUME OneWay, RelaysInv, NEW P, P = proc["client"], ClientOK(P, sent, dropped, died),
           Loop("client") \/ Socket("client") \/ Program("client")
    PROVE  ClientStep(P, proc'["client"]) /\ ~ObjectCalled("client") /\ ~ObjectFails("client") /\ ~ObjectDies("client")
<1>1. ~ObjectCalled("client") /\ ~ObjectDies("client") /\ ~ObjectFails("client")
  <2>1. DOMAIN P.objects = {} /\ \A o \in DOMAIN P.relay : ~P.relay[o].serves
    BY DEF ClientOK, ClientRelays
  <2>2. \A s : Servers(P, s) = {}
    BY <2>1 DEF Servers
  <2> QED
    BY <2>1, <2>2 DEF ObjectCalled, ObjectDies, ObjectFails
<1>2. ~PCOM_create_object("client")
  <2> SUFFICES ASSUME PCOM_create_object("client") PROVE FALSE
    OBVIOUS
  <2>1. PICK m : m = Head(P.inq)
    OBVIOUS
  <2>2. Delivers("client") /\ m.kind = "create"
    BY <2>1 DEF PCOM_create_object
  <2>3. m \in Range(Mail(P))
    BY <2>1, <2>2, TakenMail DEF Procs
  <2>4. ClientMail(P, m, sent, died)
    BY <2>3 DEF ClientOK
  <2> QED
    BY <2>2, <2>4 DEF ClientMail, AppCall, ExtReply, AppReply, ExtEnd, ToSelf
<1>3. ClientStep(P, proc'["client"])
  BY <1>1, <1>2, ClientMessageIs, ClientEndIs, ClientQuietIs, ClientCallsIs, ClientDropsIs, ClientRoundIs,
     ClientExitIs, ClientReadIs DEF Loop, Socket, Program
<1> QED
  BY <1>1, <1>3

-----------------------------------------------------------------------------
(* What a step of the server does to its messages *)

\* No connection and no relay goes, and none of those gets an Extern.
LEMMA OpenMore ==
    ASSUME NEW P, NEW Q, NEW gone, P.conns \subseteq Q.conns, DOMAIN P.relay \subseteq DOMAIN Q.relay,
           \A x \in DOMAIN P.relay : Q.relay[x].pExtern => P.relay[x].pExtern
    PROVE  OpenBy(P, Q, gone)
BY DEF OpenBy, Open

\* COMRelay_COM_message at the server.
LEMMA ServerMessageIs ==
    ASSUME RelaysInv, NEW P, P = proc["server"], ServerOK(P, sent, dropped, died),
           COMRelay_COM_message("server")
    PROVE  ServerStep(P, proc'["server"])
<1>0. "server" \in Procs /\ "client" \in Procs /\ DOMAIN proc = Procs
  BY DEF Procs, RelaysInv
<1>1. PICK T, m : T = Taken("server") /\ m = Head(P.inq)
  OBVIOUS
<1>2. /\ Delivered(P, T, m, sent, dropped, died) /\ IsRelay(P, m.dest) /\ m.kind \in {"call", "reply"}
      /\ Delivers("server")
  BY <1>1, DeliveredIs DEF COMRelay_COM_message
<1>3. Passes(P, m, sent, dropped \cup died)
  BY <1>2 DEF Delivered, ServerMail, Creates, ExtDelete, ToSelf, Passes
<1>4. m.iid # "COM"
  BY <1>3, IfaceFacts DEF Passes, ExtCall, ToObject, FromObject
<1>5. PICK R, r, Q : Relayed("server", m, R, r, Q) /\ proc' = [proc EXCEPT !["server"] = Q]
  BY <1>0, <1>1, <1>4, MessageIs
<1>6. proc'["server"] = Q /\ proc'["client"] = proc["client"]
  BY <1>0, <1>5
<1>7. Met("server", T, m, R, r)
  BY <1>1, <1>5 DEF Relayed
<1>8. /\ ServerOK(R, sent, dropped, died) /\ HasExt(R) /\ m.dest \in Oids /\ Mail(R) = Mail(T)
      /\ R.conns = P.conns /\ R.extlinks = P.extlinks /\ r = R.relay[m.dest] /\ m.dest \in DOMAIN R.relay
      /\ r.pExtern => \/ ExtCall(P, m, sent, dropped \cup died) /\ r.serves
                      \/ FromObject(P, m, sent) /\ r.localp = m.src
  <2>1. Ready(P, T, m, sent, dropped, died, R, r)
    BY <1>2, <1>3, <1>7, ServerMet
  <2> QED
    BY <2>1 DEF Ready
<1>9. /\ Mail(P) # <<>> /\ Head(Mail(P)) = m /\ Mail(T) = Tail(Mail(P)) /\ Same(P, T, {"inq"})
      /\ Mail(T) \in Seq(Message(DOMAIN sent)) /\ m \in Message(DOMAIN sent)
      /\ Good("server", T, DOMAIN sent)
  BY <1>0, <1>1, <1>2, TakenMail
<1>10. /\ R.inq = T.inq /\ R.outq = T.outq /\ R.out = P.out /\ R.ext = P.ext /\ T.relay = P.relay /\ HasExt(P)
  <2>1. Same(T, R, {"relay"})
    BY <1>7 DEF Met
  <2> QED
    BY <1>8, <1>9, <2>1 DEF Same, Field, HasExt
<1>11. m.dest \in DOMAIN P.relay => (r.pExtern <=> P.relay[m.dest].pExtern)
  BY <1>7, <1>10 DEF Met, KnownRelay, FirstUsed, NewRelay
<1>12. \A g : OpenBy(P, R, g)
  <2>1. DOMAIN R.relay = DOMAIN P.relay \cup {m.dest} /\ \A x \in DOMAIN P.relay : x # m.dest => R.relay[x] = P.relay[x]
    BY <1>7, <1>10 DEF Met
  <2>2. \A x \in DOMAIN P.relay : R.relay[x].pExtern => P.relay[x].pExtern
    BY <1>8, <1>11, <2>1
  <2> QED
    BY <1>8, <2>1, <2>2, OpenMore
<1>13. sent' = sent /\ answers' = answers /\ taken' = taken
  BY DEF COMRelay_COM_message
<1>14. Q.ext = P.ext /\ Q.relay = R.relay /\ R.conns \subseteq Q.conns
  <2>1. CASE IsLost(R, r, Q) \/ Passed(R, r, m, Q)
    BY <1>10, <2>1 DEF IsLost, Passed, Same, Field
  <2>2. CASE SentOut("server", R, r, m, Q)
    <3>1. PICK c : SentBy("server", R, Q, m.dest, m.kind, m.iid, m.n, c)
      BY <2>2 DEF SentOut
    <3>2. R.conns \subseteq Q.conns
      BY <1>2, <3>1 DEF SentBy
    <3> QED
      BY <1>10, <2>2, <3>2 DEF SentOut, Same, Field
  <2> QED
    BY <1>5, <2>1, <2>2 DEF Relayed
<1>15. OpenBy(P, Q, dropped \cup died) /\ HasExt(Q)
  <2>1. OpenBy(R, Q, dropped \cup died)
    BY <1>14, OpenMore
  <2>2. HasExt(Q) /\ HasExt(R)
    BY <1>8, <1>10, <1>14 DEF HasExt
  <2> QED
    BY <1>12, <2>1, <2>2 DEF OpenBy
<1>16. ASSUME m.kind = "call", m.src = Ext, sent[m.n] \notin dropped \cup died
       PROVE  \E o \in Oids : /\ sent[m.n] = Proxy(o) /\ \E d \in P.conns : d.oid = m.dest /\ d.extid = Key(o)
                              /\ \A d \in P.conns : d.extid = Key(o) => d.oid = m.dest
  <2>1. ExtCall(P, m, sent, dropped \cup died)
    BY <1>3, <1>16, OidFacts DEF Passes, ToObject, FromObject, Through, Tied
  <2>2. PICK o \in Oids : sent[m.n] = Proxy(o) /\ \A d \in P.conns : d.oid = m.dest => d.extid = Key(o)
    BY <2>1 DEF ExtCall, Routed
  <2>3. PICK d \in P.conns : d.oid = m.dest
    BY <1>10, <1>16, <2>1 DEF ExtCall
  <2>4. ConnsOK("server", P)
    BY <1>0 DEF RelaysInv, Good
  <2> QED
    BY <2>2, <2>3, <2>4 DEF ConnsOK
<1>17. CASE IsLost(R, r, Q)
  <2>1. Q = R /\ ~r.pExtern /\ Shifts(P, Q)
    BY <1>8, <1>9, <1>17 DEF IsLost, Shifts
  <2>2. ASSUME m.kind = "call", sent[m.n] \notin dropped \cup died
        PROVE  m.src = Ext /\ \E o \in Oids : sent[m.n] = Proxy(o) /\ ~Open(Q, o)
    <3>1. ~ToObject(P, m, sent, dropped \cup died)
      <4> SUFFICES ASSUME ToObject(P, m, sent, dropped \cup died) PROVE FALSE
        OBVIOUS
      <4>1. m.src \in DOMAIN P.relay /\ P.relay[m.src].pExtern /\ P.relay[m.src].localp = m.dest
        BY <1>10, <2>2 DEF ToObject, Through
      <4>2. P.relay[m.src].serves
        BY <1>2, <1>8, <4>1, OidFacts DEF Delivered, ServerCore, ServerRelays, ServerRelay
      <4>3. m.src \in Servers(P, m.dest)
        BY <4>1, <4>2 DEF Servers
      <4> QED
        BY <1>2, <4>3 DEF IsRelay
    <3>2. m.src = Ext
      BY <1>3, <2>2, <3>1 DEF Passes, ExtCall, FromObject
    <3>3. PICK o \in Oids : sent[m.n] = Proxy(o) /\ \E d \in P.conns : d.oid = m.dest /\ d.extid = Key(o)
      BY <1>16, <2>2, <3>2
    <3>4. ~Open(Q, o)
      BY <1>8, <2>1, <3>3 DEF Open
    <3> QED
      BY <3>2, <3>3, <3>4
  <2>3. m.kind = "call" => CallLost(Q, m, sent, dropped \cup died)
    BY <2>2 DEF CallLost
  <2>4. ServerIdles(P, Q, sent, dropped \cup died)
    BY <1>9, <1>10, <2>1, <2>3 DEF ServerIdles, OutIdle, ServerMailIdle
  <2> QED
    BY <1>6, <1>10, <1>13, <1>14, <1>15, <2>4 DEF ServerStep
<1>18. CASE Passed(R, r, m, Q)
  <2>1. PICK x, f : x = r.localp /\ f = Msg(m.dest, x, m.kind, m.iid, m.n)
    OBVIOUS
  <2>2. /\ r.pExtern /\ ExtCall(P, m, sent, dropped \cup died) /\ r.serves
        /\ Same(R, Q, {"outq"}) /\ Q.outq = Append(R.outq, f)
    BY <1>8, <1>18, <2>1 DEF Passed
  <2>3. x \in Oids
    BY <1>8, <2>1, <2>2 DEF ServerOK, ServerCore, ServerRelays, ServerRelay
  <2>4. Q.inq = T.inq /\ Q.outq = Append(T.outq, f) /\ Q.out = P.out
    BY <1>10, <2>2 DEF Same, Field
  <2>5. m.kind = "call" /\ m.src = Ext
    BY <2>2 DEF ExtCall
  <2>6. f \in Message(DOMAIN sent)
    BY <1>8, <1>9, <2>1, <2>3, <2>5, OidFacts DEF Msg, Message, Queued
  <2>7. Mail(Q) = Append(Mail(T), f)
    <3>1. Puts(Message(DOMAIN sent), T, f, Q)
      BY <1>9, <2>4, <2>6 DEF Puts, Good
    <3> QED
      BY <3>1, MailPosted
  <2>8. sent[m.n] \notin dropped \cup died => \E o \in Oids : sent[m.n] = Proxy(o) /\ Open(P, o)
    BY <1>11, <1>16, <2>2, <2>5 DEF Open
  <2>9. PassesCall(P, Q, m, sent, dropped \cup died)
    BY <1>9, <1>10, <2>1, <2>2, <2>3, <2>4, <2>5, <2>7, <2>8 DEF PassesCall
  <2> QED
    BY <1>6, <1>10, <1>13, <1>14, <1>15, <2>9 DEF ServerStep
<1>19. CASE SentOut("server", R, r, m, Q)
  <2>1. Mail(Q) = Mail(T) /\ r.pExtern /\ m.src = r.localp
    BY <1>10, <1>19 DEF SentOut, Same, Field, Mail
  <2>2. PICK c : SentBy("server", R, Q, m.dest, m.kind, m.iid, m.n, c)
    BY <1>19 DEF SentOut
  <2>3. ServerRelay(R, m.dest, dropped)
    BY <1>8 DEF ServerOK, ServerCore, ServerRelays
  <2>4. FromObject(P, m, sent)
    BY <1>8, <2>1, <2>3, OidFacts DEF ExtCall, ServerRelay
  <2>5. c \in P.conns /\ c.oid = m.dest
    BY <1>8, <2>1, <2>2, <2>3 DEF SentBy, Leaves, ServerRelay
  <2>6. PICK o \in Oids : c.extid = Key(o)
    BY <2>4, <2>5 DEF FromObject, Routed
  <2>7. Shifts(P, Q) /\ m.kind = "reply" /\ m.iid = "R"
    BY <1>9, <2>1, <2>4 DEF Shifts, FromObject
  <2>8. CASE P.ext = "open"
    <3>1. Q.out = Append(P.out, [extid |-> Key(o), kind |-> "reply", iid |-> "R", n |-> m.n])
      BY <1>10, <2>2, <2>6, <2>7, <2>8 DEF SentBy
    <3>2. SendsReply(P, Q, m, sent)
      BY <1>9, <2>4, <2>7, <3>1 DEF SendsReply
    <3> QED
      BY <1>6, <1>10, <1>13, <1>14, <1>15, <3>2 DEF ServerStep
  <2>9. CASE P.ext # "open"
    <3>1. Q.out = P.out
      BY <1>10, <2>2, <2>9 DEF SentBy
    <3>2. ServerIdles(P, Q, sent, dropped \cup died)
      BY <1>9, <2>7, <3>1 DEF ServerIdles, OutIdle, ServerMailIdle
    <3> QED
      BY <1>6, <1>10, <1>13, <1>14, <1>15, <3>2 DEF ServerStep
  <2> QED
    BY <2>8, <2>9
<1> QED
  BY <1>5, <1>17, <1>18, <1>19 DEF Relayed

\* A relay for a COM message at the server.
LEMMA ServerRelaysIs ==
    ASSUME RelaysInv, NEW P, P = proc["server"], ServerOK(P, sent, dropped, died),
           PCOM_create_object("server") \/ COMRelay_COM_delete("server")
    PROVE  ServerStep(P, proc'["server"])
<1>0. "server" \in Procs /\ "client" \in Procs /\ DOMAIN proc = Procs
  BY DEF Procs, RelaysInv
<1>1. PICK T, m : T = Taken("server") /\ m = Head(P.inq)
  OBVIOUS
<1>2. /\ Delivered(P, T, m, sent, dropped, died) /\ m.kind \in {"create", "delete"} /\ Delivers("server")
  BY <1>1, DeliveredIs DEF PCOM_create_object, COMRelay_COM_delete
<1>3. m.iid = "COM"
  BY <1>2 DEF Delivered, ServerMail, Creates, ExtCall, ToObject, FromObject, ExtDelete, ToSelf
<1>4. PICK F, Q :
        /\ F = FindOrCreate(T, m) /\ proc' = [proc EXCEPT !["server"] = Q]
        /\ Q = F \/ Q = [F EXCEPT !.relay[m.dest] = Deleted(@)]
  BY <1>1 DEF PCOM_create_object, COMRelay_COM_delete
<1>5. proc'["server"] = Q /\ proc'["client"] = proc["client"]
  BY <1>0, <1>4
<1>6. /\ Mail(P) # <<>> /\ Head(Mail(P)) = m /\ Mail(T) = Tail(Mail(P)) /\ Same(P, T, {"inq"})
      /\ Good("server", T, DOMAIN sent)
  BY <1>0, <1>1, <1>2, TakenMail
<1>7. /\ Same(T, F, {"relay"}) /\ DOMAIN F.relay = DOMAIN T.relay \cup {m.dest}
      /\ \A o \in DOMAIN T.relay : F.relay[o] = T.relay[o]
  BY <1>3, <1>4, <1>6, CreatedIs
<1>8. /\ Same(F, Q, {"relay"}) /\ DOMAIN Q.relay = DOMAIN F.relay
      /\ \A o \in DOMAIN F.relay : Q.relay[o].pExtern => F.relay[o].pExtern
  <2>1. CASE Q = F
    BY <1>7, <2>1 DEF Same
  <2>2. CASE Q = [F EXCEPT !.relay[m.dest] = Deleted(@)]
    <3>1. Same(F, Q, {"relay"}) /\ Q.relay = [F.relay EXCEPT ![m.dest] = Deleted(@)]
      BY <1>7, <2>2 DEF Same, Field
    <3>2. DOMAIN Q.relay = DOMAIN F.relay /\ \A o \in DOMAIN F.relay : o # m.dest => Q.relay[o] = F.relay[o]
      BY <3>1
    <3>3. m.dest \in DOMAIN F.relay /\ Q.relay[m.dest] = Deleted(F.relay[m.dest])
      BY <1>7, <3>1
    <3>4. ~Q.relay[m.dest].pExtern
      <4>1. m.dest \in Oids /\ m \in Message(DOMAIN sent)
        BY <1>1, <1>2 DEF PCOM_create_object, COMRelay_COM_delete, IsRelay, Delivered
      <4>2. F.relay[m.dest] \in Relay
        BY <1>4, <1>6, <4>1, FindOrCreateGood DEF Good, IsProcess
      <4> QED
        BY <3>3, <4>2 DEF Deleted, Relay
    <3> QED
      BY <3>1, <3>2, <3>4
  <2> QED
    BY <1>4, <2>1, <2>2
<1>9. /\ T.relay = P.relay /\ T.conns = P.conns /\ T.ext = P.ext /\ T.out = P.out
  BY <1>6 DEF Same, Field
<1>10. /\ F.conns = T.conns /\ F.ext = T.ext /\ F.out = T.out /\ F.inq = T.inq /\ F.outq = T.outq
  BY <1>7 DEF Same, Field
<1>11. /\ Q.conns = F.conns /\ Q.ext = F.ext /\ Q.out = F.out /\ Q.inq = F.inq /\ Q.outq = F.outq
  BY <1>8 DEF Same, Field
<1>12. Mail(Q) = Tail(Mail(P)) /\ Q.out = P.out /\ Q.ext = P.ext
  BY <1>6, <1>9, <1>10, <1>11 DEF Mail
<1>13. OpenBy(P, Q, dropped \cup died)
  <2>1. P.conns \subseteq Q.conns /\ DOMAIN P.relay \subseteq DOMAIN Q.relay
    BY <1>7, <1>8, <1>9, <1>10, <1>11
  <2>2. \A x \in DOMAIN P.relay : Q.relay[x].pExtern => P.relay[x].pExtern
    BY <1>7, <1>8, <1>9
  <2> QED
    BY <2>1, <2>2, OpenMore
<1>14. ServerIdles(P, Q, sent, dropped \cup died)
  BY <1>2, <1>6, <1>12 DEF ServerIdles, OutIdle, ServerMailIdle, Shifts
<1>15. sent' = sent /\ answers' = answers /\ taken' = taken
  BY DEF PCOM_create_object, COMRelay_COM_delete, history
<1> QED
  BY <1>5, <1>12, <1>13, <1>14, <1>15 DEF ServerStep, HasExt

\* A call to an object of the server.
LEMMA ServerCalledIs ==
    ASSUME RelaysInv, NEW P, P = proc["server"], ServerOK(P, sent, dropped, died), ObjectCalled("server")
    PROVE  ServerStep(P, proc'["server"])
<1>0. "server" \in Procs /\ "client" \in Procs /\ DOMAIN proc = Procs
  BY DEF Procs, RelaysInv
<1>1. PICK T, m : T = Taken("server") /\ m = Head(P.inq)
  OBVIOUS
<1>2. /\ Delivered(P, T, m, sent, dropped, died) /\ Servers(P, m.dest) # {} /\ m.kind = "call"
      /\ Delivers("server")
  BY <1>1, DeliveredIs DEF ObjectCalled
<1>3. PICK N, f, Q :
        /\ N = [T EXCEPT !.objects = With(@, m.dest, Calling(P, m.dest, m.n))]
        /\ f = Msg(m.dest, m.src, "reply", "R", m.n) /\ Q = Post(N, f)
        /\ proc' = [proc EXCEPT !["server"] = N] \/ proc' = [proc EXCEPT !["server"] = Q]
  BY <1>0, <1>1, CalledIs
<1>4. /\ Mail(P) # <<>> /\ Head(Mail(P)) = m /\ Mail(T) = Tail(Mail(P)) /\ Same(P, T, {"inq"})
      /\ Good("server", T, DOMAIN sent) /\ m \in Message(DOMAIN sent)
  BY <1>0, <1>1, <1>2, TakenMail
<1>5. Takes(T, N, m.dest, m.n)
  <2>1. Calling(P, m.dest, m.n) = Calling(T, m.dest, m.n)
    BY <1>2 DEF Calling, Delivered, Alike
  <2> QED
    BY <1>3, <1>4, <2>1, TakesIs
<1>6. /\ HasExt(N) /\ Through(N, m.src, m.dest)
  BY <1>2, <1>5, ServerTakes
<1>7. ToObject(P, m, sent, dropped \cup died)
  <2>1. ServerMail(P, m, sent, dropped, died) /\ ServerCore(P, sent, dropped, died)
    BY <1>2 DEF Delivered
  <2>2. HasExt(P) /\ m.dest \notin P.extlinks
    <3>1. PICK r \in DOMAIN P.relay : P.relay[r].serves /\ P.relay[r].localp = m.dest
      BY <1>2 DEF Servers
    <3> QED
      BY <1>2, <2>1, <3>1, RelayHasExt DEF ServerCore, ServerRelays, ServerRelay
  <2> QED
    BY <1>2, <2>1, <2>2 DEF ServerMail, Creates, ExtCall, FromObject, ExtDelete, ToSelf, Tied
<1>8. /\ N.conns = P.conns /\ N.relay = P.relay /\ N.ext = P.ext /\ N.out = P.out
      /\ N.inq = T.inq /\ N.outq = T.outq /\ DOMAIN N = Field
  <2>1. Same(T, N, {"objects"})
    BY <1>5 DEF Takes
  <2> QED
    BY <1>4, <2>1 DEF Same, Field
<1>9. /\ Q.conns = P.conns /\ Q.relay = P.relay /\ Q.ext = P.ext /\ Q.out = P.out
      /\ Q.inq = T.inq /\ Q.outq = Append(T.outq, f)
  <2>0. Q = Post(N, f) /\ DOMAIN N = Field
    BY <1>3, <1>8
  <2>1. Same(N, Q, {"outq"}) /\ Q.outq = Append(N.outq, f)
    BY <2>0, PostIs
  <2> QED
    BY <1>8, <2>1 DEF Same, Field
<1>10. Mail(N) = Tail(Mail(P))
  BY <1>4, <1>8 DEF Mail
<1>11. Mail(Q) = Append(Tail(Mail(P)), f)
  <2>1. f \in Message(DOMAIN sent)
    BY <1>3, <1>4, <1>6, OidFacts DEF Msg, Message, Queued, Kinds, Through, Tied
  <2>2. Puts(Message(DOMAIN sent), T, f, Q)
    BY <1>4, <1>9, <2>1 DEF Puts, Good
  <2>3. Mail(Q) = Append(Mail(T), f)
    BY <2>2, MailPosted
  <2> QED
    BY <1>4, <2>3
<1>12. HasExt(P)
  BY <1>6, <1>8 DEF HasExt
<1>13. PICK X : proc'["server"] = X /\ X \in {N, Q}
  BY <1>0, <1>3
<1>14. /\ X.conns = P.conns /\ X.relay = P.relay /\ X.ext = P.ext /\ X.out = P.out
       /\ Mail(X) = Tail(Mail(P)) \/ Mail(X) = Append(Tail(Mail(P)), f)
  BY <1>8, <1>9, <1>10, <1>11, <1>13
<1>15. OpenBy(P, X, dropped \cup died)
  BY <1>14, OpenMore
<1>16. TakesCall(P, X, m, sent, dropped \cup died)
  BY <1>3, <1>4, <1>7, <1>12, <1>14 DEF TakesCall
<1>17. sent' = sent /\ answers' = answers /\ taken' = Append(taken, m.n)
  BY <1>1 DEF ObjectCalled
<1>18. proc'["client"] = proc["client"]
  BY <1>0, <1>3
<1> QED
  BY <1>13, <1>14, <1>15, <1>16, <1>17, <1>18 DEF ServerStep, HasExt

\* casycom_mark_unused by an object of the server.
LEMMA ServerDiesIs ==
    ASSUME RelaysInv, NEW P, P = proc["server"], ObjectDies("server")
    PROVE  ServerStep(P, proc'["server"])
<1>1. PICK x, Q : proc' = [proc EXCEPT !["server"] = Q] /\ Q = [P EXCEPT !.objects[x].unused = TRUE]
  BY DEF ObjectDies
<1>2. Good("server", P, DOMAIN sent) /\ proc'["server"] = Q /\ proc'["client"] = proc["client"]
  BY <1>1 DEF RelaysInv, Procs
<1>3. /\ Q.conns = P.conns /\ Q.relay = P.relay /\ Q.ext = P.ext /\ Q.out = P.out
      /\ Q.inq = P.inq /\ Q.outq = P.outq
  BY <1>1, <1>2 DEF Field, Good
<1>4. OpenBy(P, Q, dropped \cup died)
  BY <1>3, OpenMore
<1>5. ServerIdles(P, Q, sent, dropped \cup died)
  BY <1>3 DEF ServerIdles, OutIdle, ServerMailIdle, Mail
<1>6. sent' = sent /\ answers' = answers /\ taken' = taken
  BY DEF ObjectDies
<1> QED
  BY <1>2, <1>3, <1>4, <1>5, <1>6 DEF ServerStep, HasExt

\* casycom_error in an object of the server.
LEMMA ServerFailsIs ==
    ASSUME RelaysInv, NEW P, P = proc["server"], ServerOK(P, sent, dropped, died), ObjectFails("server")
    PROVE  ServerStep(P, proc'["server"])
<1>1. PICK x \in DOMAIN P.objects, r \in DOMAIN P.relay :
        /\ r \in Servers(P, x) /\ P.relay[r].pExtern /\ Origin("server", x) \cap died = {}
        /\ proc' = [proc EXCEPT !["server"] = Outgoing("server", @, r, "error", "COM", Last(@.objects[x].calls))]
  BY DEF ObjectFails
<1>2. PICK n : n = Last(P.objects[x].calls)
  OBVIOUS
<1>3. PICK Q : Q = Outgoing("server", P, r, "error", "COM", n)
  OBVIOUS
<1>4. /\ Good("server", P, DOMAIN sent) /\ proc'["server"] = Q /\ proc'["client"] = proc["client"]
  BY <1>1, <1>2, <1>3 DEF RelaysInv, Procs
<1>5. PICK c : SentBy("server", P, Q, r, "error", "COM", n, c) /\ Same(P, Q, {"conns", "extlinks", "out"})
  BY <1>3, <1>4, OutgoingIs DEF Good
<1>6. ServerCore(P, sent, dropped, died) /\ ServerRelays(P, dropped) /\ ServerRelay(P, r, dropped)
  BY <1>1 DEF ServerOK, ServerCore, ServerRelays
<1>7. c \in P.conns /\ c.oid = r
  BY <1>1, <1>5, <1>6 DEF SentBy, Leaves, ServerRelay
<1>8. /\ Q.conns = P.conns /\ Q.relay = P.relay /\ Q.ext = P.ext
      /\ Q.inq = P.inq /\ Q.outq = P.outq
      /\ Q.out = IF P.ext = "open" THEN Append(P.out, [extid |-> c.extid, kind |-> "error", iid |-> "COM", n |-> n])
                                   ELSE P.out
  BY <1>5, <1>7 DEF SentBy, Same, Field
<1>9. OpenBy(P, Q, dropped \cup died)
  BY <1>8, OpenMore
<1>10. sent' = sent /\ answers' = answers /\ taken' = taken
  BY DEF ObjectFails
<1>11. Mail(Q) = Mail(P)
  BY <1>8 DEF Mail
<1>12. CASE P.ext = "open"
  <2>1. Of(P, r, Origin("server", x))
    BY <1>1, <1>6, OriginOf
  <2>2. PICK o \in Oids : Proxy(o) \in Origin("server", x) /\ c.extid = Key(o)
    BY <1>7, <2>1 DEF Of
  <2>3. TellsError(P, Q, died)
    BY <1>1, <1>8, <1>11, <1>12, <2>2 DEF TellsError
  <2> QED
    BY <1>4, <1>8, <1>9, <1>10, <2>3 DEF ServerStep, HasExt
<1>13. CASE P.ext # "open"
  <2>1. ServerIdles(P, Q, sent, dropped \cup died)
    BY <1>8, <1>11, <1>13 DEF ServerIdles, OutIdle, ServerMailIdle
  <2> QED
    BY <1>4, <1>8, <1>9, <1>10, <2>1 DEF ServerStep, HasExt
<1> QED
  BY <1>12, <1>13

\* The steps of the server that leave connections and relays alone.
LEMMA ServerQuietIs ==
    ASSUME RelaysInv, NEW P, P = proc["server"], ServerOK(P, sent, dropped, died),
           \/ DropMessage("server") \/ AppConnected("server") \/ AppAnswered("server")
           \/ AppCloses("server") \/ Extern_Extern_close("server") \/ ReadClosed("server")
    PROVE  ServerStep(P, proc'["server"])
<1>1. PICK Q : proc' = [proc EXCEPT !["server"] = Q] /\ Quiet(P, Q)
  BY QuietIs DEF Procs
<1>2. proc'["server"] = Q /\ proc'["client"] = proc["client"]
  BY <1>1 DEF RelaysInv, Procs
<1>3. ServerCore(P, sent, dropped, died) /\ ServerRelays(P, dropped)
  BY DEF ServerOK, ServerCore
<1>4. ASSUME NEW m \in Range(Mail(P)), Skipped(P, m), m.kind = "call"
      PROVE  CallLost(Q, m, sent, dropped \cup died)
  <2>1. ServerMail(P, m, sent, dropped, died)
    BY <1>3 DEF ServerCore
  <2>2. ExtCall(P, m, sent, dropped \cup died) \/ ToObject(P, m, sent, dropped \cup died)
    BY <1>4, <2>1 DEF ServerMail, Creates, FromObject, ExtDelete, ToSelf
  <2>3. m.dest \notin Linked(P)
    BY <1>4, <2>2, OidFacts DEF ExtCall, ToObject, Through, Tied, Skipped
  <2>4. HasExt(Q) => HasExt(P)
    BY <1>1 DEF Quiet
  <2>5. CASE ExtCall(P, m, sent, dropped \cup died)
    BY <2>3, <2>4, <2>5 DEF ExtCall, Tied, Linked, CallLost
  <2>6. CASE ToObject(P, m, sent, dropped \cup died)
    <3>1. m.src \in DOMAIN P.relay /\ P.relay[m.src].pExtern => m.dest \in Linked(P)
      BY <2>6 DEF ToObject, Through, Linked
    <3> QED
      BY <2>3, <2>4, <2>6, <3>1 DEF ToObject, CallLost
  <2> QED
    BY <2>2, <2>5, <2>6
<1>5. Mail(P) # <<>> => Head(Mail(P)) \in Range(Mail(P))
  <2>1. P.inq \in Seq(Queued) /\ P.outq \in Seq(Queued)
    BY DEF RelaysInv, Good, IsProcess, Procs
  <2>2. Mail(P) \in Seq(Queued)
    BY <2>1, MailIs
  <2> QED
    BY <2>2, RangeHead
<1>6. Q.relay = P.relay /\ Q.conns = P.conns
  BY <1>1 DEF Quiet, Same, Field
<1>7. OpenBy(P, Q, dropped \cup died)
  BY <1>6, OpenMore
<1>8. OutIdle(P, Q)
  BY <1>1 DEF Quiet, OutIdle
<1>9. ServerMailIdle(P, Q, sent, dropped \cup died)
  BY <1>1, <1>4, <1>5 DEF Quiet, QuietMail, ServerMailIdle, Shifts
<1>10. ~AppAnswered("server")
  <2> SUFFICES ASSUME AppAnswered("server") PROVE FALSE
    OBVIOUS
  <2>1. PICK T, m : T = Taken("server") /\ m = Head(P.inq)
    OBVIOUS
  <2>2. Delivered(P, T, m, sent, dropped, died) /\ m.dest = App /\ m.kind = "reply"
    BY <2>1, DeliveredIs DEF AppAnswered
  <2> QED
    BY <2>2, OidFacts DEF Delivered, ServerMail, Creates, ExtCall, ToObject, FromObject, ExtDelete, ToSelf,
                          Through, Tied
<1>11. sent' = sent /\ answers' = answers /\ taken' = taken
  BY <1>10 DEF DropMessage, AppConnected, AppCloses, Extern_Extern_close, ReadClosed, history
<1> QED
  BY <1>1, <1>2, <1>7, <1>8, <1>9, <1>11 DEF ServerStep, ServerIdles, Quiet

\* Relays that are destroyed had the connections of proxies that are gone.
LEMMA OpenSwept ==
    ASSUME NEW P, NEW Q, NEW U, Swept(P, Q, U), NEW gone, \A r \in U : Of(P, r, gone)
    PROVE  OpenBy(P, Q, gone)
<1>1. ASSUME NEW o \in Oids, Proxy(o) \notin gone, Open(Q, o), NEW d \in P.conns, d.extid = Key(o),
             d.oid \in DOMAIN P.relay
      PROVE  P.relay[d.oid].pExtern
  <2>1. d.oid \notin U
    <3> SUFFICES ASSUME d.oid \in U PROVE FALSE
      OBVIOUS
    <3>1. PICK q \in Oids : Proxy(q) \in gone /\ d.extid = Key(q)
      BY DEF Of
    <3> QED
      BY <1>1, <3>1, KeyFacts
  <2>2. d \in Q.conns /\ d.oid \in DOMAIN Q.relay /\ Q.relay[d.oid] = P.relay[d.oid]
    BY <1>1, <2>1 DEF Swept
  <2> QED
    BY <1>1, <2>2 DEF Open
<1> QED
  BY <1>1 DEF OpenBy, Open

\* The end of a round of the server.
LEMMA ServerRoundIs ==
    ASSUME RelaysInv, NEW P, P = proc["server"], ServerOK(P, sent, dropped, died), EndRound("server")
    PROVE  ServerStep(P, proc'["server"])
<1>1. PICK R, G, U, Q : Rounds("server", P, R, G, U, Q) /\ proc' = [proc EXCEPT !["server"] = Q]
  BY RoundIs DEF Procs
<1>2. proc'["server"] = Q /\ proc'["client"] = proc["client"]
  BY <1>1 DEF RelaysInv, Procs
<1>3. /\ Alike(P, R) /\ Mail(R) = Mail(P) /\ R.out = P.out /\ DOMAIN R = Field /\ R.ext = P.ext
      /\ R.relay = P.relay /\ R.conns = P.conns
  BY <1>1 DEF Rounds, Same, Field, Alike, HasExt
<1>4. ServerCore(R, sent, dropped, died)
  <2>1. ServerCore(P, sent, dropped, died) /\ Paired(Mail(R)) /\ Waiting(R) \subseteq Waiting(P)
    BY <1>3 DEF ServerOK, ServerCore, Waiting
  <2> QED
    BY <1>3, <2>1, CoreMail
<1>5. ServerCore(G, sent, dropped, died)
  BY <1>1, <1>3, <1>4, ServerGone DEF Rounds, ServerOK
<1>6. Good("server", G, DOMAIN sent) /\ U = UnusedRelays(G)
  BY <1>1 DEF Rounds
<1>7. ASSUME NEW o \in U
      PROVE  /\ o \in DOMAIN G.relay /\ Of(G, o, dropped \cup died)
             /\ G.relay[o].pExtern => G.relay[o].localp # NoOid /\ \E c \in G.conns : c.oid = o
  <2>1. o \in DOMAIN G.relay /\ (\/ G.relay[o].unused
                                 \/ \E x \in DOMAIN G.objects : G.objects[x].unused /\ o \in Servers(G, x))
    BY <1>6, <1>7 DEF UnusedRelays
  <2>2. ServerRelay(G, o, dropped)
    BY <1>5, <2>1 DEF ServerCore, ServerRelays
  <2>3. CASE G.relay[o].unused
    BY <2>1, <2>2, <2>3 DEF ServerRelay, Of
  <2>4. CASE ~G.relay[o].unused
    <3>1. PICK x \in DOMAIN G.objects : G.objects[x].unused /\ o \in Servers(G, x)
      BY <2>1, <2>4
    <3>2. Of(G, o, dropped \cup died)
      BY <1>5, <3>1 DEF ServerCore, Serving, Of
    <3>3. G.relay[o].localp # NoOid
      BY <2>2, <3>1, OidFacts DEF Servers, ServerRelay
    <3> QED
      BY <2>1, <2>2, <3>2, <3>3 DEF ServerRelay
  <2> QED
    BY <2>3, <2>4
<1>8. U \subseteq DOMAIN G.relay /\ Connected(G, U)
  BY <1>7 DEF Connected
<1>9. Swept(G, Q, U)
  BY <1>1, <1>6, <1>8, SweptAll DEF Rounds, Procs
<1>10. Mail(Q) = Mail(G) /\ Q.ext = G.ext /\ OutIdle(G, Q)
  BY <1>9, SweptIdle
<1>11. sent' = sent /\ answers' = answers /\ taken' = taken
  BY DEF EndRound, history
<1>12. CASE R.ext = "closed"
  <2>1. G.ext = "gone" /\ G.inq = R.inq /\ G.outq = R.outq /\ G.out = R.out
    BY <1>1, <1>3, <1>12 DEF Rounds, Extern_destroy, Field
  <2>2. ~HasExt(Q) /\ Q.ext # "open" /\ Mail(Q) = Mail(P)
    BY <1>3, <1>10, <2>1 DEF HasExt, Mail
  <2>3. OpenBy(P, Q, dropped \cup died)
    BY <2>2 DEF OpenBy
  <2>4. ServerIdles(P, Q, sent, dropped \cup died)
    BY <1>3, <1>10, <2>1, <2>2 DEF ServerIdles, OutIdle, ServerMailIdle
  <2> QED
    BY <1>2, <1>11, <2>2, <2>3, <2>4 DEF ServerStep
<1>13. CASE R.ext # "closed"
  <2>1. G = R
    BY <1>1, <1>13 DEF Rounds
  <2>2. OpenBy(R, Q, dropped \cup died)
    BY <1>7, <1>9, <2>1, OpenSwept
  <2>3. OpenBy(P, Q, dropped \cup died)
    BY <1>3, <2>2 DEF OpenBy, Open
  <2>4. ServerIdles(P, Q, sent, dropped \cup died) /\ Q.ext = P.ext
    BY <1>3, <1>10, <2>1 DEF ServerIdles, OutIdle, ServerMailIdle
  <2> QED
    BY <1>2, <1>11, <2>3, <2>4 DEF ServerStep, HasExt
<1> QED
  BY <1>12, <1>13

\* The end of the server.
LEMMA ServerExitIs ==
    ASSUME RelaysInv, NEW P, P = proc["server"], Exit("server")
    PROVE  ServerStep(P, proc'["server"])
<1>1. PICK Q : Q = proc'["server"]
  OBVIOUS
<1>2. Ceases(P, Q) /\ proc'["client"] = proc["client"]
  BY <1>1, ExitIs DEF Procs
<1>3. sent' = sent /\ answers' = answers /\ taken' = taken
  BY DEF Exit, history
<1>4. ~HasExt(Q) /\ Q.ext # "open"
  BY <1>2 DEF Ceases, HasExt
<1>5. OpenBy(P, Q, dropped \cup died)
  BY <1>4 DEF OpenBy
<1>6. ServerIdles(P, Q, sent, dropped \cup died)
  BY <1>2, <1>4 DEF Ceases, ServerIdles, OutIdle, ServerMailIdle
<1> QED
  BY <1>1, <1>2, <1>3, <1>4, <1>5, <1>6 DEF ServerStep

\* The server reads.
LEMMA ServerReadIs ==
    ASSUME RelaysInv, NEW P, P = proc["server"], ClientOK(proc["client"], sent, dropped, died),
           Extern_reading("server")
    PROVE  ServerStep(P, proc'["server"])
<1>1. PICK w, Q, R :
            /\ w \in Sendable(DOMAIN sent)
            /\ proc'["server"] = Q /\ proc'["client"] = R /\ P.ext = "open" /\ Free(P) # {}
            /\ Given(proc["client"], w, R) /\ Comes("server", P, w, Q)
  BY ReadIs DEF Procs, Other
<1>2. sent' = sent /\ answers' = answers /\ taken' = taken
  BY DEF Extern_reading
<1>3. /\ Good("server", P, DOMAIN sent) /\ DOMAIN P = Field
      /\ P.inq \in Seq(Queued) /\ P.outq \in Seq(Queued)
  BY DEF RelaysInv, Procs, Good, IsProcess
<1>4. ClientOut(w, sent, dropped)
  <2>1. proc["client"].out \in Seq(Written) /\ proc["client"].out # <<>> /\ w = Head(proc["client"].out)
    BY <1>1 DEF Given, RelaysInv, Good, IsProcess, Procs
  <2>2. w \in Range(proc["client"].out)
    BY <2>1, RangeHead
  <2> QED
    BY <2>2 DEF ClientOK
<1>5. CASE Q \in Closed(P)
  <2>1. Same(P, Q, {"ext", "out"}) /\ Q.ext = "closed"
        /\ \E k \in 0 .. Len(P.out) : Q.out = SubSeq(P.out, 1, k)
    BY <1>1, <1>3, <1>5, ClosedIs
  <2>2. Mail(Q) = Mail(P) /\ Q.relay = P.relay /\ Q.conns = P.conns
    BY <2>1 DEF Same, Field, Mail
  <2>3. OpenBy(P, Q, dropped \cup died)
    BY <2>2, OpenMore
  <2>4. ServerIdles(P, Q, sent, dropped \cup died) /\ Q.ext # "open" /\ HasExt(P)
    BY <1>1, <2>1, <2>2 DEF ServerIdles, OutIdle, ServerMailIdle, HasExt
  <2> QED
    BY <1>1, <1>2, <2>3, <2>4 DEF ServerStep
<1>6. CASE w.iid = "COM" /\ Q = P
  <2>1. w.kind # "call"
    BY <1>4, <1>6, IfaceFacts DEF ClientOut
  <2>2. OpenBy(P, Q, dropped \cup died)
    BY <1>6 DEF OpenBy
  <2>3. ServerIdles(P, Q, sent, dropped \cup died)
    BY <1>6 DEF ServerIdles, OutIdle, ServerMailIdle
  <2> QED
    BY <1>1, <1>2, <1>6, <2>1, <2>2, <2>3 DEF ServerStep
<1>7. CASE TakesExport("server", P, w, Q)
  <2>1. PICK a : a = Msg(Ext, App, "connected", "COM", 0)
    OBVIOUS
  <2>2. /\ Same(P, Q, {"interfaces", "outq"}) /\ Q.outq = Append(P.outq, a) /\ w.kind = "export"
    BY <1>7, <2>1 DEF TakesExport
  <2>3. a \in Queued /\ ToSelf(a)
    BY <2>1 DEF Msg, Queued, Kinds, Ext, App, ToSelf
  <2>4. Mail(Q) = Append(Mail(P), a)
    <3>1. Puts(Queued, P, a, Q)
      BY <1>3, <2>2, <2>3 DEF Puts, Same, Field
    <3> QED
      BY <3>1, MailPosted
  <2>5. Q.out = P.out /\ Q.relay = P.relay /\ Q.conns = P.conns /\ Q.ext = P.ext
    BY <2>2 DEF Same, Field
  <2>6. OpenBy(P, Q, dropped \cup died)
    BY <2>5, OpenMore
  <2>7. ServerIdles(P, Q, sent, dropped \cup died)
    BY <2>3, <2>4, <2>5 DEF ServerIdles, OutIdle, ServerMailIdle
  <2> QED
    BY <1>1, <1>2, <2>2, <2>5, <2>6, <2>7 DEF ServerStep, HasExt
<1>8. ASSUME NEW c, TakesKnown("server", P, w, c, Q) PROVE ServerStep(P, Q)
  <2>1. PICK o, a : o = c.oid /\ a = Msg(Ext, o, w.kind, w.iid, w.n)
    OBVIOUS
  <2>2. /\ Same(P, Q, {"extlinks", "outq"}) /\ Q.outq = Append(P.outq, a) /\ c \in P.conns
    BY <1>8, <2>1 DEF TakesKnown
  <2>3. o \in Oids
    BY <1>3, <2>1, <2>2 DEF Good, ConnsOK
  <2>4. a \in Queued
    BY <1>1, <2>1, <2>3, OidFacts DEF Msg, Queued, Sendable, Written, Ext
  <2>5. Mail(Q) = Append(Mail(P), a)
    <3>1. Puts(Queued, P, a, Q)
      BY <1>3, <2>2, <2>4 DEF Puts, Same, Field
    <3> QED
      BY <3>1, MailPosted
  <2>6. Q.out = P.out /\ Q.relay = P.relay /\ Q.conns = P.conns /\ Q.ext = P.ext
    BY <2>2 DEF Same, Field
  <2>7. OpenBy(P, Q, dropped \cup died)
    BY <2>6, OpenMore
  <2>8. ReadsCall(P, Q, w)
    BY <2>1, <2>3, <2>5, <2>6 DEF ReadsCall
  <2> QED
    BY <1>1, <1>2, <2>6, <2>7, <2>8 DEF ServerStep, HasExt
<1>9. ASSUME NEW o, TakesNew("server", P, w, o, Q), IsExported("server", w.iid) PROVE ServerStep(P, Q)
  <2>1. PICK c, a : c = Msg(Ext, o, "create", "COM", 0) /\ a = Msg(Ext, o, w.kind, w.iid, w.n)
    OBVIOUS
  <2>2. o \in Oids
    BY <1>1, <1>9, FreeIs DEF TakesNew, Free
  <2>3. w.kind = "call" /\ w.iid \in Iface
    BY <1>4, <1>9 DEF ClientOut, TakesNew
  <2>4. Mail(Q) = Append(Append(Mail(P), c), a)
    <3>1. a = Msg(Ext, o, "call", w.iid, w.n)
      BY <2>1, <2>3
    <3> QED
      BY <1>1, <1>3, <1>9, <2>1, <2>3, <3>1, NewMail
  <2>5. Q.out = P.out /\ Q.relay = P.relay /\ P.conns \subseteq Q.conns /\ Q.ext = P.ext
    BY <1>9 DEF TakesNew, Same, Field
  <2>6. OpenBy(P, Q, dropped \cup died)
    BY <2>5, OpenMore
  <2>7. ReadsCall(P, Q, w)
    BY <2>1, <2>2, <2>4, <2>5 DEF ReadsCall
  <2> QED
    BY <1>1, <1>2, <2>5, <2>6, <2>7 DEF ServerStep, HasExt
<1> QED
  BY <1>1, <1>5, <1>6, <1>7, <1>8, <1>9 DEF Comes

\* Every step of the server.
LEMMA ServerStepIs ==
    ASSUME RelaysInv, NEW P, P = proc["server"], ServerOK(P, sent, dropped, died),
           ClientOK(proc["client"], sent, dropped, died),
           Loop("server") \/ Socket("server") \/ Program("server")
    PROVE  ServerStep(P, proc'["server"])
<1>1. ~AppCalls("server") /\ ~AppDrops("server") /\ ~COMRelay_COM_error("server")
  <2>1. ServerIdle(proc["server"])
    BY DEF ServerOK, ServerCore, ServerRelays
  <2> QED
    BY <2>1, ServerLeaves, ServerNoError
<1> QED
  BY <1>1, ServerMessageIs, ServerRelaysIs, ServerCalledIs, ServerDiesIs, ServerFailsIs, ServerQuietIs,
     ServerRoundIs, ServerExitIs, ServerReadIs DEF Loop, Socket, Program

-----------------------------------------------------------------------------
(* The end of an object is told before its relay is deleted *)

\* A queue that loses messages, or gains none of these, stays in order.
LEMMA ThinsEnds ==
    ASSUME NEW P, NEW Q, Mail(P) \in Seq(Queued), Ordered(Mail(P), MailEnds), MailThins(P, Q)
    PROVE  /\ Ordered(Mail(Q), MailEnds)
           /\ \A o : \A k \in {"error", "delete"} : Tells(Q, k, o) => Tells(P, k, o)
<1>1. ASSUME NEW M \in Seq(Queued), Ordered(M, MailEnds), Range(M) \subseteq Range(Mail(P)),
             NEW a, a.kind \notin {"error", "delete"}, Mail(Q) = Append(M, a)
      PROVE  /\ Ordered(Mail(Q), MailEnds)
             /\ \A o : \A k \in {"error", "delete"} : Tells(Q, k, o) => Tells(P, k, o)
  <2>1. \A b \in Range(M) : <<b, a>> \notin MailEnds
    BY <1>1 DEF MailEnds
  <2>2. Ordered(Mail(Q), MailEnds)
    BY <1>1, <2>1, OrderedAppend
  <2>3. Range(Mail(Q)) = Range(M) \cup {a}
    BY <1>1, RangeAppend
  <2> QED
    BY <1>1, <2>2, <2>3 DEF Tells
<1>2. CASE Mail(Q) = Mail(P)
  BY <1>2 DEF Tells
<1>3. CASE Mail(Q) = <<>>
  BY <1>3, EmptyOrdered DEF Tells
<1>4. CASE Mail(P) # <<>>
  <2>1. /\ Tail(Mail(P)) \in Seq(Queued) /\ Range(Tail(Mail(P))) \subseteq Range(Mail(P))
    BY <1>4, RangeHead
  <2>2. Ordered(Tail(Mail(P)), MailEnds)
    BY <1>4, OrderedTail
  <2>3. CASE Mail(Q) = Tail(Mail(P))
    BY <2>1, <2>2, <2>3 DEF Tells
  <2> QED
    BY <1>1, <1>2, <1>3, <2>1, <2>2, <2>3 DEF MailThins
<1> QED
  BY <1>1, <1>2, <1>3, <1>4 DEF MailThins

\* Nothing is told of a relay whose deletion was the first message.
LEMMA DeletedLast ==
    ASSUME NEW P, NEW Q, Mail(P) \in Seq(Queued), Ordered(Mail(P), MailEnds), Shifts(P, Q),
           Head(Mail(P)).kind = "delete"
    PROVE  Tells(P, "delete", Head(Mail(P)).dest) /\ ~Tells(Q, "error", Head(Mail(P)).dest)
<1>1. PICK m : m = Head(Mail(P))
  OBVIOUS
<1>2. m \in Queued /\ m \in Range(Mail(P)) /\ Range(Mail(Q)) \subseteq Queued
  <2>1. Head(Mail(P)) \in Queued /\ Head(Mail(P)) \in Range(Mail(P)) /\ Tail(Mail(P)) \in Seq(Queued)
    BY RangeHead DEF Shifts
  <2>2. Range(Tail(Mail(P))) \subseteq Queued
    BY <2>1 DEF Range
  <2> QED
    BY <1>1, <2>1, <2>2 DEF Shifts
<1>3. \A b \in Range(Mail(Q)) : <<m, b>> \notin MailEnds
  BY <1>1, OrderedTail DEF Shifts
<1>4. ASSUME NEW b \in Range(Mail(Q)), b.kind = "error", b.dest = m.dest PROVE FALSE
  <2>1. <<m, b>> \in MailEnds
    BY <1>1, <1>2, <1>4 DEF MailEnds
  <2> QED
    BY <1>3, <2>1
<1> QED
  BY <1>1, <1>2, <1>4 DEF Tells

\* No error reaches a relay of the client whose connection is left.
LEMMA NoStrayIs ==
    ASSUME RelaysInv, NEW P, P = proc["client"], ClientOK(P, sent, dropped, died),
           NEW W, EndsOK(P, W, died), COMRelay_COM_error("client")
    PROVE  NoStray(proc'["client"])
<1>1. PICK m, T, Q : m = Head(P.inq) /\ T = Taken("client") /\ Q = FindOrCreate(T, m)
  OBVIOUS
<1>2. /\ Delivers("client") /\ m.dest \in Oids /\ m.kind = "error" /\ proc' = [proc EXCEPT !["client"] = Q]
  BY <1>1 DEF COMRelay_COM_error, IsRelay
<1>3. proc'["client"] = Q
  BY <1>2 DEF RelaysInv, Procs
<1>4. /\ Same(P, T, {"inq"}) /\ Good("client", T, DOMAIN sent) /\ m \in Range(Mail(P))
  BY <1>1, <1>2, TakenMail DEF Procs
<1>5. ClientMail(P, m, sent, died)
  BY <1>4 DEF ClientOK
<1>6. m.iid = "COM"
  BY <1>2, <1>5 DEF ClientMail, AppCall, ExtReply, AppReply, ExtEnd, ToSelf
<1>7. /\ DOMAIN Q.relay = DOMAIN T.relay \cup {m.dest}
      /\ \A o \in DOMAIN T.relay : Q.relay[o] = T.relay[o]
      /\ m.dest \notin DOMAIN T.relay =>
            (Q.relay[m.dest].pExtern <=> HasExt(T) /\ \E c \in T.conns : c.oid = m.dest)
  BY <1>1, <1>4, <1>6, CreatedIs
<1>8. T.relay = P.relay /\ T.conns = P.conns /\ (HasExt(T) <=> HasExt(P))
  BY <1>4 DEF Same, Field, HasExt
<1>9. ASSUME NEW o \in DOMAIN Q.relay, Q.relay[o].pExtern PROVE Q.relay[o].localp # NoOid
  <2>1. CASE o \in DOMAIN P.relay
    BY <1>7, <1>8, <1>9, <2>1 DEF ClientOK, ClientRelays, App, NoOid
  <2>2. CASE o \notin DOMAIN P.relay
    <3>1. o = m.dest
      BY <1>7, <1>8, <2>2
    <3>2. Cut(P, o)
      BY <1>7, <1>8, <1>9, <2>2, <3>1 DEF Cut
    <3>3. Tells(P, "error", o)
      BY <1>2, <1>4, <3>1 DEF Tells
    <3> QED
      BY <1>2, <3>1, <3>2, <3>3 DEF EndsOK
  <2> QED
    BY <2>1, <2>2
<1> QED
  BY <1>3, <1>9 DEF NoStray

\* What the server's steps do to what is written.
LEMMA ServerOutEnds ==
    ASSUME NEW P, NEW Q, ServerStep(P, Q)
    PROVE  OutEndsMore(P.out, Q.out, died)
<1>1. OutIdle(P, Q) => OutEndsMore(P.out, Q.out, died)
  BY DEF OutIdle, OutEndsMore
<1>2. TellsError(P, Q, died) => OutEndsMore(P.out, Q.out, died)
  BY DEF TellsError, OutEndsMore
<1>3. \A m : SendsReply(P, Q, m, sent) => OutEndsMore(P.out, Q.out, died)
  BY DEF SendsReply, OutEndsMore
<1>4. Q.out = P.out => OutEndsMore(P.out, Q.out, died)
  BY DEF OutEndsMore
<1> QED
  BY <1>1, <1>2, <1>3, <1>4 DEF ServerStep, ServerIdles, PassesCall, TakesCall, ReadsCall

\* Ends stay in order when the server writes more.
LEMMA EndsServer ==
    ASSUME NEW P, NEW V, NEW W, NEW s, NEW dr, NEW di, NEW ei, EndsOK(P, V, di), di \subseteq ei,
           V \in Seq(Written), \A v \in Range(V) : ServerOut(v, s, di), ClientOK(P, s, dr, di),
           OutEndsMore(V, W, di)
    PROVE  EndsOK(P, W, ei)
<1>1. ASSUME Ordered(W, OutEnds), \A o \in Oids : Says(W, "error", o) => Says(V, "error", o)
      PROVE  EndsOK(P, W, ei)
  BY <1>1 DEF EndsOK
<1>2. CASE W = V
  BY <1>1, <1>2 DEF EndsOK
<1>3. ASSUME NEW k \in 0 .. Len(V), W = SubSeq(V, 1, k) PROVE EndsOK(P, W, ei)
  <2>1. Ordered(W, OutEnds)
    BY <1>3, OrderedPrefix DEF EndsOK
  <2>2. Range(W) \subseteq Range(V)
    BY <1>3, RangePrefix
  <2> QED
    BY <1>1, <2>1, <2>2 DEF Says
<1>4. ASSUME NEW t \in Seq(Written), W = V \o t, \A w \in Range(t) : w.kind # "error" PROVE EndsOK(P, W, ei)
  <2>1. \A a \in Range(t) : \A b : <<b, a>> \notin OutEnds
    BY <1>4 DEF OutEnds
  <2>2. Ordered(W, OutEnds)
    BY <1>4, <2>1, OrderedConcat DEF EndsOK
  <2>3. Range(W) = Range(V) \cup Range(t)
    BY <1>4, ConcatFacts
  <2> QED
    BY <1>1, <1>4, <2>2, <2>3 DEF Says
<1>5. ASSUME NEW w, W = Append(V, w), w.kind = "error" => \E o \in Oids : w.extid = Key(o) /\ Proxy(o) \notin di
      PROVE  EndsOK(P, W, ei)
  <2>1. Range(W) = Range(V) \cup {w}
    BY <1>5, RangeAppend
  <2>2. CASE w.kind # "error"
    <3>1. \A a \in Range(V) : <<a, w>> \notin OutEnds
      BY <2>2 DEF OutEnds
    <3>2. Ordered(W, OutEnds)
      BY <1>5, <3>1, OrderedAppend DEF EndsOK
    <3> QED
      BY <1>1, <2>1, <2>2, <3>2 DEF Says
  <2>3. CASE w.kind = "error"
    <3>1. PICK o \in Oids : w.extid = Key(o) /\ Proxy(o) \notin di
      BY <1>5, <2>3
    <3>2. \A a \in Range(V) : a.kind = "delete" => a.extid # w.extid
      <4>1. ASSUME NEW a \in Range(V), a.kind = "delete", a.extid = w.extid PROVE FALSE
        <5>1. PICK q \in Oids : a.extid = Key(q) /\ Proxy(q) \in di
          BY <4>1 DEF ServerOut
        <5> QED
          BY <3>1, <4>1, <5>1, KeyFacts
      <4> QED
        BY <4>1
    <3>3. Ordered(W, OutEnds)
      <4>1. \A a \in Range(V) : <<a, w>> \notin OutEnds
        BY <3>2 DEF OutEnds
      <4> QED
        BY <1>5, <4>1, OrderedAppend DEF EndsOK
    <3>4. ~Tells(P, "delete", o)
      <4>1. ASSUME NEW m \in Range(Mail(P)), m.kind = "delete", m.dest = o PROVE FALSE
        <5>1. ClientMail(P, m, s, di)
          BY DEF ClientOK
        <5> QED
          BY <3>1, <4>1, <5>1 DEF ClientMail, AppCall, ExtReply, AppReply, ExtEnd, ToSelf
      <4> QED
        BY <4>1 DEF Tells
    <3>5. ~Cut(P, o)
      BY <3>1 DEF EndsOK
    <3>6. \A q \in Oids : Says(W, "error", q) => Says(V, "error", q) \/ q = o
      BY <2>1, <3>1, KeyFacts DEF Says
    <3> QED
      BY <3>3, <3>4, <3>5, <3>6 DEF EndsOK
  <2> QED
    BY <2>2, <2>3
<1> QED
  BY <1>2, <1>3, <1>4, <1>5 DEF OutEndsMore

\* What the server has written is read from its beginning.
LEMMA EndsRead ==
    ASSUME NEW P, NEW W \in Seq(Written), W # <<>>, NEW di, EndsOK(P, W, di)
    PROVE  EndsOK(P, Tail(W), di)
<1>1. Ordered(Tail(W), OutEnds)
  BY OrderedTail DEF EndsOK
<1>2. Range(Tail(W)) \subseteq Range(W)
  BY RangeHead
<1> QED
  BY <1>1, <1>2 DEF EndsOK, Says

\* A client that is read from has its messages and relays.
LEMMA EndsGiven ==
    ASSUME NEW P, NEW w, NEW Q, Given(P, w, Q), NEW W, NEW di, EndsOK(P, W, di)
    PROVE  EndsOK(Q, W, di)
<1>1. /\ Mail(Q) = Mail(P) /\ (HasExt(Q) <=> HasExt(P)) /\ Q.conns = P.conns /\ Q.relay = P.relay
  BY DEF Given, Same, Field, Mail, HasExt
<1>2. \A o : Cut(Q, o) => Cut(P, o)
  BY <1>1 DEF Cut
<1>3. \A k, o : Tells(Q, k, o) => Tells(P, k, o)
  BY <1>1 DEF Tells
<1> QED
  BY <1>1, <1>2, <1>3 DEF EndsOK

\* The client tells its relays no more than it did, and a deletion last.
LEMMA EndsThins ==
    ASSUME NEW P, NEW Q, NEW W, NEW s, NEW dr, NEW di, EndsOK(P, W, di), ClientOK(P, s, dr, di),
           Mail(P) \in Seq(Queued), MailThins(P, Q), CutBy(P, Q)
    PROVE  EndsOK(Q, W, di)
<1>1. /\ Ordered(Mail(Q), MailEnds)
      /\ \A o : \A k \in {"error", "delete"} : Tells(Q, k, o) => Tells(P, k, o)
  BY ThinsEnds DEF EndsOK
<1>2. ASSUME NEW o \in Oids, Cut(Q, o)
      PROVE  Proxy(o) \in di /\ ~Tells(Q, "error", o) /\ ~Says(W, "error", o)
  <2>1. CASE Cut(P, o)
    BY <1>1, <2>1 DEF EndsOK
  <2>2. CASE Shifts(P, Q) /\ Head(Mail(P)).kind = "delete" /\ Head(Mail(P)).dest = o
    <3>1. Shifts(P, Q) /\ Head(Mail(P)).kind = "delete" /\ Ordered(Mail(P), MailEnds)
      BY <2>2 DEF EndsOK
    <3>2. Tells(P, "delete", Head(Mail(P)).dest) /\ ~Tells(Q, "error", Head(Mail(P)).dest)
      BY <3>1, DeletedLast
    <3>3. PICK m \in Range(Mail(P)) : m.kind = "delete" /\ m.dest = o
      BY <2>2, <3>2 DEF Tells
    <3>4. ClientMail(P, m, s, di)
      BY DEF ClientOK
    <3>5. Proxy(o) \in di
      BY <3>3, <3>4 DEF ClientMail, AppCall, ExtReply, AppReply, ExtEnd, ToSelf
    <3> QED
      BY <2>2, <3>2, <3>5 DEF EndsOK
  <2> QED
    BY <1>2, <2>1, <2>2 DEF CutBy
<1> QED
  BY <1>1, <1>2 DEF EndsOK

\* The client reads the end of an object.
LEMMA EndsReads ==
    ASSUME NEW P, NEW Q, NEW W \in Seq(Written), W # <<>>, NEW s, NEW dr, NEW di,
           EndsOK(P, W, di), ClientOK(P, s, dr, di), Mail(P) \in Seq(Queued), CutBy(P, Q),
           NEW w, w = Head(W), NEW o, ReadsFor(P, Q, w, o)
    PROVE  EndsOK(Q, Tail(W), di)
<1>1. PICK a : a = Msg(Ext, o, w.kind, w.iid, w.n)
  OBVIOUS
<1>2. /\ o \in Oids /\ w.extid = Key(o) /\ Mail(Q) = Append(Mail(P), a)
      /\ a.kind = w.kind /\ a.dest = o
  BY <1>1 DEF ReadsFor, Msg
<1>3. CASE Shifts(P, Q)
  <2>1. MailThins(P, Q)
    BY <1>3 DEF Shifts, MailThins
  <2> QED
    BY <2>1, EndsThins, EndsRead
<1>4. CASE ~Shifts(P, Q)
  <2>1. w \in Range(W) /\ w \in Written /\ Range(Tail(W)) \subseteq Range(W) /\ Tail(W) \in Seq(Written)
    BY RangeHead
  <2>2. Ordered(Tail(W), OutEnds) /\ \A v \in Range(Tail(W)) : <<w, v>> \notin OutEnds
    BY OrderedTail DEF EndsOK
  <2>3. Range(Tail(W)) \subseteq Written
    BY <2>1 DEF Range
  <2>4. Range(Mail(Q)) = Range(Mail(P)) \cup {a}
    BY <1>2, RangeAppend
  <2>5. w.kind = "error" => Says(W, "error", o)
    BY <1>2, <2>1 DEF Says
  <2>6. Ordered(Mail(Q), MailEnds)
    <3>1. ASSUME NEW b \in Range(Mail(P)), <<b, a>> \in MailEnds PROVE FALSE
      <4>1. b.kind = "delete" /\ a.kind = "error" /\ b.dest = a.dest
        BY <3>1 DEF MailEnds
      <4>2. Tells(P, "delete", o)
        BY <1>2, <4>1 DEF Tells
      <4> QED
        BY <1>2, <2>5, <4>1, <4>2 DEF EndsOK
    <3> QED
      BY <1>2, <3>1, OrderedAppend DEF EndsOK
  <2>7. ASSUME NEW x \in Oids, Tells(Q, "delete", x), Says(Tail(W), "error", x) PROVE FALSE
    <3>1. Says(W, "error", x)
      BY <2>1, <2>7 DEF Says
    <3>2. ~Tells(P, "delete", x)
      BY <3>1 DEF EndsOK
    <3>3. a.kind = "delete" /\ a.dest = x
      BY <2>4, <2>7, <3>2 DEF Tells
    <3>4. PICK v \in Range(Tail(W)) : v.kind = "error" /\ v.extid = Key(x)
      BY <2>7 DEF Says
    <3>5. <<w, v>> \in OutEnds
      BY <1>2, <2>1, <2>3, <3>3, <3>4 DEF OutEnds
    <3> QED
      BY <2>2, <3>5
  <2>8. ASSUME NEW x \in Oids, Cut(Q, x)
        PROVE  Proxy(x) \in di /\ ~Tells(Q, "error", x) /\ ~Says(Tail(W), "error", x)
    <3>1. Cut(P, x)
      BY <1>4, <2>8 DEF CutBy
    <3>2. Proxy(x) \in di /\ ~Tells(P, "error", x) /\ ~Says(W, "error", x)
      BY <3>1 DEF EndsOK
    <3>3. ~Tells(Q, "error", x)
      <4>1. ~(a.kind = "error" /\ a.dest = x)
        BY <1>2, <2>5, <3>2
      <4> QED
        BY <2>4, <3>2, <4>1 DEF Tells
    <3> QED
      BY <2>1, <3>2, <3>3 DEF Says
  <2> QED
    BY <2>2, <2>6, <2>7, <2>8 DEF EndsOK
<1> QED
  BY <1>3, <1>4

\* A step of the client.
LEMMA EndsClient ==
    ASSUME RelaysInv, NEW P, P = proc["client"], ClientOK(P, sent, dropped, died),
           NEW W, W = proc["server"].out, EndsOK(P, W, died), NEW Q, ClientStep(P, Q)
    PROVE  EndsOK(Q, proc'["server"].out, died)
<1>1. Mail(P) \in Seq(Queued) /\ W \in Seq(Written)
  BY MailIs DEF RelaysInv, Procs, Good, IsProcess
<1>2. CutBy(P, Q)
  BY DEF ClientStep
<1>3. \A s, gone : Idles(P, Q, s, gone) => MailThins(P, Q)
  <2>1. \A a : ToSelf(a) => a.kind \notin {"error", "delete"}
    BY DEF ToSelf
  <2> QED
    BY <2>1 DEF Idles, MailIdle, MailThins, Shifts
<1>4. \A m : SendsCall(P, Q, m, sent) \/ GetsReply(P, Q, m, sent) => MailThins(P, Q)
  BY DEF SendsCall, GetsReply, MailThins, Shifts
<1>5. ASSUME NEW m, PassesReply(P, Q, m, sent) PROVE MailThins(P, Q)
  <2>1. Msg(m.dest, App, m.kind, m.iid, m.n).kind \notin {"error", "delete"}
    BY <1>5 DEF PassesReply, ExtReply, Msg
  <2> QED
    BY <1>5, <2>1 DEF PassesReply, MailThins
<1>6. ASSUME NEW o, NEW i, NEW n, MakesCall(P, Q, o, i, n) PROVE MailThins(P, Q)
  <2>1. Msg(App, o, "call", i, n).kind \notin {"error", "delete"}
    BY DEF Msg
  <2> QED
    BY <1>6, <2>1 DEF MakesCall, MailThins
<1>7. CASE MailThins(P, Q) /\ proc'["server"] = proc["server"]
  BY <1>1, <1>2, <1>7, EndsThins
<1>8. ASSUME NEW w, Given(proc["server"], w, proc'["server"]),
             Idles(P, Q, sent, dropped \cup died) \/ \E o : ReadsFor(P, Q, w, o)
      PROVE  EndsOK(Q, proc'["server"].out, died)
  <2>1. W # <<>> /\ w = Head(W) /\ proc'["server"].out = Tail(W)
    BY <1>8 DEF Given
  <2>2. CASE MailThins(P, Q)
    <3>1. EndsOK(Q, W, died)
      BY <1>1, <1>2, <2>2, EndsThins
    <3> QED
      BY <1>1, <2>1, <3>1, EndsRead
  <2>3. ASSUME NEW o, ReadsFor(P, Q, w, o) PROVE EndsOK(Q, proc'["server"].out, died)
    <3>1. EndsOK(Q, Tail(W), died)
      BY <1>1, <1>2, <2>1, <2>3, EndsReads
    <3> QED
      BY <2>1, <3>1
  <2> QED
    BY <1>3, <1>8, <2>2, <2>3
<1> QED
  BY <1>3, <1>4, <1>5, <1>6, <1>7, <1>8 DEF ClientStep

-----------------------------------------------------------------------------
(* The invariant *)

\* At first there is only the list of exports to be read.
LEMMA InitRoutes == Init => RoutesInv
<1> SUFFICES ASSUME Init PROVE RoutesInv
  OBVIOUS
<1>1. RelaysInv
  BY InitRelays
<1>2. PICK w : w = [extid |-> extid_COM, kind |-> "export", iid |-> "COM", n |-> 0]
  OBVIOUS
<1>3. ASSUME NEW p \in Procs
      PROVE  /\ proc[p].ext = "open" /\ proc[p].conns = {} /\ proc[p].applinks = {} /\ proc[p].extlinks = {}
             /\ proc[p].interfaces = {} /\ proc[p].relay = <<>> /\ proc[p].objects = <<>>
             /\ proc[p].inq = <<>> /\ proc[p].outq = <<>> /\ proc[p].out = <<w>>
  BY <1>2, Zenon DEF Init
<1>4. DOMAIN <<>> = {} /\ Range(<<>>) = {} /\ Range(<<w>>) = {w} /\ \A R : Ordered(<<>>, R)
  <2>1. DOMAIN <<>> = {}
    OBVIOUS
  <2>2. Range(<<w>>) = {w}
    BY DEF Range
  <2> QED
    BY <2>1, <2>2, EmptyOrdered
<1>5. ASSUME NEW p \in Procs PROVE Mail(proc[p]) = <<>>
  BY <1>3 DEF Mail
<1>6. sent = <<>>
  BY DEF Init
<1>7. ClientOK(proc["client"], sent, dropped, died)
  <2>1. PICK P : P = proc["client"]
    OBVIOUS
  <2>2. /\ P.conns = {} /\ P.applinks = {} /\ P.interfaces = {}
        /\ DOMAIN P.relay = {} /\ DOMAIN P.objects = {} /\ Range(Mail(P)) = {} /\ Range(P.out) = {w}
    BY <1>3, <1>4, <1>5, <2>1 DEF Procs
  <2>3. ClientRelays(P) /\ ClientKept(P, died)
    BY <2>2 DEF ClientRelays, ClientKept
  <2>4. ClientSent(P, sent, dropped)
    BY <1>4, <1>6 DEF ClientSent
  <2>5. ClientOut(w, sent, dropped)
    BY <1>2 DEF ClientOut
  <2> QED
    BY <2>1, <2>2, <2>3, <2>4, <2>5 DEF ClientOK
<1>8. ServerOK(proc["server"], sent, dropped, died)
  <2>1. PICK P : P = proc["server"]
    OBVIOUS
  <2>2. /\ P.conns = {} /\ P.applinks = {} /\ P.interfaces = {} /\ P.extlinks = {}
        /\ DOMAIN P.relay = {} /\ DOMAIN P.objects = {} /\ Range(Mail(P)) = {} /\ Range(P.out) = {w}
        /\ Mail(P) = <<>>
    BY <1>3, <1>4, <1>5, <2>1 DEF Procs
  <2>3. ServerRelays(P, dropped) /\ Awaits(P)
    BY <2>2 DEF ServerRelays, ServerIdle, Awaits
  <2>4. Paired(Mail(P))
    BY <1>4, <2>2 DEF Paired
  <2>5. ServerOut(w, sent, died)
    BY <1>2 DEF ServerOut
  <2> QED
    BY <2>1, <2>2, <2>3, <2>4, <2>5 DEF ServerOK, ServerCore
<1>9. EndsOK(proc["client"], proc["server"].out, died)
  <2>1. PICK P : P = proc["client"]
    OBVIOUS
  <2>2. Mail(P) = <<>> /\ P.conns = {} /\ proc["server"].out = <<w>>
    BY <1>3, <1>5, <2>1 DEF Procs
  <2>3. /\ \A k, o : ~Tells(P, k, o) /\ (k # "export" => ~Says(<<w>>, k, o))
    BY <1>2, <1>4, <2>2 DEF Tells, Says
  <2>4. Ordered(<<w>>, OutEnds)
    <3>1. DOMAIN <<w>> = {1}
      OBVIOUS
    <3> QED
      BY <3>1 DEF Ordered
  <2> QED
    BY <1>4, <2>1, <2>2, <2>3, <2>4 DEF EndsOK, Cut
<1> QED
  BY <1>1, <1>7, <1>8, <1>9 DEF RoutesInv

\* A step of the client,
LEMMA RoutesClient ==
    ASSUME OneWay, RoutesInv, Acts("client"), RelaysInv'
    PROVE  RoutesInv'
<1>1. PICK P, S : P = proc["client"] /\ S = proc["server"]
  OBVIOUS
<1>2. /\ RelaysInv /\ ClientOK(P, sent, dropped, died) /\ ServerOK(S, sent, dropped, died)
      /\ EndsOK(P, S.out, died)
  BY <1>1 DEF RoutesInv
<1>3. COMRelay_COM_error("client") => NoStray(proc'["client"])
  BY <1>1, <1>2, NoStrayIs
<1>4. \A w \in Range(S.out) : ServerOut(w, sent, died)
  BY <1>2 DEF ServerOK, ServerCore
<1>5. ClientOK(proc'["client"], sent', dropped', died') /\ died' = died
  BY <1>1, <1>2, <1>3, <1>4, ClientActs DEF Acts
<1>6. ServerOK(proc'["server"], sent', dropped', died')
  BY <1>1, <1>2, <1>5, ServerWaits DEF Acts
<1>7. EndsOK(proc'["client"], proc'["server"].out, died)
  <2>1. ClientStep(P, proc'["client"])
    BY <1>1, <1>2, ClientStepIs DEF Acts
  <2> QED
    BY <1>1, <1>2, <2>1, EndsClient
<1> QED
  BY <1>5, <1>6, <1>7 DEF RoutesInv

\* and one of the server.
LEMMA RoutesServer ==
    ASSUME OneWay, RoutesInv, Acts("server"), RelaysInv'
    PROVE  RoutesInv'
<1>1. PICK P, S : P = proc["client"] /\ S = proc["server"]
  OBVIOUS
<1>2. /\ RelaysInv /\ ClientOK(P, sent, dropped, died) /\ ServerOK(S, sent, dropped, died)
      /\ EndsOK(P, S.out, died)
  BY <1>1 DEF RoutesInv
<1>3. ServerIdle(S) /\ \A w \in Range(S.out) : ServerOut(w, sent, died)
  BY <1>2 DEF ServerOK, ServerCore, ServerRelays
<1>4. ServerOK(proc'["server"], sent', dropped', died')
  BY <1>1, <1>2, ServerActs DEF Acts
<1>5. ClientOK(proc'["client"], sent', dropped', died') /\ died \subseteq died'
  BY <1>1, <1>2, <1>3, ServerLeaves DEF Acts
<1>6. ServerStep(S, proc'["server"])
  BY <1>1, <1>2, ServerStepIs DEF Acts
<1>7. S.out \in Seq(Written)
  BY <1>1, <1>2 DEF RelaysInv, Procs, Good, IsProcess
<1>8. EndsOK(P, proc'["server"].out, died')
  <2>1. OutEndsMore(S.out, proc'["server"].out, died)
    BY <1>6, ServerOutEnds
  <2> QED
    BY <1>2, <1>3, <1>5, <1>7, <2>1, EndsServer
<1>9. EndsOK(proc'["client"], proc'["server"].out, died')
  <2>1. CASE proc'["client"] = P
    BY <1>8, <2>1
  <2>2. ASSUME NEW w, Given(P, w, proc'["client"]) PROVE EndsOK(proc'["client"], proc'["server"].out, died')
    BY <1>8, <2>2, EndsGiven
  <2> QED
    BY <1>1, <1>6, <2>1, <2>2 DEF ServerStep
<1> QED
  BY <1>4, <1>5, <1>9 DEF RoutesInv

\* Every step keeps the invariant.
LEMMA NextRoutes == OneWay /\ RoutesInv /\ [Next]_vars => RoutesInv'
<1> SUFFICES ASSUME OneWay, RoutesInv, [Next]_vars PROVE RoutesInv'
  OBVIOUS
<1>1. RelaysInv'
  BY NextRelays DEF RoutesInv
<1>2. CASE UNCHANGED vars
  BY <1>1, <1>2 DEF RoutesInv, vars
<1>3. ASSUME NEW p \in Procs, Acts(p) PROVE RoutesInv'
  BY <1>1, <1>3, RoutesClient, RoutesServer DEF Procs
<1> QED
  BY <1>2, <1>3 DEF Next, Acts

\* If only the client has proxies, what calls and replies go through is as RoutesInv
\* says: every relay, connection and message is of one proxy of the client.
THEOREM RoutesInvariance == ASSUME OneWay PROVE Spec => []RoutesInv
<1>1. Init => RoutesInv
  BY InitRoutes
<1>2. RoutesInv /\ [Next]_vars => RoutesInv'
  BY NextRoutes
<1> QED
  BY <1>1, <1>2, PTL DEF Spec

-----------------------------------------------------------------------------
(* The ways of calls and of replies as pipelines *)

\* All of these messages have numbers.
LEMMA AllLabelled ==
    /\ Labelled(Calls) /\ Labelled(RelayCalls) /\ Labelled(ObjectCalls) /\ Labelled(SentCalls)
    /\ Labelled(Replies) /\ Labelled(RelayReplies) /\ Labelled(AppReplies) /\ Labelled(SentReplies)
    /\ Labelled(Answers)
<1>1. /\ \A m \in Queued : m.n \in Nat
      /\ \A w \in Written : w.n \in Nat
      /\ \A a \in [proc : Procs, oid : Nat, kind : Kinds, n : Nat] : a.n \in Nat
  BY DEF Queued, Written
<1> QED
  BY <1>1 DEF Labelled, Calls, RelayCalls, ObjectCalls, SentCalls, Replies, RelayReplies,
              AppReplies, SentReplies, Answers

\* The stages of the calls.
LEMMA CallsWayIs ==
    ASSUME NEW tk, NEW S, NEW C, NEW X, X = CallsWay(tk, S, C)
    PROVE  /\ X[1] = Order(tk) /\ X[2] = Stage(Mail(S), ObjectCalls) /\ X[3] = Stage(Mail(S), RelayCalls)
           /\ X[4] = Stage(C.out, SentCalls) /\ X[5] = Stage(Mail(C), Calls)
BY DEF CallsWay

\* The stages of the replies.
LEMMA RepliesWayIs ==
    ASSUME NEW an, NEW S, NEW C, NEW X, X = RepliesWay(an, S, C)
    PROVE  /\ X[1] = Stage(an, Answers) /\ X[2] = Stage(Mail(C), AppReplies)
           /\ X[3] = Stage(Mail(C), RelayReplies) /\ X[4] = Stage(S.out, SentReplies)
           /\ X[5] = Stage(Mail(S), Replies)
BY DEF RepliesWay

\* A proxy is in Reach when its oid is reached.
LEMMA ReachIs ==
    ASSUME NEW S, NEW C, NEW k \in Places
    PROVE  /\ \A o \in Oids : Proxy(o) \in Reach(S, C)[k] <=> Reaches(S, C, k, o)
           /\ \A pr \in Reach(S, C)[k] : \E o \in Oids : pr = Proxy(o) /\ Reaches(S, C, k, o)
<1>1. Reach(S, C)[k] = {Proxy(o) : o \in {x \in Oids : Reaches(S, C, k, x)}}
  BY DEF Reach
<1>2. \A o, q : Proxy(o) = Proxy(q) => o = q
  BY DEF Proxy
<1> QED
  BY <1>1, <1>2

\* What is reached gets less, but for proxies that are gone.
LEMMA ReachNarrows ==
    ASSUME NEW S, NEW C, NEW T, NEW D, NEW gone, T.ext = "open" => S.ext = "open",
           D.ext = "open" => C.ext = "open", HasExt(T) => HasExt(S), OpenBy(S, T, gone)
    PROVE  Narrows(Reach(S, C), Reach(T, D), gone)
<1>1. ASSUME NEW k \in Places, NEW pr \in Reach(T, D)[k] \ gone PROVE pr \in Reach(S, C)[k]
  <2>1. PICK o \in Oids : pr = Proxy(o) /\ Reaches(T, D, k, o)
    BY ReachIs
  <2>2. k > 2 => k > 1
    BY DEF Places
  <2>3. Reaches(S, C, k, o)
    BY <1>1, <2>1, <2>2 DEF Reaches, OpenBy
  <2> QED
    BY <2>1, <2>3, ReachIs
<1>2. ASSUME NEW i \in Places, NEW k \in Places, i <= k, NEW pr \in Reach(T, D)[k] PROVE pr \in Reach(T, D)[i]
  <2>1. PICK o \in Oids : pr = Proxy(o) /\ Reaches(T, D, k, o)
    BY ReachIs
  <2>2. (i > 1 => k > 1) /\ (i > 2 => k > 2) /\ (i > 3 => k > 3) /\ (i > 4 => k > 4)
    BY <1>2 DEF Places
  <2>3. Reaches(T, D, i, o)
    BY <2>1, <2>2 DEF Reaches
  <2> QED
    BY <2>1, <2>3, ReachIs
<1> QED
  BY <1>1, <1>2 DEF Narrows

-----------------------------------------------------------------------------
(* Calls on their way: the client *)

\* The queues of a good process are sequences of messages.
LEMMA TypedIs == \A p, P, D : Good(p, P, D) => Typed(P)
<1>1. ASSUME NEW p, NEW P, NEW D, Good(p, P, D) PROVE Typed(P)
  <2>1. P.inq \in Seq(Queued) /\ P.outq \in Seq(Queued) /\ P.out \in Seq(Written)
    BY <1>1 DEF Good, IsProcess
  <2> QED
    BY <2>1, MailIs DEF Typed
<1> QED
  BY <1>1

\* What is written when no call or reply is.
LEMMA OutIdleStage ==
    ASSUME NEW P, NEW Q, OutIdle(P, Q), Typed(P), NEW A, Labelled(A), \A w \in A : w.kind # "delete"
    PROVE  \/ Keeps(Stage(P.out, A), Stage(Q.out, A))
           \/ Q.ext # "open" /\ Cuts(Stage(P.out, A), Stage(Q.out, A))
<1>1. P.out \in Seq(Written)
  BY DEF Typed
<1>2. CASE Q.out = P.out
  BY <1>2, SameStage
<1>3. ASSUME Q.ext # "open", NEW k \in 0 .. Len(P.out), Q.out = SubSeq(P.out, 1, k)
      PROVE  Q.ext # "open" /\ Cuts(Stage(P.out, A), Stage(Q.out, A))
  BY <1>1, <1>3, StagePrefix
<1>4. ASSUME NEW t \in Seq(Written), Q.out = P.out \o t, \A w \in Range(t) : w.kind = "delete"
      PROVE  Keeps(Stage(P.out, A), Stage(Q.out, A))
  <2>1. \A i \in DOMAIN t : t[i] \notin A
    BY <1>4 DEF Range
  <2> QED
    BY <1>1, <1>4, <2>1, StageConcat
<1> QED
  BY <1>2, <1>3, <1>4 DEF OutIdle

\* The queues when the first message is taken, or a message to itself is posted.
LEMMA ShiftsStage ==
    ASSUME NEW P, NEW Q, Typed(P), NEW A, Labelled(A), Shifts(P, Q), NEW m, m = Head(Mail(P))
    PROVE  /\ m \in A => Gives(Stage(Mail(P), A), Stage(Mail(Q), A), m.n)
           /\ m \notin A => Keeps(Stage(Mail(P), A), Stage(Mail(Q), A))
BY StageTail DEF Typed, Shifts

\* A message to itself is no call or reply.
LEMMA ToSelfStage ==
    ASSUME NEW P, NEW Q, Typed(P), NEW A, Labelled(A), \A m \in A : m.kind \in {"call", "reply"},
           NEW a, ToSelf(a), Mail(Q) = Append(Mail(P), a)
    PROVE  Keeps(Stage(Mail(P), A), Stage(Mail(Q), A))
<1>1. a \notin A
  BY DEF ToSelf
<1> QED
  BY <1>1, StageAppend DEF Typed

\* What kinds of messages they are.
LEMMA KindsOf ==
    /\ \A m \in Calls : m.kind = "call" /\ m.kind # "reply"
    /\ \A m \in RelayCalls : m.kind = "call" /\ m.src = Ext
    /\ \A m \in ObjectCalls : m.kind = "call" /\ m.src # Ext
    /\ \A m \in SentCalls : m.kind = "call"
    /\ \A m \in Replies : m.kind = "reply"
    /\ \A m \in RelayReplies : m.kind = "reply" /\ m.src = Ext
    /\ \A m \in AppReplies : m.kind = "reply" /\ m.src # Ext
    /\ \A m \in SentReplies : m.kind = "reply"
BY DEF Calls, RelayCalls, ObjectCalls, SentCalls, Replies, RelayReplies, AppReplies, SentReplies

\* What the client's steps that make no call do to the calls.
LEMMA IdleCalls ==
    ASSUME NEW P, NEW Q, NEW S, NEW T, NEW s, NEW gone, NEW tk, Typed(P), Idles(P, Q, s, gone),
           Mail(T) = Mail(S), NEW X, X = CallsWay(tk, S, P), NEW Y, Y = CallsWay(tk, T, Q)
    PROVE  Loses(X, Y, Reach(T, Q), s, gone)
<1>1. /\ X[1] = Y[1] /\ X[2] = Y[2] /\ X[3] = Y[3]
      /\ X[4] = Stage(P.out, SentCalls) /\ Y[4] = Stage(Q.out, SentCalls)
      /\ X[5] = Stage(Mail(P), Calls) /\ Y[5] = Stage(Mail(Q), Calls)
  <2>1. /\ Order(tk) = X[1] /\ X[2] = Stage(Mail(S), ObjectCalls) /\ X[3] = Stage(Mail(S), RelayCalls)
        /\ X[4] = Stage(P.out, SentCalls) /\ X[5] = Stage(Mail(P), Calls)
    BY CallsWayIs
  <2>2. /\ Y[1] = Order(tk) /\ Y[2] = Stage(Mail(T), ObjectCalls) /\ Y[3] = Stage(Mail(T), RelayCalls)
        /\ Y[4] = Stage(Q.out, SentCalls) /\ Y[5] = Stage(Mail(Q), Calls)
    BY CallsWayIs
  <2> QED
    BY <2>1, <2>2
<1>2. /\ \A k \in Places : k = 1 \/ k = 2 \/ k = 3 \/ k = 4 \/ k = 5
      /\ 5 \in Places /\ 5 > 4
  BY DEF Places
<1>3. ASSUME Q.ext # "open" PROVE Reach(T, Q)[5] = {}
  <2>1. \A pr \in Reach(T, Q)[5] : \E o \in Oids : pr = Proxy(o) /\ Reaches(T, Q, 5, o)
    BY <1>2, ReachIs
  <2> QED
    BY <1>2, <1>3, <2>1 DEF Reaches
<1>4. Keeps(X[4], Y[4]) \/ (Q.ext # "open" /\ Cuts(X[4], Y[4]))
  BY <1>1, AllLabelled, KindsOf, OutIdleStage DEF Idles
<1>5. /\ Less(X[4], Y[4])
      /\ \A c \in X[4].n \ Y[4].n : Reach(T, Q)[5] = {} /\ Cuts(X[4], Y[4])
  BY <1>3, <1>4 DEF Keeps, Less, Cuts
<1>6. /\ Less(X[5], Y[5])
      /\ \A c \in X[5].n \ Y[5].n : s[c] \in gone \/ s[c] \notin Reach(T, Q)[5]
  <2>1. CASE Mail(Q) = Mail(P)
    BY <1>1, <2>1, SameStage
  <2>2. CASE Shifts(P, Q) /\ (Q.ext = "open" /\ Head(Mail(P)).kind = "call" => s[Head(Mail(P)).n] \in gone)
    <3>1. PICK m : m = Head(Mail(P))
      OBVIOUS
    <3>2. /\ m \in Calls => Gives(X[5], Y[5], m.n)
          /\ m \notin Calls => Keeps(X[5], Y[5])
      BY <1>1, <2>2, <3>1, AllLabelled, ShiftsStage
    <3>3. m \in Calls => Q.ext # "open" \/ s[m.n] \in gone
      BY <2>2, <3>1, KindsOf
    <3>4. Less(X[5], Y[5]) /\ \A c \in X[5].n \ Y[5].n : m \in Calls /\ c = m.n
      BY <3>2 DEF Gives, Keeps, Less
    <3> QED
      BY <1>3, <3>3, <3>4
  <2>3. ASSUME NEW a, ToSelf(a), Mail(Q) = Append(Mail(P), a)
        PROVE  /\ Less(X[5], Y[5])
               /\ \A c \in X[5].n \ Y[5].n : s[c] \in gone \/ s[c] \notin Reach(T, Q)[5]
    <3>1. Keeps(X[5], Y[5])
      BY <1>1, <2>3, AllLabelled, KindsOf, ToSelfStage
    <3> QED
      BY <3>1 DEF Keeps, Less
  <2>4. CASE Mail(Q) = <<>> /\ Q.ext # "open"
    <3>1. Y[5].n = {} /\ Y[5].q = {}
      BY <1>1, <2>4, AllLabelled, StageEmpty
    <3> QED
      BY <1>3, <2>4, <3>1 DEF Less
  <2> QED
    BY <2>1, <2>2, <2>3, <2>4 DEF Idles, MailIdle
<1>7. Shrinks(X, Y)
  BY <1>1, <1>5, <1>6, SameStage, AllPlaces
<1> QED
  BY <1>1, <1>2, <1>5, <1>6, <1>7 DEF Loses

\* A process that only gives what it has written is not moved.
LEMMA UnmovedIs ==
    ASSUME NEW S, NEW T, T = S \/ \E w : Given(S, w, T)
    PROVE  Unmoved(S, T) /\ \A o : Open(T, o) <=> Open(S, o)
<1>1. Unmoved(S, T)
  <2>1. CASE T = S
    BY <2>1 DEF Unmoved
  <2>2. ASSUME NEW w, Given(S, w, T) PROVE Unmoved(S, T)
    BY <2>2 DEF Given, Same, Field, Mail, HasExt, Unmoved
  <2> QED
    BY <2>1, <2>2
<1> QED
  BY <1>1 DEF Unmoved, Open

\* One message is taken and another posted.
LEMMA ReplacesStage ==
    ASSUME NEW P, NEW Q, Typed(P), NEW A, Labelled(A), Mail(P) # <<>>, NEW m, m = Head(Mail(P)),
           NEW a, Mail(Q) = Append(Tail(Mail(P)), a)
    PROVE  /\ m \notin A /\ a \notin A => Keeps(Stage(Mail(P), A), Stage(Mail(Q), A))
           /\ m \in A /\ a \notin A => Gives(Stage(Mail(P), A), Stage(Mail(Q), A), m.n)
           /\ m \notin A /\ a \in A => Gains(Stage(Mail(P), A), Stage(Mail(Q), A), a.n)
<1>1. PICK M, N, R : M = Mail(P) /\ N = Tail(M) /\ R = Append(N, a)
  OBVIOUS
<1>2. M \in Seq(Queued) /\ M # <<>> /\ N \in Seq(Queued) /\ m = Head(M)
  BY <1>1 DEF Typed
<1>3. /\ m \in A => Gives(Stage(M, A), Stage(N, A), m.n)
      /\ m \notin A => Keeps(Stage(M, A), Stage(N, A))
  BY <1>1, <1>2, StageTail
<1>4. /\ a \in A => Gains(Stage(N, A), Stage(R, A), a.n)
      /\ a \notin A => Keeps(Stage(N, A), Stage(R, A))
  BY <1>1, <1>2, StageAppend
<1> QED
  BY <1>1, <1>3, <1>4, StageMoves

\* What the client's steps do to the calls on their way: they move a stage, are
\* lost as they may be, or a new one enters.
LEMMA CallsClient ==
    ASSUME RelaysInv, NEW P, P = proc["client"], ClientOK(P, sent, dropped, died),
           NEW S, S = proc["server"], \A w \in Range(S.out) : ServerOut(w, sent, died),
           NEW Q, NEW T, T = proc'["server"], ClientStep(P, Q), Typed(Q),
           NEW tk, NEW X, X = CallsWay(tk, S, P), NEW Y, Y = CallsWay(tk, T, Q)
    PROVE  \/ sent' = sent /\ CallsMove(X, Y, Reach(S, P), Reach(T, Q), sent, dropped \cup died)
           \/ \E o \in Oids : sent' = Append(sent, Proxy(o)) /\ Enters(X, Y, Len(sent) + 1)
<1>1. Typed(P) /\ Typed(S)
  BY TypedIs DEF RelaysInv, Procs
<1>2. Unmoved(S, T) /\ \A o : Open(T, o) <=> Open(S, o)
  BY UnmovedIs DEF ClientStep
<1>3. /\ X[1] = Order(tk) /\ X[2] = Stage(Mail(S), ObjectCalls) /\ X[3] = Stage(Mail(S), RelayCalls)
      /\ X[4] = Stage(P.out, SentCalls) /\ X[5] = Stage(Mail(P), Calls)
  BY CallsWayIs
<1>4. /\ Y[1] = Order(tk) /\ Y[2] = Stage(Mail(T), ObjectCalls) /\ Y[3] = Stage(Mail(T), RelayCalls)
      /\ Y[4] = Stage(Q.out, SentCalls) /\ Y[5] = Stage(Mail(Q), Calls)
  BY CallsWayIs
<1>5. Keeps(X[1], Y[1]) /\ Keeps(X[2], Y[2]) /\ Keeps(X[3], Y[3])
  BY <1>2, <1>3, <1>4, SameStage DEF Unmoved
<1>6. Q.out = P.out => Keeps(X[4], Y[4])
  BY <1>3, <1>4, SameStage
<1>7. ASSUME Idles(P, Q, sent, dropped \cup died) PROVE CallsMove(X, Y, Reach(S, P), Reach(T, Q), sent, dropped \cup died)
  BY <1>1, <1>2, <1>7, IdleCalls DEF CallsMove, Unmoved
<1>8. ASSUME NEW m, SendsCall(P, Q, m, sent)
      PROVE  CallsMove(X, Y, Reach(S, P), Reach(T, Q), sent, dropped \cup died)
  <2>1. PICK w : w = [extid |-> Key(m.dest), kind |-> m.kind, iid |-> m.iid, n |-> m.n]
    OBVIOUS
  <2>2. /\ Shifts(P, Q) /\ m = Head(Mail(P)) /\ m.kind = "call" /\ m.dest \in Oids
        /\ sent[m.n] = Proxy(m.dest) /\ P.ext = "open" /\ Q.out = Append(P.out, w)
    BY <1>8, <2>1 DEF SendsCall, AppCall
  <2>3. m \in Calls
    <3>1. m \in Queued
      BY <1>1, <2>2, RangeHead DEF Typed, Shifts
    <3> QED
      BY <2>2, <3>1 DEF Calls
  <2>4. w \in SentCalls /\ w.n = m.n
    <3>1. w \in Written
      BY <1>1, <2>2, LastIn DEF Typed
    <3> QED
      BY <2>1, <2>2, <3>1 DEF SentCalls
  <2>5. Gives(X[5], Y[5], m.n)
    BY <1>1, <1>3, <1>4, <2>2, <2>3, AllLabelled, ShiftsStage
  <2>6. Gains(X[4], Y[4], m.n)
    BY <1>1, <1>3, <1>4, <2>2, <2>4, AllLabelled, StageAppend DEF Typed
  <2>7. Advances(X, Y, 5, m.n)
    BY <1>5, <2>5, <2>6, AllPlaces
  <2>8. sent[m.n] \in Reach(T, Q)[4] => sent[m.n] \in Reach(S, P)[5]
    <3>1. Reaches(T, Q, 4, m.dest) => Reaches(S, P, 5, m.dest)
      BY <1>2, <2>2 DEF Reaches, Unmoved
    <3>2. 4 \in Places /\ 5 \in Places
      BY DEF Places
    <3> QED
      BY <2>2, <3>1, <3>2, ReachIs
  <2>9. 5 - 1 = 4
    OBVIOUS
  <2> QED
    BY <2>7, <2>8, <2>9 DEF CallsMove
<1>9. ASSUME Keeps(X[5], Y[5]), Q.out = P.out
      PROVE  CallsMove(X, Y, Reach(S, P), Reach(T, Q), sent, dropped \cup died)
  BY <1>5, <1>6, <1>9, AllKeep
<1>10. ASSUME NEW m, PassesReply(P, Q, m, sent) \/ GetsReply(P, Q, m, sent)
       PROVE  Keeps(X[5], Y[5]) /\ Q.out = P.out
  <2>1. m \notin Calls
    BY <1>10, KindsOf DEF PassesReply, GetsReply, ExtReply, AppReply
  <2>2. CASE PassesReply(P, Q, m, sent)
    <3>1. PICK a : a = Msg(m.dest, App, m.kind, m.iid, m.n)
      OBVIOUS
    <3>2. a \notin Calls
      BY <2>2, <3>1, KindsOf DEF PassesReply, ExtReply, Msg
    <3> QED
      <4>1. /\ Mail(P) # <<>> /\ m = Head(Mail(P)) /\ Mail(Q) = Append(Tail(Mail(P)), a)
            /\ Q.out = P.out
        BY <2>2, <3>1 DEF PassesReply
      <4>2. Keeps(Stage(Mail(P), Calls), Stage(Mail(Q), Calls))
        BY <1>1, <2>1, <3>2, <4>1, AllLabelled, ReplacesStage
      <4> QED
        BY <1>3, <1>4, <4>1, <4>2
  <2>3. CASE GetsReply(P, Q, m, sent)
    BY <1>1, <1>3, <1>4, <2>1, <2>3, AllLabelled, ShiftsStage DEF GetsReply
  <2> QED
    BY <1>10, <2>2, <2>3
<1>11. ASSUME NEW o, NEW i, MakesCall(P, Q, o, i, Len(sent) + 1)
       PROVE  o \in Oids /\ Enters(X, Y, Len(sent) + 1)
  <2>1. PICK a : a = Msg(App, o, "call", i, Len(sent) + 1)
    OBVIOUS
  <2>2. o \in Oids /\ Mail(Q) = Append(Mail(P), a) /\ Q.out = P.out
    BY <1>11, <2>1 DEF MakesCall
  <2>3. a \in Calls /\ a.n = Len(sent) + 1
    <3>1. a \in Queued
      BY <1>1, <2>2, LastIn DEF Typed
    <3> QED
      BY <2>1, <3>1 DEF Calls, Msg
  <2>4. Gains(X[5], Y[5], Len(sent) + 1)
    BY <1>1, <1>3, <1>4, <2>2, <2>3, AllLabelled, StageAppend DEF Typed
  <2> QED
    BY <1>5, <1>6, <2>2, <2>4, AllPlaces
<1>12. ASSUME NEW w, Given(S, w, T), NEW o, ReadsFor(P, Q, w, o)
       PROVE  Keeps(X[5], Y[5]) /\ Q.out = P.out
  <2>1. PICK a : a = Msg(Ext, o, w.kind, w.iid, w.n)
    OBVIOUS
  <2>2. w \in Range(S.out)
    <3>1. S.out \in Seq(Written) /\ S.out # <<>> /\ w = Head(S.out)
      BY <1>1, <1>12 DEF Given, Typed
    <3> QED
      BY <3>1, RangeHead
  <2>3. w.kind # "call"
    <3>1. ServerOut(w, sent, died) /\ w.extid # extid_COM
      BY <1>12, <2>2, KeyFacts DEF ReadsFor
    <3> QED
      BY <3>1 DEF ServerOut
  <2>4. a \notin Calls
    BY <2>1, <2>3, KindsOf DEF Msg
  <2>5. Mail(Q) = Append(Mail(P), a) /\ Q.out = P.out
    BY <1>12, <2>1 DEF ReadsFor
  <2> QED
    BY <1>1, <1>3, <1>4, <2>4, <2>5, AllLabelled, StageAppend DEF Typed
<1> QED
  BY <1>7, <1>8, <1>9, <1>10, <1>11, <1>12 DEF ClientStep

-----------------------------------------------------------------------------
(* Calls on their way: the server *)

\* What the server's queues lose when no call is passed on.
LEMMA ServerThins ==
    ASSUME NEW P, NEW Q, NEW C, NEW s, NEW gone, Typed(P), ServerMailIdle(P, Q, s, gone),
           NEW k, NEW A, (k = 2 /\ A = ObjectCalls) \/ (k = 3 /\ A = RelayCalls),
           NEW x, x = Stage(Mail(P), A), NEW y, y = Stage(Mail(Q), A)
    PROVE  Less(x, y) /\ \A c \in x.n \ y.n : s[c] \in gone \/ s[c] \notin Reach(Q, C)[k]
<1>1. Labelled(A) /\ \A m \in A : m.kind \in {"call", "reply"} /\ m.kind = "call" /\ (k = 2 => m.src # Ext)
  BY AllLabelled, KindsOf
<1>2. k \in Places /\ k > 1 /\ (k # 2 => k > 2)
  BY DEF Places
<1>3. ASSUME NEW c, s[c] \in Reach(Q, C)[k]
      PROVE  \E o \in Oids : s[c] = Proxy(o) /\ HasExt(Q) /\ (k # 2 => Open(Q, o))
  <2>1. PICK o \in Oids : s[c] = Proxy(o) /\ Reaches(Q, C, k, o)
    BY <1>2, <1>3, ReachIs
  <2> QED
    BY <1>2, <2>1 DEF Reaches
<1>4. CASE Mail(Q) = Mail(P)
  BY <1>4, SameStage
<1>5. CASE Shifts(P, Q) /\ (Head(Mail(P)).kind = "call" => CallLost(Q, Head(Mail(P)), s, gone))
  <2>1. PICK m : m = Head(Mail(P))
    OBVIOUS
  <2>2. (m \in A => Gives(x, y, m.n)) /\ (m \notin A => Keeps(x, y))
    BY <1>1, <1>5, <2>1, ShiftsStage
  <2>3. Less(x, y) /\ \A c \in x.n \ y.n : m \in A /\ c = m.n
    BY <2>2 DEF Gives, Keeps, Less
  <2>4. ASSUME m \in A, s[m.n] \in Reach(Q, C)[k] PROVE s[m.n] \in gone
    <3>1. PICK o \in Oids : s[m.n] = Proxy(o) /\ HasExt(Q) /\ (k # 2 => Open(Q, o))
      BY <1>3, <2>4
    <3>2. CallLost(Q, m, s, gone) /\ (k = 2 => m.src # Ext)
      BY <1>1, <1>5, <2>1, <2>4
    <3>3. \A q : s[m.n] = Proxy(q) => q = o
      BY <3>1 DEF Proxy
    <3> QED
      BY <3>1, <3>2, <3>3 DEF CallLost
  <2> QED
    BY <2>3, <2>4
<1>6. ASSUME NEW a, ToSelf(a), Mail(Q) = Append(Mail(P), a) PROVE Keeps(x, y)
  BY <1>1, <1>6, ToSelfStage
<1>7. CASE Mail(Q) = <<>> /\ ~HasExt(Q)
  <2>1. y.n = {} /\ y.q = {}
    BY <1>1, <1>7, StageEmpty
  <2> QED
    BY <1>3, <1>7, <2>1 DEF Less
<1>8. Keeps(x, y) => Less(x, y) /\ x.n = y.n
  BY DEF Keeps, Less
<1> QED
  BY <1>4, <1>5, <1>6, <1>7, <1>8 DEF ServerMailIdle

\* What is read from the client.
LEMMA GivenStage ==
    ASSUME NEW C, NEW w, NEW D, Given(C, w, D), Typed(C), NEW A, Labelled(A)
    PROVE  /\ w \in Written /\ w \in Range(C.out)
           /\ w \in A => Gives(Stage(C.out, A), Stage(D.out, A), w.n)
           /\ w \notin A => Keeps(Stage(C.out, A), Stage(D.out, A))
<1>1. C.out \in Seq(Written) /\ C.out # <<>> /\ w = Head(C.out) /\ D.out = Tail(C.out)
  BY DEF Given, Typed
<1> QED
  BY <1>1, RangeHead, StageTail

\* What the server's steps that take or pass no call do to the calls.
LEMMA ServerIdleCalls ==
    ASSUME NEW P, NEW Q, NEW C, NEW D, NEW s, NEW gone, NEW tk, Typed(P), Typed(C),
           ServerMailIdle(P, Q, s, gone),
           D = C \/ \E w : Given(C, w, D) /\ (w.kind = "call" => Q.ext # "open"),
           NEW X, X = CallsWay(tk, P, C), NEW Y, Y = CallsWay(tk, Q, D)
    PROVE  Loses(X, Y, Reach(Q, D), s, gone)
<1>1. /\ X[1] = Order(tk) /\ X[2] = Stage(Mail(P), ObjectCalls) /\ X[3] = Stage(Mail(P), RelayCalls)
      /\ X[4] = Stage(C.out, SentCalls) /\ X[5] = Stage(Mail(C), Calls)
  BY CallsWayIs
<1>2. /\ Y[1] = Order(tk) /\ Y[2] = Stage(Mail(Q), ObjectCalls) /\ Y[3] = Stage(Mail(Q), RelayCalls)
      /\ Y[4] = Stage(D.out, SentCalls) /\ Y[5] = Stage(Mail(D), Calls)
  BY CallsWayIs
<1>3. Unmoved(C, D)
  BY UnmovedIs
<1>4. X[1] = Y[1] /\ X[5] = Y[5]
  BY <1>1, <1>2, <1>3 DEF Unmoved
<1>5. Less(X[2], Y[2]) /\ \A c \in X[2].n \ Y[2].n : s[c] \in gone \/ s[c] \notin Reach(Q, D)[2]
  <2>1. PICK k, A, x, y : k = 2 /\ A = ObjectCalls /\ x = X[2] /\ y = Y[2]
    OBVIOUS
  <2>2. x = Stage(Mail(P), A) /\ y = Stage(Mail(Q), A) /\ ((k = 2 /\ A = ObjectCalls) \/ (k = 3 /\ A = RelayCalls))
    BY <1>1, <1>2, <2>1
  <2>3. Less(x, y) /\ \A c \in x.n \ y.n : s[c] \in gone \/ s[c] \notin Reach(Q, D)[k]
    BY <2>2, ServerThins
  <2> QED
    BY <2>1, <2>3
<1>6. Less(X[3], Y[3]) /\ \A c \in X[3].n \ Y[3].n : s[c] \in gone \/ s[c] \notin Reach(Q, D)[3]
  <2>1. PICK k, A, x, y : k = 3 /\ A = RelayCalls /\ x = X[3] /\ y = Y[3]
    OBVIOUS
  <2>2. x = Stage(Mail(P), A) /\ y = Stage(Mail(Q), A) /\ ((k = 2 /\ A = ObjectCalls) \/ (k = 3 /\ A = RelayCalls))
    BY <1>1, <1>2, <2>1
  <2>3. Less(x, y) /\ \A c \in x.n \ y.n : s[c] \in gone \/ s[c] \notin Reach(Q, D)[k]
    BY <2>2, ServerThins
  <2> QED
    BY <2>1, <2>3
<1>7. Less(X[4], Y[4]) /\ \A c \in X[4].n \ Y[4].n : s[c] \notin Reach(Q, D)[4]
  <2>1. CASE D = C
    BY <1>1, <1>2, <2>1, SameStage
  <2>2. ASSUME NEW w, Given(C, w, D), w.kind = "call" => Q.ext # "open"
        PROVE  Less(X[4], Y[4]) /\ \A c \in X[4].n \ Y[4].n : s[c] \notin Reach(Q, D)[4]
    <3>1. /\ w \in SentCalls => Gives(X[4], Y[4], w.n)
          /\ w \notin SentCalls => Keeps(X[4], Y[4])
      BY <1>1, <1>2, <2>2, AllLabelled, GivenStage
    <3>2. Less(X[4], Y[4]) /\ (w \notin SentCalls => X[4].n = Y[4].n)
      BY <3>1 DEF Gives, Keeps, Less
    <3>3. ASSUME w \in SentCalls, NEW c, s[c] \in Reach(Q, D)[4] PROVE FALSE
      <4>1. 4 \in Places /\ 4 > 3
        BY DEF Places
      <4>2. PICK o \in Oids : Reaches(Q, D, 4, o)
        BY <3>3, <4>1, ReachIs
      <4>3. Q.ext = "open"
        BY <4>1, <4>2 DEF Reaches
      <4> QED
        BY <2>2, <3>3, <4>3, KindsOf
    <3> QED
      BY <3>2, <3>3
  <2> QED
    BY <2>1, <2>2
<1>8. \A k \in Places : k = 1 \/ k = 2 \/ k = 3 \/ k = 4 \/ k = 5
  BY DEF Places
<1>9. Shrinks(X, Y)
  BY <1>4, <1>5, <1>6, <1>7, SameStage, AllPlaces
<1> QED
  BY <1>4, <1>5, <1>6, <1>7, <1>8, <1>9 DEF Loses

\* One message is taken, and the next one may be posted.
LEMMA TakesStage ==
    ASSUME NEW P, NEW Q, Typed(P), NEW A, Labelled(A), Mail(P) # <<>>, NEW m, m = Head(Mail(P)),
           NEW a, a \notin A, Mail(Q) = Tail(Mail(P)) \/ Mail(Q) = Append(Tail(Mail(P)), a)
    PROVE  /\ m \in A => Gives(Stage(Mail(P), A), Stage(Mail(Q), A), m.n)
           /\ m \notin A => Keeps(Stage(Mail(P), A), Stage(Mail(Q), A))
<1>1. CASE Mail(Q) = Tail(Mail(P))
  <2>1. Shifts(P, Q)
    BY <1>1 DEF Shifts
  <2> QED
    BY <2>1, ShiftsStage
<1>2. CASE Mail(Q) = Append(Tail(Mail(P)), a)
  BY <1>2, ReplacesStage
<1> QED
  BY <1>1, <1>2

\* The end of the queue after a message is posted.
LEMMA PostsStage ==
    ASSUME NEW P, NEW Q, Typed(P), NEW A, Labelled(A), NEW a, Mail(Q) = Append(Mail(P), a)
    PROVE  /\ a \in A => Gains(Stage(Mail(P), A), Stage(Mail(Q), A), a.n)
           /\ a \notin A => Keeps(Stage(Mail(P), A), Stage(Mail(Q), A))
<1>1. Mail(P) \in Seq(Queued)
  BY DEF Typed
<1> QED
  BY <1>1, StageAppend

\* A message that is posted, after the creation of a relay or not.
LEMMA ComesStage ==
    ASSUME NEW P, NEW Q, Typed(P), NEW A, Labelled(A), NEW a, NEW b, b \notin A,
           Mail(Q) = Append(Mail(P), a) \/ Mail(Q) = Append(Append(Mail(P), b), a), Typed(Q)
    PROVE  /\ a \in A => Gains(Stage(Mail(P), A), Stage(Mail(Q), A), a.n)
           /\ a \notin A => Keeps(Stage(Mail(P), A), Stage(Mail(Q), A))
           /\ a \in Queued
<1>1. CASE Mail(Q) = Append(Mail(P), a)
  <2>1. a \in Queued
    BY <1>1, LastIn DEF Typed
  <2> QED
    BY <1>1, <2>1, PostsStage
<1>2. CASE Mail(Q) = Append(Append(Mail(P), b), a)
  <2>1. PICK M, N, R : M = Mail(P) /\ N = Append(M, b) /\ R = Append(N, a)
    OBVIOUS
  <2>2. M \in Seq(Queued) /\ R = Mail(Q) /\ R \in Seq(Queued)
    BY <1>2, <2>1 DEF Typed
  <2>3. N \in Seq(Queued \cup {b})
    BY <2>1, <2>2
  <2>4. a \in Queued
    BY <2>1, <2>2, <2>3, LastIn
  <2>5. Keeps(Stage(M, A), Stage(N, A))
    BY <2>1, <2>2, StageAppend
  <2>6. /\ a \in A => Gains(Stage(N, A), Stage(R, A), a.n)
        /\ a \notin A => Keeps(Stage(N, A), Stage(R, A))
    BY <2>1, <2>3, StageAppend
  <2> QED
    BY <2>1, <2>2, <2>4, <2>5, <2>6, StageMoves
<1> QED
  BY <1>1, <1>2

\* The oid of an object or a relay is not that of the Extern or the application.
LEMMA OidsApart == Ext \notin Oids /\ App \notin Oids
  BY DEF Ext, App, Oids

\* A relay of the server passes a call to its object.
LEMMA CallsPassed ==
    ASSUME NEW P, NEW Q, NEW C, NEW s, NEW gone, NEW tk, Typed(P), Typed(Q),
           NEW m, PassesCall(P, Q, m, s, gone),
           NEW X, X = CallsWay(tk, P, C), NEW Y, Y = CallsWay(tk, Q, C)
    PROVE  CallsMove(X, Y, Reach(P, C), Reach(Q, C), s, gone)
<1>1. /\ X[1] = Order(tk) /\ X[2] = Stage(Mail(P), ObjectCalls) /\ X[3] = Stage(Mail(P), RelayCalls)
      /\ X[4] = Stage(C.out, SentCalls) /\ X[5] = Stage(Mail(C), Calls)
  BY CallsWayIs
<1>2. /\ Y[1] = Order(tk) /\ Y[2] = Stage(Mail(Q), ObjectCalls) /\ Y[3] = Stage(Mail(Q), RelayCalls)
      /\ Y[4] = Stage(C.out, SentCalls) /\ Y[5] = Stage(Mail(C), Calls)
  BY CallsWayIs
<1>3. Keeps(X[1], Y[1]) /\ Keeps(X[4], Y[4]) /\ Keeps(X[5], Y[5])
  BY <1>1, <1>2, SameStage
<1>4. PICK x \in Oids : Mail(Q) = Append(Tail(Mail(P)), Msg(m.dest, x, "call", m.iid, m.n))
  BY DEF PassesCall
<1>5. PICK a : a = Msg(m.dest, x, "call", m.iid, m.n)
  OBVIOUS
<1>6. /\ Mail(P) # <<>> /\ m = Head(Mail(P)) /\ m.kind = "call" /\ m.src = Ext /\ m.dest \in Oids
      /\ HasExt(P) /\ Mail(Q) = Append(Tail(Mail(P)), a)
      /\ s[m.n] \notin gone => \E o \in Oids : s[m.n] = Proxy(o) /\ Open(P, o)
  BY <1>4, <1>5 DEF PassesCall, ExtCall, Tied
<1>7. m \in RelayCalls /\ m \notin ObjectCalls
  <2>1. m \in Queued
    BY <1>6, RangeHead DEF Typed
  <2> QED
    BY <1>6, <2>1 DEF RelayCalls, ObjectCalls, Calls
<1>8. a \in ObjectCalls /\ a \notin RelayCalls /\ a.n = m.n
  <2>1. a \in Queued
    <3>1. PICK N : N = Tail(Mail(P))
      OBVIOUS
    <3>2. N \in Seq(Queued) /\ Append(N, a) \in Seq(Queued)
      BY <1>6, <3>1, RangeHead DEF Typed
    <3> QED
      BY <3>2, LastIn
  <2>2. a.kind = "call" /\ a.src = m.dest /\ a.n = m.n
    BY <1>5 DEF Msg
  <2> QED
    BY <1>6, <2>1, <2>2, OidsApart DEF RelayCalls, ObjectCalls, Calls
<1>9. Gives(X[3], Y[3], m.n)
  BY <1>1, <1>2, <1>6, <1>7, <1>8, AllLabelled, ReplacesStage
<1>10. Gains(X[2], Y[2], m.n)
  BY <1>1, <1>2, <1>6, <1>7, <1>8, AllLabelled, ReplacesStage
<1>11. Advances(X, Y, 3, m.n)
  BY <1>3, <1>9, <1>10, AllPlaces
<1>12. s[m.n] \notin gone /\ s[m.n] \in Reach(Q, C)[2] => s[m.n] \in Reach(P, C)[3]
  <2>1. 3 \in Places
    BY DEF Places
  <2>2. ASSUME NEW o \in Oids, Open(P, o) PROVE Reaches(P, C, 3, o)
    BY <1>6, <2>2 DEF Reaches
  <2> QED
    BY <1>6, <2>1, <2>2, ReachIs
<1>13. 3 - 1 = 2
  OBVIOUS
<1> QED
  BY <1>11, <1>12, <1>13 DEF CallsMove

\* The object takes it.
LEMMA CallsTaken ==
    ASSUME NEW P, NEW Q, NEW C, NEW s, NEW gone, NEW tk \in Seq(Nat), Typed(P),
           NEW m, TakesCall(P, Q, m, s, gone),
           NEW X, X = CallsWay(tk, P, C), NEW Y, Y = CallsWay(Append(tk, m.n), Q, C)
    PROVE  CallsMove(X, Y, Reach(P, C), Reach(Q, C), s, gone)
<1>1. /\ X[1] = Order(tk) /\ X[2] = Stage(Mail(P), ObjectCalls) /\ X[3] = Stage(Mail(P), RelayCalls)
      /\ X[4] = Stage(C.out, SentCalls) /\ X[5] = Stage(Mail(C), Calls)
  BY CallsWayIs
<1>2. PICK t : t = Append(tk, m.n)
  OBVIOUS
<1>3. /\ Y[1] = Order(t) /\ Y[2] = Stage(Mail(Q), ObjectCalls) /\ Y[3] = Stage(Mail(Q), RelayCalls)
      /\ Y[4] = Stage(C.out, SentCalls) /\ Y[5] = Stage(Mail(C), Calls)
  BY <1>2, CallsWayIs
<1>4. Keeps(X[4], Y[4]) /\ Keeps(X[5], Y[5])
  BY <1>1, <1>3, SameStage
<1>5. PICK a : a = Msg(m.dest, m.src, "reply", "R", m.n)
  OBVIOUS
<1>6. /\ Mail(P) # <<>> /\ m = Head(Mail(P)) /\ m.kind = "call" /\ m.src \in Oids /\ HasExt(P)
      /\ Mail(Q) = Tail(Mail(P)) \/ Mail(Q) = Append(Tail(Mail(P)), a)
  BY <1>5 DEF TakesCall, ToObject, Through, Tied
<1>7. m \in ObjectCalls /\ m \notin RelayCalls /\ m.n \in Nat
  <2>1. m \in Queued
    BY <1>6, RangeHead DEF Typed
  <2> QED
    BY <1>6, <2>1, OidsApart DEF RelayCalls, ObjectCalls, Calls, Queued
<1>8. a \notin ObjectCalls /\ a \notin RelayCalls
  <2>1. a.kind = "reply"
    BY <1>5 DEF Msg
  <2> QED
    BY <2>1, KindsOf
<1>9. Gives(X[2], Y[2], m.n)
  BY <1>1, <1>3, <1>6, <1>7, <1>8, AllLabelled, TakesStage
<1>10. Keeps(X[3], Y[3])
  BY <1>1, <1>3, <1>6, <1>7, <1>8, AllLabelled, TakesStage
<1>11. Gains(X[1], Y[1], m.n)
  BY <1>1, <1>2, <1>3, <1>7, OrderGains
<1>12. Advances(X, Y, 2, m.n)
  BY <1>4, <1>9, <1>10, <1>11, AllPlaces
<1>13. s[m.n] \in Reach(Q, C)[1] => s[m.n] \in Reach(P, C)[2]
  <2>1. 1 \in Places /\ 2 \in Places
    BY DEF Places
  <2>2. ASSUME NEW o \in Oids PROVE Reaches(P, C, 2, o)
    BY <1>6, <2>2 DEF Reaches
  <2> QED
    BY <2>1, <2>2, ReachIs
<1>14. 2 - 1 = 1
  OBVIOUS
<1> QED
  BY <1>12, <1>13, <1>14 DEF CallsMove

\* What an object or its relay sends out.
LEMMA CallsKept ==
    ASSUME NEW P, NEW Q, NEW C, NEW s, NEW gone, NEW tk, Typed(P), NEW H, NEW J,
           Mail(Q) = Mail(P) \/ (Shifts(P, Q) /\ Head(Mail(P)).kind # "call"),
           NEW X, X = CallsWay(tk, P, C), NEW Y, Y = CallsWay(tk, Q, C)
    PROVE  CallsMove(X, Y, H, J, s, gone)
<1>1. /\ X[1] = Order(tk) /\ X[2] = Stage(Mail(P), ObjectCalls) /\ X[3] = Stage(Mail(P), RelayCalls)
      /\ X[4] = Stage(C.out, SentCalls) /\ X[5] = Stage(Mail(C), Calls)
  BY CallsWayIs
<1>2. /\ Y[1] = Order(tk) /\ Y[2] = Stage(Mail(Q), ObjectCalls) /\ Y[3] = Stage(Mail(Q), RelayCalls)
      /\ Y[4] = Stage(C.out, SentCalls) /\ Y[5] = Stage(Mail(C), Calls)
  BY CallsWayIs
<1>3. Keeps(X[1], Y[1]) /\ Keeps(X[4], Y[4]) /\ Keeps(X[5], Y[5])
  BY <1>1, <1>2, SameStage
<1>4. Keeps(X[2], Y[2]) /\ Keeps(X[3], Y[3])
  <2>1. CASE Mail(Q) = Mail(P)
    BY <1>1, <1>2, <2>1, SameStage
  <2>2. CASE Shifts(P, Q) /\ Head(Mail(P)).kind # "call"
    <3>1. PICK m : m = Head(Mail(P))
      OBVIOUS
    <3>2. m \notin ObjectCalls /\ m \notin RelayCalls
      BY <2>2, <3>1, KindsOf
    <3> QED
      BY <1>1, <1>2, <2>2, <3>1, <3>2, AllLabelled, ShiftsStage
  <2> QED
    BY <2>1, <2>2
<1> QED
  BY <1>3, <1>4, AllKeep

\* The server reads a message of the client for a relay.
LEMMA CallsRead ==
    ASSUME NEW P, NEW Q, NEW C, NEW D, NEW s, NEW gone, NEW tk, Typed(P), Typed(Q), Typed(C),
           P.ext = "open", OpenBy(P, Q, gone), NEW w, Given(C, w, D), ReadsCall(P, Q, w),
           NEW X, X = CallsWay(tk, P, C), NEW Y, Y = CallsWay(tk, Q, D)
    PROVE  CallsMove(X, Y, Reach(P, C), Reach(Q, D), s, gone)
<1>1. /\ X[1] = Order(tk) /\ X[2] = Stage(Mail(P), ObjectCalls) /\ X[3] = Stage(Mail(P), RelayCalls)
      /\ X[4] = Stage(C.out, SentCalls) /\ X[5] = Stage(Mail(C), Calls)
  BY CallsWayIs
<1>2. /\ Y[1] = Order(tk) /\ Y[2] = Stage(Mail(Q), ObjectCalls) /\ Y[3] = Stage(Mail(Q), RelayCalls)
      /\ Y[4] = Stage(D.out, SentCalls) /\ Y[5] = Stage(Mail(D), Calls)
  BY CallsWayIs
<1>3. Keeps(X[1], Y[1]) /\ Keeps(X[5], Y[5])
  <2>1. Unmoved(C, D)
    BY UnmovedIs
  <2> QED
    BY <1>1, <1>2, <2>1, SameStage DEF Unmoved
<1>4. PICK o \in Oids :
          \/ Mail(Q) = Append(Mail(P), Msg(Ext, o, w.kind, w.iid, w.n))
          \/ Mail(Q) = Append(Append(Mail(P), Msg(Ext, o, "create", "COM", 0)), Msg(Ext, o, w.kind, w.iid, w.n))
  BY DEF ReadsCall
<1>5. PICK a, b : a = Msg(Ext, o, w.kind, w.iid, w.n) /\ b = Msg(Ext, o, "create", "COM", 0)
  OBVIOUS
<1>6. Mail(Q) = Append(Mail(P), a) \/ Mail(Q) = Append(Append(Mail(P), b), a)
  BY <1>4, <1>5
<1>7. a.kind = w.kind /\ a.src = Ext /\ a.n = w.n /\ b.kind = "create"
  BY <1>5 DEF Msg
<1>8. b \notin RelayCalls /\ b \notin ObjectCalls /\ a \notin ObjectCalls
  BY <1>7, KindsOf
<1>9. Keeps(X[2], Y[2])
  BY <1>1, <1>2, <1>6, <1>8, AllLabelled, ComesStage
<1>10. /\ a \in RelayCalls => Gains(X[3], Y[3], a.n)
       /\ a \notin RelayCalls => Keeps(X[3], Y[3])
       /\ a \in Queued
  BY <1>1, <1>2, <1>6, <1>8, AllLabelled, ComesStage
<1>11. a \in RelayCalls <=> w.kind = "call"
  BY <1>7, <1>10 DEF RelayCalls, Calls
<1>12. /\ w \in SentCalls => Gives(X[4], Y[4], w.n)
       /\ w \notin SentCalls => Keeps(X[4], Y[4])
       /\ w \in Written
  BY <1>1, <1>2, AllLabelled, GivenStage
<1>13. w \in SentCalls <=> w.kind = "call"
  BY <1>12 DEF SentCalls
<1>14. CASE w.kind = "call"
  <2>1. Advances(X, Y, 4, w.n)
    BY <1>3, <1>7, <1>9, <1>10, <1>11, <1>12, <1>13, <1>14, AllPlaces
  <2>2. s[w.n] \notin gone /\ s[w.n] \in Reach(Q, D)[3] => s[w.n] \in Reach(P, C)[4]
    <3>1. 3 \in Places /\ 4 \in Places /\ 3 > 1 /\ 3 > 2 /\ ~(4 > 4)
      BY DEF Places
    <3>2. ASSUME NEW x \in Oids, Proxy(x) \notin gone, Reaches(Q, D, 3, x) PROVE Reaches(P, C, 4, x)
      <4>1. HasExt(Q) /\ Open(Q, x) /\ HasExt(P)
        BY <3>1, <3>2 DEF Reaches, HasExt
      <4>2. Open(P, x)
        BY <3>2, <4>1 DEF OpenBy
      <4> QED
        BY <3>1, <4>1, <4>2 DEF Reaches
    <3> QED
      BY <3>1, <3>2, ReachIs
  <2>3. 4 - 1 = 3
    OBVIOUS
  <2> QED
    BY <2>1, <2>2, <2>3 DEF CallsMove
<1>15. CASE w.kind # "call"
  BY <1>3, <1>9, <1>10, <1>11, <1>12, <1>13, <1>15, AllKeep
<1> QED
  BY <1>14, <1>15

\* Every step of the server moves the calls.
LEMMA CallsServer ==
    ASSUME RelaysInv, NEW P, P = proc["server"], NEW C, C = proc["client"],
           NEW Q, NEW D, D = proc'["client"], ServerStep(P, Q), Typed(Q),
           NEW X, X = CallsWay(taken, P, C), NEW Y, Y = CallsWay(taken', Q, D)
    PROVE  CallsMove(X, Y, Reach(P, C), Reach(Q, D), sent, dropped \cup died)
<1>1. Typed(P) /\ Typed(C)
  BY TypedIs DEF RelaysInv, Procs
<1>2. taken \in Seq(Nat)
  BY DEF RelaysInv, HistoryOK
<1>3. ASSUME ServerIdles(P, Q, sent, dropped \cup died), taken' = taken,
             D = C \/ \E w : Given(C, w, D) /\ (w.kind = "call" => Q.ext # "open")
      PROVE  CallsMove(X, Y, Reach(P, C), Reach(Q, D), sent, dropped \cup died)
  BY <1>1, <1>3, ServerIdleCalls DEF ServerIdles, CallsMove
<1>4. ASSUME NEW m, SendsReply(P, Q, m, sent)
      PROVE  Shifts(P, Q) /\ Head(Mail(P)).kind # "call"
  BY <1>4 DEF SendsReply, FromObject
<1>5. ASSUME TellsError(P, Q, died) \/ (\E m : SendsReply(P, Q, m, sent)), taken' = taken, D = C
      PROVE  CallsMove(X, Y, Reach(P, C), Reach(Q, D), sent, dropped \cup died)
  <2>1. Mail(Q) = Mail(P) \/ (Shifts(P, Q) /\ Head(Mail(P)).kind # "call")
    BY <1>4, <1>5 DEF TellsError
  <2> QED
    BY <1>1, <1>5, <2>1, CallsKept
<1>6. ASSUME NEW m, PassesCall(P, Q, m, sent, dropped \cup died), taken' = taken, D = C
      PROVE  CallsMove(X, Y, Reach(P, C), Reach(Q, D), sent, dropped \cup died)
  BY <1>1, <1>6, CallsPassed
<1>7. ASSUME NEW m, TakesCall(P, Q, m, sent, dropped \cup died), taken' = Append(taken, m.n), D = C
      PROVE  CallsMove(X, Y, Reach(P, C), Reach(Q, D), sent, dropped \cup died)
  BY <1>1, <1>2, <1>7, CallsTaken
<1>8. ASSUME NEW w, Given(C, w, D), ReadsCall(P, Q, w), P.ext = "open", taken' = taken
      PROVE  CallsMove(X, Y, Reach(P, C), Reach(Q, D), sent, dropped \cup died)
  <2>1. OpenBy(P, Q, dropped \cup died)
    BY DEF ServerStep
  <2> QED
    BY <1>1, <1>8, <2>1, CallsRead
<1> QED
  BY <1>3, <1>5, <1>6, <1>7, <1>8 DEF ServerStep

-----------------------------------------------------------------------------
(* Replies on their way *)

\* A queue that only loses messages, or gains none of A.
LEMMA ThinsStage ==
    ASSUME NEW P, NEW Q, Thins(P, Q), Typed(P), NEW A, Labelled(A),
           \A m \in A : m.kind \in {"call", "reply"}
    PROVE  Less(Stage(Mail(P), A), Stage(Mail(Q), A))
<1>1. \A x, y, c : (Gives(x, y, c) => Less(x, y)) /\ (Keeps(x, y) => Less(x, y))
  BY DEF Gives, Keeps, Less
<1>2. CASE Mail(Q) = Mail(P)
  BY <1>2, SameStage
<1>3. CASE Shifts(P, Q)
  <2>1. PICK m : m = Head(Mail(P))
    OBVIOUS
  <2> QED
    BY <1>1, <1>3, <2>1, ShiftsStage
<1>4. ASSUME NEW a, ToSelf(a), Mail(Q) = Append(Mail(P), a)
      PROVE  Less(Stage(Mail(P), A), Stage(Mail(Q), A))
  BY <1>1, <1>4, ToSelfStage
<1>5. CASE Mail(Q) = <<>>
  <2>1. Stage(Mail(Q), A).n = {} /\ Stage(Mail(Q), A).q = {}
    BY <1>5, StageEmpty
  <2> QED
    BY <2>1 DEF Less
<1> QED
  BY <1>2, <1>3, <1>4, <1>5 DEF Thins

\* Neither side's queues get a reply: replies can only be lost.
LEMMA RepliesThin ==
    ASSUME NEW an, NEW bn, NEW P, NEW Q, NEW S, NEW T, Typed(P), Typed(S), Thins(P, Q), Thins(S, T),
           Less(Stage(an, Answers), Stage(bn, Answers)),
           Less(Stage(S.out, SentReplies), Stage(T.out, SentReplies)),
           NEW X, X = RepliesWay(an, S, P), NEW Y, Y = RepliesWay(bn, T, Q)
    PROVE  RepliesMove(X, Y)
<1>1. /\ X[1] = Stage(an, Answers) /\ X[2] = Stage(Mail(P), AppReplies)
      /\ X[3] = Stage(Mail(P), RelayReplies) /\ X[4] = Stage(S.out, SentReplies)
      /\ X[5] = Stage(Mail(S), Replies)
  BY RepliesWayIs
<1>2. /\ Y[1] = Stage(bn, Answers) /\ Y[2] = Stage(Mail(Q), AppReplies)
      /\ Y[3] = Stage(Mail(Q), RelayReplies) /\ Y[4] = Stage(T.out, SentReplies)
      /\ Y[5] = Stage(Mail(T), Replies)
  BY RepliesWayIs
<1>3. Less(X[2], Y[2]) /\ Less(X[3], Y[3]) /\ Less(X[5], Y[5])
  BY <1>1, <1>2, AllLabelled, KindsOf, ThinsStage
<1> QED
  BY <1>1, <1>2, <1>3, AllPlaces DEF RepliesMove

\* What the application is told.
LEMMA AnswersStage ==
    ASSUME NEW T, NEW an \in Seq(T), NEW a
    PROVE  /\ a \in Answers => Gains(Stage(an, Answers), Stage(Append(an, a), Answers), a.n)
           /\ a.kind = "error" => Less(Stage(an, Answers), Stage(Append(an, a), Answers))
<1>1. /\ a \in Answers => Gains(Stage(an, Answers), Stage(Append(an, a), Answers), a.n)
      /\ a \notin Answers => Keeps(Stage(an, Answers), Stage(Append(an, a), Answers))
  BY AllLabelled, StageAppend
<1>2. a.kind = "error" => a \notin Answers
  BY DEF Answers
<1> QED
  BY <1>1, <1>2 DEF Keeps, Less

\* What is read is no more there.
LEMMA UnmovedOut ==
    ASSUME NEW S, NEW T, Typed(S), T = S \/ \E w : Given(S, w, T), NEW A, Labelled(A)
    PROVE  Less(Stage(S.out, A), Stage(T.out, A))
<1>1. CASE T = S
  BY <1>1, SameStage
<1>2. ASSUME NEW w, Given(S, w, T) PROVE Less(Stage(S.out, A), Stage(T.out, A))
  BY <1>2, GivenStage DEF Gives, Keeps, Less
<1> QED
  BY <1>1, <1>2

\* A relay of the client passes a reply to the application.
LEMMA RepliesPassed ==
    ASSUME NEW P, NEW Q, NEW S, NEW s, NEW an, Typed(P), Typed(Q), NEW m, PassesReply(P, Q, m, s),
           NEW X, X = RepliesWay(an, S, P), NEW Y, Y = RepliesWay(an, S, Q)
    PROVE  RepliesMove(X, Y)
<1>1. /\ X[1] = Stage(an, Answers) /\ X[2] = Stage(Mail(P), AppReplies)
      /\ X[3] = Stage(Mail(P), RelayReplies) /\ X[4] = Stage(S.out, SentReplies)
      /\ X[5] = Stage(Mail(S), Replies)
  BY RepliesWayIs
<1>2. /\ Y[1] = Stage(an, Answers) /\ Y[2] = Stage(Mail(Q), AppReplies)
      /\ Y[3] = Stage(Mail(Q), RelayReplies) /\ Y[4] = Stage(S.out, SentReplies)
      /\ Y[5] = Stage(Mail(S), Replies)
  BY RepliesWayIs
<1>3. Keeps(X[1], Y[1]) /\ Keeps(X[4], Y[4]) /\ Keeps(X[5], Y[5])
  BY <1>1, <1>2, SameStage
<1>4. PICK a : a = Msg(m.dest, App, m.kind, m.iid, m.n)
  OBVIOUS
<1>5. /\ Mail(P) # <<>> /\ m = Head(Mail(P)) /\ m.kind = "reply" /\ m.src = Ext /\ m.dest \in Oids
      /\ Mail(Q) = Append(Tail(Mail(P)), a)
  BY <1>4 DEF PassesReply, ExtReply
<1>6. m \in RelayReplies /\ m \notin AppReplies
  <2>1. m \in Queued
    BY <1>5, RangeHead DEF Typed
  <2> QED
    BY <1>5, <2>1 DEF RelayReplies, AppReplies, Replies
<1>7. a \in AppReplies /\ a \notin RelayReplies /\ a.n = m.n
  <2>1. a \in Queued
    <3>1. PICK N : N = Tail(Mail(P))
      OBVIOUS
    <3>2. N \in Seq(Queued) /\ Append(N, a) \in Seq(Queued)
      BY <1>5, <3>1, RangeHead DEF Typed
    <3> QED
      BY <3>2, LastIn
  <2>2. a.kind = "reply" /\ a.src = m.dest /\ a.n = m.n
    BY <1>4, <1>5 DEF Msg
  <2> QED
    BY <1>5, <2>1, <2>2, OidsApart DEF RelayReplies, AppReplies, Replies
<1>8. Gives(X[3], Y[3], m.n)
  BY <1>1, <1>2, <1>5, <1>6, <1>7, AllLabelled, ReplacesStage
<1>9. Gains(X[2], Y[2], m.n)
  BY <1>1, <1>2, <1>5, <1>6, <1>7, AllLabelled, ReplacesStage
<1>10. Advances(X, Y, 3, m.n)
  BY <1>3, <1>8, <1>9, AllPlaces
<1> QED
  BY <1>10 DEF RepliesMove

\* The application gets it.
LEMMA RepliesGot ==
    ASSUME NEW P, NEW Q, NEW S, NEW s, NEW R, NEW an \in Seq(R), Typed(P), NEW m, GetsReply(P, Q, m, s),
           NEW a, a = [proc |-> "client", oid |-> m.src, kind |-> "reply", n |-> m.n],
           NEW X, X = RepliesWay(an, S, P), NEW Y, Y = RepliesWay(Append(an, a), S, Q)
    PROVE  RepliesMove(X, Y)
<1>1. /\ X[1] = Stage(an, Answers) /\ X[2] = Stage(Mail(P), AppReplies)
      /\ X[3] = Stage(Mail(P), RelayReplies) /\ X[4] = Stage(S.out, SentReplies)
      /\ X[5] = Stage(Mail(S), Replies)
  BY RepliesWayIs
<1>2. PICK bn : bn = Append(an, a)
  OBVIOUS
<1>3. /\ Y[1] = Stage(bn, Answers) /\ Y[2] = Stage(Mail(Q), AppReplies)
      /\ Y[3] = Stage(Mail(Q), RelayReplies) /\ Y[4] = Stage(S.out, SentReplies)
      /\ Y[5] = Stage(Mail(S), Replies)
  BY <1>2, RepliesWayIs
<1>4. Keeps(X[4], Y[4]) /\ Keeps(X[5], Y[5])
  BY <1>1, <1>3, SameStage
<1>5. Shifts(P, Q) /\ m = Head(Mail(P)) /\ m.kind = "reply" /\ m.src \in Oids
  BY DEF GetsReply, AppReply
<1>6. m \in AppReplies /\ m \notin RelayReplies /\ a \in Answers /\ a.n = m.n
  <2>1. m \in Queued
    BY <1>5, RangeHead DEF Typed, Shifts
  <2>2. m \in AppReplies /\ m \notin RelayReplies
    BY <1>5, <2>1, OidsApart DEF RelayReplies, AppReplies, Replies
  <2>3. m.src \in Nat /\ m.n \in Nat /\ "client" \in Procs /\ "reply" \in Kinds
    BY <2>1 DEF Queued, Procs, Kinds
  <2> QED
    BY <2>2, <2>3 DEF Answers
<1>7. Gives(X[2], Y[2], m.n)
  BY <1>1, <1>3, <1>5, <1>6, AllLabelled, ShiftsStage
<1>8. Keeps(X[3], Y[3])
  BY <1>1, <1>3, <1>5, <1>6, AllLabelled, ShiftsStage
<1>9. Gains(X[1], Y[1], m.n)
  BY <1>1, <1>2, <1>3, <1>6, AnswersStage
<1>10. Advances(X, Y, 2, m.n)
  BY <1>4, <1>7, <1>8, <1>9, AllPlaces
<1> QED
  BY <1>10 DEF RepliesMove

\* The client reads a message of the server for a relay.
LEMMA RepliesRead ==
    ASSUME NEW P, NEW Q, NEW S, NEW T, NEW an, Typed(P), Typed(Q), Typed(S),
           NEW w, Given(S, w, T), NEW o, ReadsFor(P, Q, w, o),
           NEW X, X = RepliesWay(an, S, P), NEW Y, Y = RepliesWay(an, T, Q)
    PROVE  RepliesMove(X, Y)
<1>1. /\ X[1] = Stage(an, Answers) /\ X[2] = Stage(Mail(P), AppReplies)
      /\ X[3] = Stage(Mail(P), RelayReplies) /\ X[4] = Stage(S.out, SentReplies)
      /\ X[5] = Stage(Mail(S), Replies)
  BY RepliesWayIs
<1>2. /\ Y[1] = Stage(an, Answers) /\ Y[2] = Stage(Mail(Q), AppReplies)
      /\ Y[3] = Stage(Mail(Q), RelayReplies) /\ Y[4] = Stage(T.out, SentReplies)
      /\ Y[5] = Stage(Mail(T), Replies)
  BY RepliesWayIs
<1>3. Keeps(X[1], Y[1]) /\ Keeps(X[5], Y[5])
  <2>1. Unmoved(S, T)
    BY UnmovedIs
  <2> QED
    BY <1>1, <1>2, <2>1, SameStage DEF Unmoved
<1>4. PICK a : a = Msg(Ext, o, w.kind, w.iid, w.n)
  OBVIOUS
<1>5. Mail(Q) = Append(Mail(P), a)
  BY <1>4 DEF ReadsFor
<1>6. a.kind = w.kind /\ a.src = Ext /\ a.n = w.n
  BY <1>4 DEF Msg
<1>7. a \in Queued
  BY <1>5, LastIn DEF Typed
<1>8. a \notin AppReplies /\ (a \in RelayReplies <=> w.kind = "reply")
  BY <1>6, <1>7 DEF AppReplies, RelayReplies, Replies
<1>9. Keeps(X[2], Y[2])
  BY <1>1, <1>2, <1>5, <1>8, AllLabelled, PostsStage
<1>10. /\ a \in RelayReplies => Gains(X[3], Y[3], a.n)
       /\ a \notin RelayReplies => Keeps(X[3], Y[3])
  BY <1>1, <1>2, <1>5, AllLabelled, PostsStage
<1>11. /\ w \in SentReplies => Gives(X[4], Y[4], w.n)
       /\ w \notin SentReplies => Keeps(X[4], Y[4])
       /\ w \in Written
  BY <1>1, <1>2, AllLabelled, GivenStage
<1>12. w \in SentReplies <=> w.kind = "reply"
  BY <1>11 DEF SentReplies
<1>13. CASE w.kind = "reply"
  <2>1. Advances(X, Y, 4, w.n)
    BY <1>3, <1>6, <1>8, <1>9, <1>10, <1>11, <1>12, <1>13, AllPlaces
  <2> QED
    BY <2>1 DEF RepliesMove
<1>14. CASE w.kind # "reply"
  <2>1. \A x, y : Keeps(x, y) => Less(x, y)
    BY DEF Keeps, Less
  <2>2. Shrinks(X, Y)
    BY <1>3, <1>8, <1>9, <1>10, <1>11, <1>12, <1>14, <2>1, AllPlaces
  <2> QED
    BY <2>2 DEF RepliesMove
<1> QED
  BY <1>13, <1>14

\* Every step of the client moves the replies.
LEMMA RepliesClient ==
    ASSUME RelaysInv, NEW P, P = proc["client"], NEW S, S = proc["server"],
           NEW Q, NEW T, T = proc'["server"], ClientStep(P, Q), Typed(Q),
           NEW X, X = RepliesWay(answers, S, P), NEW Y, Y = RepliesWay(answers', T, Q)
    PROVE  RepliesMove(X, Y)
<1>1. Typed(P) /\ Typed(S)
  BY TypedIs DEF RelaysInv, Procs
<1>2. PICK R : answers \in Seq(R)
  BY DEF RelaysInv, HistoryOK
<1>3. /\ T = S \/ \E w : Given(S, w, T)
      /\ T = S \/ answers' = answers
  BY DEF ClientStep
<1>4. Thins(S, T) /\ Less(Stage(S.out, SentReplies), Stage(T.out, SentReplies))
  BY <1>1, <1>3, AllLabelled, UnmovedIs, UnmovedOut DEF Thins, Unmoved
<1>5. ASSUME Thins(P, Q), answers' = answers \/ \E a : a.kind = "error" /\ answers' = Append(answers, a)
      PROVE  RepliesMove(X, Y)
  <2>1. Less(Stage(answers, Answers), Stage(answers', Answers))
    <3>1. CASE answers' = answers
      BY <3>1, SameStage
    <3>2. ASSUME NEW a, a.kind = "error", answers' = Append(answers, a)
          PROVE  Less(Stage(answers, Answers), Stage(answers', Answers))
      BY <1>2, <3>2, AnswersStage
    <3> QED
      BY <1>5, <3>1, <3>2
  <2>2. PICK an, bn : an = answers /\ bn = answers'
    OBVIOUS
  <2> QED
    BY <1>1, <1>4, <1>5, <2>1, <2>2, RepliesThin
<1>6. Idles(P, Q, sent, dropped \cup died) => Thins(P, Q)
  BY DEF Idles, MailIdle, Thins
<1>7. ASSUME NEW m, SendsCall(P, Q, m, sent) PROVE Thins(P, Q)
  BY <1>7 DEF SendsCall, Thins
<1>8. ASSUME NEW m, PassesReply(P, Q, m, sent), answers' = answers, T = S PROVE RepliesMove(X, Y)
  BY <1>1, <1>8, RepliesPassed
<1>9. ASSUME NEW m, GetsReply(P, Q, m, sent), T = S,
             answers' = Append(answers, [proc |-> "client", oid |-> m.src, kind |-> "reply", n |-> m.n])
      PROVE  RepliesMove(X, Y)
  BY <1>1, <1>2, <1>9, RepliesGot
<1>10. ASSUME NEW o, NEW i, NEW n, MakesCall(P, Q, o, i, n), answers' = answers, T = S PROVE RepliesMove(X, Y)
  <2>1. PICK a : a = Msg(App, o, "call", i, n)
    OBVIOUS
  <2>2. Mail(Q) = Append(Mail(P), a)
    BY <1>10, <2>1 DEF MakesCall
  <2>3. a \notin AppReplies /\ a \notin RelayReplies
    BY <2>1, KindsOf DEF Msg
  <2>4. /\ X[1] = Stage(answers, Answers) /\ X[2] = Stage(Mail(P), AppReplies)
        /\ X[3] = Stage(Mail(P), RelayReplies) /\ X[4] = Stage(S.out, SentReplies)
        /\ X[5] = Stage(Mail(S), Replies)
    BY RepliesWayIs
  <2>5. /\ Y[1] = Stage(answers, Answers) /\ Y[2] = Stage(Mail(Q), AppReplies)
        /\ Y[3] = Stage(Mail(Q), RelayReplies) /\ Y[4] = Stage(S.out, SentReplies)
        /\ Y[5] = Stage(Mail(S), Replies)
    BY <1>10, RepliesWayIs
  <2>6. Keeps(X[2], Y[2]) /\ Keeps(X[3], Y[3])
    <3>1. Typed(P) /\ Labelled(AppReplies) /\ Labelled(RelayReplies)
      BY <1>1, AllLabelled
    <3>2. /\ Keeps(Stage(Mail(P), AppReplies), Stage(Mail(Q), AppReplies))
          /\ Keeps(Stage(Mail(P), RelayReplies), Stage(Mail(Q), RelayReplies))
      BY <2>2, <2>3, <3>1, PostsStage
    <3> QED
      BY <2>4, <2>5, <3>2
  <2>7. \A x, y : Keeps(x, y) => Less(x, y)
    BY DEF Keeps, Less
  <2>8. Shrinks(X, Y)
    BY <2>4, <2>5, <2>6, <2>7, SameStage, AllPlaces
  <2> QED
    BY <2>8 DEF RepliesMove
<1>11. ASSUME NEW w, Given(S, w, T), NEW o, ReadsFor(P, Q, w, o), answers' = answers PROVE RepliesMove(X, Y)
  BY <1>1, <1>11, RepliesRead
<1> QED
  BY <1>5, <1>6, <1>7, <1>8, <1>9, <1>10, <1>11 DEF ClientStep

\* What a step of the server that posts no reply does.
LEMMA RepliesServed ==
    ASSUME NEW an, NEW P, NEW Q, NEW C, NEW D, Mail(D) = Mail(C),
           Less(Stage(Mail(P), Replies), Stage(Mail(Q), Replies)),
           Less(Stage(P.out, SentReplies), Stage(Q.out, SentReplies)),
           NEW X, X = RepliesWay(an, P, C), NEW Y, Y = RepliesWay(an, Q, D)
    PROVE  RepliesMove(X, Y)
<1>1. /\ X[1] = Stage(an, Answers) /\ X[2] = Stage(Mail(C), AppReplies)
      /\ X[3] = Stage(Mail(C), RelayReplies) /\ X[4] = Stage(P.out, SentReplies)
      /\ X[5] = Stage(Mail(P), Replies)
  BY RepliesWayIs
<1>2. /\ Y[1] = Stage(an, Answers) /\ Y[2] = Stage(Mail(D), AppReplies)
      /\ Y[3] = Stage(Mail(D), RelayReplies) /\ Y[4] = Stage(Q.out, SentReplies)
      /\ Y[5] = Stage(Mail(Q), Replies)
  BY RepliesWayIs
<1> QED
  BY <1>1, <1>2, SameStage, AllPlaces DEF RepliesMove

\* A reply leaves the server.
LEMMA RepliesSent ==
    ASSUME NEW an, NEW P, NEW Q, NEW C, NEW s, Typed(P), Typed(Q), NEW m, SendsReply(P, Q, m, s),
           NEW X, X = RepliesWay(an, P, C), NEW Y, Y = RepliesWay(an, Q, C)
    PROVE  RepliesMove(X, Y)
<1>1. /\ X[1] = Stage(an, Answers) /\ X[2] = Stage(Mail(C), AppReplies)
      /\ X[3] = Stage(Mail(C), RelayReplies) /\ X[4] = Stage(P.out, SentReplies)
      /\ X[5] = Stage(Mail(P), Replies)
  BY RepliesWayIs
<1>2. /\ Y[1] = Stage(an, Answers) /\ Y[2] = Stage(Mail(C), AppReplies)
      /\ Y[3] = Stage(Mail(C), RelayReplies) /\ Y[4] = Stage(Q.out, SentReplies)
      /\ Y[5] = Stage(Mail(Q), Replies)
  BY RepliesWayIs
<1>3. Keeps(X[1], Y[1]) /\ Keeps(X[2], Y[2]) /\ Keeps(X[3], Y[3])
  BY <1>1, <1>2, SameStage
<1>4. PICK o \in Oids : Q.out = Append(P.out, [extid |-> Key(o), kind |-> "reply", iid |-> "R", n |-> m.n])
  BY DEF SendsReply
<1>5. PICK w : w = [extid |-> Key(o), kind |-> "reply", iid |-> "R", n |-> m.n]
  OBVIOUS
<1>6. Shifts(P, Q) /\ m = Head(Mail(P)) /\ m.kind = "reply" /\ Q.out = Append(P.out, w)
  BY <1>4, <1>5 DEF SendsReply, FromObject
<1>7. m \in Replies
  <2>1. m \in Queued
    BY <1>6, RangeHead DEF Typed, Shifts
  <2> QED
    BY <1>6, <2>1 DEF Replies
<1>8. w \in SentReplies /\ w.n = m.n
  <2>1. w \in Written
    BY <1>6, LastIn DEF Typed
  <2> QED
    BY <1>5, <2>1 DEF SentReplies
<1>9. Gives(X[5], Y[5], m.n)
  BY <1>1, <1>2, <1>6, <1>7, AllLabelled, ShiftsStage
<1>10. Gains(X[4], Y[4], m.n)
  BY <1>1, <1>2, <1>6, <1>8, AllLabelled, StageAppend DEF Typed
<1>11. Advances(X, Y, 5, m.n)
  BY <1>3, <1>9, <1>10, AllPlaces
<1> QED
  BY <1>11 DEF RepliesMove

\* An object takes a call and may reply.
LEMMA RepliesMade ==
    ASSUME NEW an, NEW P, NEW Q, NEW C, NEW s, NEW gone, Typed(P), Typed(Q), NEW m, TakesCall(P, Q, m, s, gone),
           NEW X, X = RepliesWay(an, P, C), NEW Y, Y = RepliesWay(an, Q, C)
    PROVE  RepliesMove(X, Y) \/ Enters(X, Y, m.n)
<1>1. /\ X[1] = Stage(an, Answers) /\ X[2] = Stage(Mail(C), AppReplies)
      /\ X[3] = Stage(Mail(C), RelayReplies) /\ X[4] = Stage(P.out, SentReplies)
      /\ X[5] = Stage(Mail(P), Replies)
  BY RepliesWayIs
<1>2. /\ Y[1] = Stage(an, Answers) /\ Y[2] = Stage(Mail(C), AppReplies)
      /\ Y[3] = Stage(Mail(C), RelayReplies) /\ Y[4] = Stage(Q.out, SentReplies)
      /\ Y[5] = Stage(Mail(Q), Replies)
  BY RepliesWayIs
<1>3. PICK a : a = Msg(m.dest, m.src, "reply", "R", m.n)
  OBVIOUS
<1>4. /\ Mail(P) # <<>> /\ m = Head(Mail(P)) /\ m.kind = "call" /\ Q.out = P.out
      /\ Mail(Q) = Tail(Mail(P)) \/ Mail(Q) = Append(Tail(Mail(P)), a)
  BY <1>3 DEF TakesCall, ToObject
<1>5. Keeps(X[1], Y[1]) /\ Keeps(X[2], Y[2]) /\ Keeps(X[3], Y[3]) /\ Keeps(X[4], Y[4])
  BY <1>1, <1>2, <1>4, SameStage
<1>6. m \notin Replies
  BY <1>4, KindsOf
<1>7. CASE Mail(Q) = Tail(Mail(P))
  <2>1. Shifts(P, Q)
    BY <1>4, <1>7 DEF Shifts
  <2>2. Keeps(X[5], Y[5])
    BY <1>1, <1>2, <1>4, <1>6, <2>1, AllLabelled, ShiftsStage
  <2>3. \A x, y : Keeps(x, y) => Less(x, y)
    BY DEF Keeps, Less
  <2>4. Shrinks(X, Y)
    BY <1>5, <2>2, <2>3, AllPlaces
  <2> QED
    BY <2>4 DEF RepliesMove
<1>8. CASE Mail(Q) = Append(Tail(Mail(P)), a)
  <2>1. a \in Queued
    <3>1. PICK N : N = Tail(Mail(P))
      OBVIOUS
    <3>2. N \in Seq(Queued) /\ Append(N, a) \in Seq(Queued)
      BY <1>4, <1>8, <3>1, RangeHead DEF Typed
    <3> QED
      BY <3>2, LastIn
  <2>2. a \in Replies /\ a.n = m.n
    BY <1>3, <2>1 DEF Replies, Msg
  <2>3. Gains(X[5], Y[5], m.n)
    BY <1>1, <1>2, <1>4, <1>6, <1>8, <2>2, AllLabelled, ReplacesStage
  <2> QED
    BY <1>5, <2>3, AllPlaces
<1> QED
  BY <1>4, <1>7, <1>8

\* Every step of the server moves the replies, or a call is taken and replied to.
LEMMA RepliesServer ==
    ASSUME RelaysInv, NEW P, P = proc["server"], NEW C, C = proc["client"],
           \A w \in Range(C.out) : ClientOut(w, sent, dropped),
           NEW Q, NEW D, D = proc'["client"], ServerStep(P, Q), Typed(Q),
           NEW X, X = RepliesWay(answers, P, C), NEW Y, Y = RepliesWay(answers', Q, D)
    PROVE  \/ RepliesMove(X, Y)
           \/ \E m : /\ TakesCall(P, Q, m, sent, dropped \cup died) /\ taken' = Append(taken, m.n)
                     /\ Enters(X, Y, m.n)
<1>1. Typed(P) /\ Typed(C)
  BY TypedIs DEF RelaysInv, Procs
<1>2. D = C \/ \E w : Given(C, w, D)
  BY DEF ServerStep
<1>3. Mail(D) = Mail(C) /\ answers' = answers
  BY <1>2, UnmovedIs DEF Unmoved, ServerStep
<1>4. \A x, y : Keeps(x, y) => Less(x, y)
  BY DEF Keeps, Less
<1>5. Q.out = P.out => Less(Stage(P.out, SentReplies), Stage(Q.out, SentReplies))
  BY SameStage
<1>6. ASSUME ServerIdles(P, Q, sent, dropped \cup died) PROVE RepliesMove(X, Y)
  <2>1. OutIdle(P, Q) /\ Thins(P, Q)
    BY <1>6 DEF ServerIdles, ServerMailIdle, Thins
  <2>2. Less(Stage(Mail(P), Replies), Stage(Mail(Q), Replies))
    BY <1>1, <2>1, AllLabelled, KindsOf, ThinsStage
  <2>3. Keeps(Stage(P.out, SentReplies), Stage(Q.out, SentReplies))
        \/ Cuts(Stage(P.out, SentReplies), Stage(Q.out, SentReplies))
    BY <1>1, <2>1, AllLabelled, KindsOf, OutIdleStage
  <2>4. Less(Stage(P.out, SentReplies), Stage(Q.out, SentReplies))
    BY <2>3 DEF Keeps, Cuts, Less
  <2> QED
    BY <1>3, <2>2, <2>4, RepliesServed
<1>7. ASSUME TellsError(P, Q, died) PROVE RepliesMove(X, Y)
  <2>1. PICK o, n : o \in Oids /\ Q.out = Append(P.out, [extid |-> Key(o), kind |-> "error", iid |-> "COM", n |-> n])
    BY <1>7 DEF TellsError
  <2>2. PICK w : w = [extid |-> Key(o), kind |-> "error", iid |-> "COM", n |-> n]
    OBVIOUS
  <2>3. Q.out = Append(P.out, w) /\ w \notin SentReplies
    BY <2>1, <2>2, KindsOf
  <2>4. Less(Stage(P.out, SentReplies), Stage(Q.out, SentReplies))
    BY <1>1, <1>4, <2>3, AllLabelled, StageAppend DEF Typed
  <2>5. Less(Stage(Mail(P), Replies), Stage(Mail(Q), Replies))
    BY <1>7, SameStage DEF TellsError
  <2> QED
    BY <1>3, <2>4, <2>5, RepliesServed
<1>8. ASSUME NEW m, PassesCall(P, Q, m, sent, dropped \cup died) PROVE RepliesMove(X, Y)
  <2>1. PICK x \in Oids : Mail(Q) = Append(Tail(Mail(P)), Msg(m.dest, x, "call", m.iid, m.n))
    BY <1>8 DEF PassesCall
  <2>2. PICK a : a = Msg(m.dest, x, "call", m.iid, m.n)
    OBVIOUS
  <2>3. a \notin Replies /\ m \notin Replies
    BY <1>8, <2>2, KindsOf DEF PassesCall, ExtCall, Msg
  <2>4. Mail(P) # <<>> /\ m = Head(Mail(P)) /\ Mail(Q) = Append(Tail(Mail(P)), a) /\ Q.out = P.out
    BY <1>8, <2>1, <2>2 DEF PassesCall
  <2>5. Less(Stage(Mail(P), Replies), Stage(Mail(Q), Replies))
    BY <1>1, <1>4, <2>3, <2>4, AllLabelled, ReplacesStage
  <2> QED
    BY <1>3, <1>5, <2>4, <2>5, RepliesServed
<1>9. ASSUME NEW m, SendsReply(P, Q, m, sent), D = C PROVE RepliesMove(X, Y)
  BY <1>1, <1>3, <1>9, RepliesSent
<1>10. ASSUME NEW m, TakesCall(P, Q, m, sent, dropped \cup died), D = C
       PROVE  RepliesMove(X, Y) \/ Enters(X, Y, m.n)
  BY <1>1, <1>3, <1>10, RepliesMade
<1>11. ASSUME NEW w, Given(C, w, D), ReadsCall(P, Q, w) PROVE RepliesMove(X, Y)
  <2>1. PICK o \in Oids :
            \/ Mail(Q) = Append(Mail(P), Msg(Ext, o, w.kind, w.iid, w.n))
            \/ Mail(Q) = Append(Append(Mail(P), Msg(Ext, o, "create", "COM", 0)), Msg(Ext, o, w.kind, w.iid, w.n))
    BY <1>11 DEF ReadsCall
  <2>2. PICK a, b : a = Msg(Ext, o, w.kind, w.iid, w.n) /\ b = Msg(Ext, o, "create", "COM", 0)
    OBVIOUS
  <2>3. Mail(Q) = Append(Mail(P), a) \/ Mail(Q) = Append(Append(Mail(P), b), a)
    BY <2>1, <2>2
  <2>4. w.kind # "reply"
    <3>1. C.out \in Seq(Written) /\ C.out # <<>> /\ w = Head(C.out)
      BY <1>1, <1>11 DEF Given, Typed
    <3>2. ClientOut(w, sent, dropped)
      BY <3>1, RangeHead
    <3> QED
      BY <3>2 DEF ClientOut
  <2>5. a \notin Replies /\ b \notin Replies
    BY <2>2, <2>4, KindsOf DEF Msg
  <2>6. Less(Stage(Mail(P), Replies), Stage(Mail(Q), Replies))
    BY <1>1, <1>4, <2>3, <2>5, AllLabelled, ComesStage
  <2>7. Q.out = P.out
    BY <1>11 DEF ReadsCall
  <2> QED
    BY <1>3, <1>5, <2>6, <2>7, RepliesServed
<1> QED
  BY <1>6, <1>7, <1>8, <1>9, <1>10, <1>11 DEF ServerStep

-----------------------------------------------------------------------------
(* Calls and replies stay in order *)

\* A call on its way has been sent.
LEMMA SentIn ==
    ASSUME RelaysInv, NEW X, X = CallsWay(taken, proc["server"], proc["client"])
    PROVE  Within(X, 5) \subseteq DOMAIN sent
<1>1. PICK D, S, C : D = DOMAIN sent /\ S = proc["server"] /\ C = proc["client"]
  OBVIOUS
<1>2. /\ X[1] = Order(taken) /\ X[2] = Stage(Mail(S), ObjectCalls) /\ X[3] = Stage(Mail(S), RelayCalls)
      /\ X[4] = Stage(C.out, SentCalls) /\ X[5] = Stage(Mail(C), Calls)
  BY <1>1, CallsWayIs
<1>3. Good("server", S, D) /\ Good("client", C, D) /\ taken \in Seq(D)
  BY <1>1 DEF RelaysInv, HistoryOK, Procs
<1>4. Mail(S) \in Seq(Message(D)) /\ Mail(C) \in Seq(Message(D)) /\ C.out \in Seq(Sendable(D))
  BY <1>3, MailIs DEF Good
<1>5. X[1].n \subseteq D
  BY <1>2, <1>3 DEF Order, Range
<1>6. ASSUME NEW M \in Seq(Message(D)), NEW A, Labelled(A), \A m \in A : m.kind = "call"
      PROVE  Stage(M, A).n \subseteq D
  <2>1. \A a \in Stage(M, A).n : \E i \in DOMAIN M : M[i] \in A /\ M[i].n = a
    BY <1>6, StageIs
  <2>2. \A i \in DOMAIN M : M[i] \in Message(D)
    OBVIOUS
  <2> QED
    BY <1>6, <2>1, <2>2 DEF Message
<1>7. X[2].n \subseteq D /\ X[3].n \subseteq D /\ X[5].n \subseteq D
  BY <1>2, <1>4, <1>6, AllLabelled, KindsOf
<1>8. X[4].n \subseteq D
  <2>1. \A a \in X[4].n : \E i \in DOMAIN C.out : C.out[i] \in SentCalls /\ C.out[i].n = a
    BY <1>2, AllLabelled, StageIs
  <2>2. \A i \in DOMAIN C.out : C.out[i] \in Sendable(D)
    BY <1>4
  <2> QED
    BY <2>1, <2>2, KindsOf DEF Sendable
<1>9. \A i \in 1 .. 5 : i = 1 \/ i = 2 \/ i = 3 \/ i = 4 \/ i = 5
  OBVIOUS
<1>10. Within(X, 5) \subseteq D
  BY <1>5, <1>7, <1>8, <1>9 DEF Within
<1> QED
  BY <1>1, <1>10

\* What the client's steps do to the order of the calls,
LEMMA CallsOrderClient ==
    ASSUME RelaysInv, NEW C, C = proc["client"], ClientOK(C, sent, dropped, died),
           NEW S, S = proc["server"], \A w \in Range(S.out) : ServerOut(w, sent, died),
           NEW D, NEW T, T = proc'["server"], ClientStep(C, D), Typed(D),
           CallsOK(taken, S, C, sent, dropped \cup died)
    PROVE  CallsOK(taken, T, D, sent', dropped \cup died)
<1>1. PICK X, Y : X = CallsWay(taken, S, C) /\ Y = CallsWay(taken, T, D)
  OBVIOUS
<1>2. PICK gone, H, J : gone = dropped \cup died /\ H = Reach(S, C) /\ J = Reach(T, D)
  OBVIOUS
<1>3. InOrder(X, sent, gone) /\ Complete(X, H, sent, gone)
  BY <1>1, <1>2 DEF CallsOK
<1>4. Narrows(H, J, gone)
  <2>1. Unmoved(S, T) /\ \A o : Open(T, o) <=> Open(S, o)
    BY UnmovedIs DEF ClientStep
  <2>2. OpenBy(S, T, gone)
    BY <2>1 DEF OpenBy
  <2>3. /\ T.ext = "open" => S.ext = "open"
        /\ D.ext = "open" => C.ext = "open"
        /\ HasExt(T) => HasExt(S)
    BY <2>1 DEF Unmoved, ClientStep
  <2> QED
    BY <1>2, <2>2, <2>3, ReachNarrows
<1>5. PICK R : sent \in Seq(R)
  BY DEF RelaysInv, HistoryOK
<1>6. DOMAIN sent \subseteq Nat /\ DOMAIN sent = 1 .. Len(sent) /\ Len(sent) \in Nat
  BY <1>5
<1>7. \/ sent' = sent /\ CallsMove(X, Y, H, J, sent, gone)
      \/ \E o \in Oids : sent' = Append(sent, Proxy(o)) /\ Enters(X, Y, Len(sent) + 1)
  BY <1>1, <1>2, CallsClient
<1>8. CASE sent' = sent /\ CallsMove(X, Y, H, J, sent, gone)
  <2>1. InOrder(Y, sent, gone) /\ Complete(Y, J, sent, gone)
    BY <1>3, <1>4, <1>6, <1>8, MoveKept
  <2> QED
    BY <1>1, <1>2, <1>8, <2>1 DEF CallsOK
<1>9. ASSUME NEW o \in Oids, sent' = Append(sent, Proxy(o)), Enters(X, Y, Len(sent) + 1)
      PROVE  CallsOK(taken, T, D, sent', dropped \cup died)
  <2>1. PICK c, t, pr : c = Len(sent) + 1 /\ t = sent' /\ pr = Proxy(o)
    OBVIOUS
  <2>2. t = Append(sent, pr) /\ Enters(X, Y, c) /\ c \in Nat
    BY <1>6, <1>9, <2>1
  <2>3. DOMAIN t = DOMAIN sent \cup {c} /\ \A n \in DOMAIN sent : n < c /\ t[n] = sent[n]
    <3>1. sent \in Seq(R \cup {pr}) /\ t = Append(sent, pr) /\ c = Len(sent) + 1
      BY <1>5, <2>1, <2>2
    <3> QED
      BY <3>1
  <2>4. Within(X, 5) \subseteq DOMAIN sent
    BY <1>1, SentIn
  <2>5. InOrder(Y, t, gone)
    <3>1. \A a \in Within(X, 5) : t[a] = t[c] /\ t[a] \notin gone => a < c
      BY <2>3, <2>4
    <3>2. \A a \in DOMAIN sent : t[a] = sent[a]
      BY <2>3
    <3> QED
      BY <1>3, <2>2, <2>4, <3>1, <3>2, OrderEnters
  <2>6. Complete(Y, J, t, gone)
    BY <1>3, <1>4, <1>6, <2>2, <2>3, <2>4, CompleteEnters
  <2> QED
    BY <1>1, <1>2, <2>1, <2>5, <2>6 DEF CallsOK
<1> QED
  BY <1>7, <1>8, <1>9

\* and the server's.
LEMMA CallsOrderServer ==
    ASSUME RelaysInv, NEW S, S = proc["server"], NEW C, C = proc["client"],
           NEW T, NEW D, D = proc'["client"], ServerStep(S, T), Typed(T),
           CallsOK(taken, S, C, sent, dropped \cup died)
    PROVE  CallsOK(taken', T, D, sent, dropped \cup died)
<1>1. PICK X, Y : X = CallsWay(taken, S, C) /\ Y = CallsWay(taken', T, D)
  OBVIOUS
<1>2. PICK gone, H, J : gone = dropped \cup died /\ H = Reach(S, C) /\ J = Reach(T, D)
  OBVIOUS
<1>3. InOrder(X, sent, gone) /\ Complete(X, H, sent, gone)
  BY <1>1, <1>2 DEF CallsOK
<1>4. Narrows(H, J, gone)
  <2>1. Unmoved(C, D)
    <3>1. D = C \/ \E w : Given(C, w, D)
      BY DEF ServerStep
    <3> QED
      BY <3>1, UnmovedIs
  <2>2. OpenBy(S, T, gone)
    BY <1>2 DEF ServerStep
  <2>3. /\ T.ext = "open" => S.ext = "open"
        /\ D.ext = "open" => C.ext = "open"
        /\ HasExt(T) => HasExt(S)
    BY <2>1 DEF Unmoved, ServerStep
  <2> QED
    BY <1>2, <2>2, <2>3, ReachNarrows
<1>5. DOMAIN sent \subseteq Nat
  BY DEF RelaysInv, HistoryOK
<1>6. CallsMove(X, Y, H, J, sent, gone)
  BY <1>1, <1>2, CallsServer
<1>7. InOrder(Y, sent, gone) /\ Complete(Y, J, sent, gone)
  BY <1>3, <1>4, <1>5, <1>6, MoveKept
<1> QED
  BY <1>1, <1>2, <1>7 DEF CallsOK

\* The client's steps keep the replies in order.
LEMMA RepliesOrderClient ==
    ASSUME RelaysInv, NEW C, C = proc["client"], NEW S, S = proc["server"],
           NEW D, NEW T, T = proc'["server"], ClientStep(C, D), Typed(D),
           RepliesOK(answers, taken, S, C, sent, dropped \cup died)
    PROVE  RepliesOK(answers', taken, T, D, sent', dropped \cup died)
<1>1. PICK X, Y : X = RepliesWay(answers, S, C) /\ Y = RepliesWay(answers', T, D)
  OBVIOUS
<1>2. PICK gone, t : gone = dropped \cup died /\ t = sent'
  OBVIOUS
<1>3. InOrder(X, sent, gone) /\ Within(X, 5) \subseteq Range(taken)
  BY <1>1, <1>2 DEF RepliesOK
<1>4. RepliesMove(X, Y)
  BY <1>1, RepliesClient
<1>5. Within(X, 5) \subseteq DOMAIN sent
  BY <1>3 DEF RelaysInv, HistoryOK, Range
<1>6. \A n \in DOMAIN sent : t[n] = sent[n]
  <2>1. PICK R : sent \in Seq(R)
    BY DEF RelaysInv, HistoryOK
  <2>2. CASE sent' = sent
    BY <1>2, <2>2
  <2>3. ASSUME NEW pr, sent' = Append(sent, pr) PROVE \A n \in DOMAIN sent : t[n] = sent[n]
    <3>1. sent \in Seq(R \cup {pr}) /\ t = Append(sent, pr)
      BY <1>2, <2>1, <2>3
    <3> QED
      BY <3>1
  <2> QED
    BY <2>2, <2>3 DEF ClientStep
<1>7. InOrder(X, t, gone)
  BY <1>3, <1>5, <1>6, OrderHistory
<1>8. InOrder(Y, t, gone)
  BY <1>4, <1>7, OrderKept DEF RepliesMove
<1>9. Within(Y, 5) \subseteq Range(taken)
  BY <1>3, <1>4, WithinKept
<1> QED
  BY <1>1, <1>2, <1>8, <1>9 DEF RepliesOK

\* The call that is replied to comes after those that were taken before, and a
\* reply is on its way only to a call that was taken.
LEMMA RepliesOrderServer ==
    ASSUME RelaysInv, NEW S, S = proc["server"], NEW C, C = proc["client"],
           \A w \in Range(C.out) : ClientOut(w, sent, dropped),
           NEW T, NEW D, D = proc'["client"], ServerStep(S, T), Typed(T),
           CallsOK(taken, S, C, sent, dropped \cup died),
           RepliesOK(answers, taken, S, C, sent, dropped \cup died)
    PROVE  RepliesOK(answers', taken', T, D, sent, dropped \cup died)
<1>1. PICK X, Y : X = RepliesWay(answers, S, C) /\ Y = RepliesWay(answers', T, D)
  OBVIOUS
<1>2. PICK gone : gone = dropped \cup died
  OBVIOUS
<1>3. InOrder(X, sent, gone) /\ Within(X, 5) \subseteq Range(taken)
  BY <1>1, <1>2 DEF RepliesOK
<1>4. taken \in Seq(DOMAIN sent) /\ DOMAIN sent \subseteq Nat
  BY DEF RelaysInv, HistoryOK
<1>5. Range(taken) \subseteq DOMAIN sent
  BY <1>4 DEF Range
<1>6. Range(taken) \subseteq Range(taken')
  <2>1. taken' = taken \/ \E n : taken' = Append(taken, n)
    BY DEF ServerStep
  <2>2. ASSUME NEW n, taken' = Append(taken, n) PROVE Range(taken) \subseteq Range(taken')
    BY <1>4, <2>2, RangeAppend
  <2> QED
    BY <2>1, <2>2
<1>7. CASE RepliesMove(X, Y)
  <2>1. InOrder(Y, sent, gone)
    BY <1>3, <1>7, OrderKept DEF RepliesMove
  <2>2. Within(Y, 5) \subseteq Range(taken')
    BY <1>3, <1>6, <1>7, WithinKept
  <2> QED
    BY <1>1, <1>2, <2>1, <2>2 DEF RepliesOK
<1>8. ASSUME NEW m, TakesCall(S, T, m, sent, gone), taken' = Append(taken, m.n), Enters(X, Y, m.n)
      PROVE  RepliesOK(answers', taken', T, D, sent, gone)
  <2>1. PICK Z : Z = CallsWay(taken, S, C)
    OBVIOUS
  <2>2. Typed(S)
    BY TypedIs DEF RelaysInv, Procs
  <2>3. Z[1] = Order(taken) /\ Z[2] = Stage(Mail(S), ObjectCalls)
    BY <2>1, CallsWayIs
  <2>4. InOrder(Z, sent, gone)
    BY <1>2, <2>1 DEF CallsOK
  <2>5. m.n \in Z[2].n
    <3>1. Mail(S) # <<>> /\ m = Head(Mail(S)) /\ m.kind = "call" /\ m.src \in Oids
      BY <1>8 DEF TakesCall, ToObject, Through, Tied
    <3>2. m \in Queued
      BY <2>2, <3>1, RangeHead DEF Typed
    <3>3. m \in ObjectCalls
      BY <3>1, <3>2, OidsApart DEF ObjectCalls, Calls
    <3>4. PICK M : M = Mail(S)
      OBVIOUS
    <3>5. M \in Seq(Queued) /\ M # <<>> /\ m = Head(M)
      BY <2>2, <3>1, <3>4 DEF Typed
    <3>6. 1 \in DOMAIN M /\ M[1] = m
      BY <3>5
    <3> QED
      BY <2>3, <3>3, <3>4, <3>6, AllLabelled, StageIs
  <2>6. ASSUME NEW a \in Within(X, 5), sent[a] = sent[m.n], sent[a] \notin gone PROVE a < m.n
    <3>1. a \in Z[1].n
      BY <1>3, <2>3, <2>6 DEF Order
    <3>2. Ahead(Z, a, m.n)
      <4>1. 1 \in Places /\ 2 \in Places /\ 1 < 2
        BY DEF Places
      <4> QED
        BY <2>5, <3>1, <4>1 DEF Ahead
    <3> QED
      BY <2>4, <2>6, <3>2 DEF InOrder
  <2>7. InOrder(Y, sent, gone)
    <3>1. Within(X, 5) \subseteq DOMAIN sent
      BY <1>3, <1>5
    <3>2. \A a \in Within(X, 5) : sent[a] = sent[m.n] /\ sent[a] \notin gone => a < m.n
      BY <2>6
    <3>3. \A a \in DOMAIN sent : sent[a] = sent[a]
      OBVIOUS
    <3> QED
      BY <1>3, <1>8, <3>1, <3>2, <3>3, OrderEnters
  <2>8. Within(Y, 5) \subseteq Range(taken')
    BY <1>3, <1>4, <1>8, RangeAppend, WithinEnters
  <2> QED
    BY <1>1, <1>2, <2>7, <2>8 DEF RepliesOK
<1> QED
  BY <1>1, <1>2, <1>7, <1>8, RepliesServer

-----------------------------------------------------------------------------
(* The invariant of calls and answers *)

\* Without messages there is nothing to put in order.
LEMMA EmptyStages ==
    ASSUME NEW S, NEW C, Mail(S) = <<>>, Mail(C) = <<>>,
           \A w \in Range(S.out) \cup Range(C.out) : w.kind = "export",
           S.out \in Seq(Written), C.out \in Seq(Written), NEW s, NEW gone, DOMAIN s = {}
    PROVE  CallsOK(<<>>, S, C, s, gone) /\ RepliesOK(<<>>, <<>>, S, C, s, gone)
<1>1. PICK X, Y : X = CallsWay(<<>>, S, C) /\ Y = RepliesWay(<<>>, S, C)
  OBVIOUS
<1>2. /\ X[1] = Order(<<>>) /\ X[2] = Stage(<<>>, ObjectCalls) /\ X[3] = Stage(<<>>, RelayCalls)
      /\ X[4] = Stage(C.out, SentCalls) /\ X[5] = Stage(<<>>, Calls)
  BY <1>1, CallsWayIs
<1>3. /\ Y[1] = Stage(<<>>, Answers) /\ Y[2] = Stage(<<>>, AppReplies)
      /\ Y[3] = Stage(<<>>, RelayReplies) /\ Y[4] = Stage(S.out, SentReplies)
      /\ Y[5] = Stage(<<>>, Replies)
  BY <1>1, RepliesWayIs
<1>4. Order(<<>>).n = {}
  <2>1. Range(<<>>) = {}
    BY DEF Range
  <2> QED
    BY <2>1 DEF Order
<1>5. Stage(C.out, SentCalls).n = {} /\ Stage(S.out, SentReplies).n = {}
  <2>1. \A i \in DOMAIN C.out : C.out[i] \notin SentCalls
    BY KindsOf DEF Range
  <2>2. \A i \in DOMAIN S.out : S.out[i] \notin SentReplies
    BY KindsOf DEF Range
  <2>3. \A a : a \notin Stage(C.out, SentCalls).n
    BY <2>1, AllLabelled, StageIs
  <2>4. \A a : a \notin Stage(S.out, SentReplies).n
    BY <2>2, AllLabelled, StageIs
  <2> QED
    BY <2>3, <2>4
<1>6. X[1].n = {} /\ X[2].n = {} /\ X[3].n = {} /\ X[4].n = {} /\ X[5].n = {}
  BY <1>2, <1>4, <1>5, AllLabelled, StageEmpty
<1>7. Y[1].n = {} /\ Y[2].n = {} /\ Y[3].n = {} /\ Y[4].n = {} /\ Y[5].n = {}
  BY <1>3, <1>5, AllLabelled, StageEmpty
<1>8. \A i \in 1 .. 5 : i = 1 \/ i = 2 \/ i = 3 \/ i = 4 \/ i = 5
  OBVIOUS
<1>9. Within(X, 5) = {} /\ Within(Y, 5) = {}
  BY <1>6, <1>7, <1>8 DEF Within
<1>10. \A a, b : ~Ahead(X, a, b) /\ ~Ahead(Y, a, b)
  BY <1>9, AheadIn
<1>11. InOrder(X, s, gone) /\ InOrder(Y, s, gone)
  BY <1>10 DEF InOrder
<1>12. Complete(X, Reach(S, C), s, gone)
  BY DEF Complete
<1> QED
  BY <1>1, <1>9, <1>11, <1>12 DEF CallsOK, RepliesOK

\* At first nothing is on its way.
LEMMA InitWays == Init => WaysInv
<1> SUFFICES ASSUME Init PROVE WaysInv
  OBVIOUS
<1>1. RoutesInv
  BY InitRoutes
<1>2. PICK S, C : S = proc["server"] /\ C = proc["client"]
  OBVIOUS
<1>3. PICK w : w = [extid |-> extid_COM, kind |-> "export", iid |-> "COM", n |-> 0]
  OBVIOUS
<1>4. ASSUME NEW p \in Procs
      PROVE  proc[p].inq = <<>> /\ proc[p].outq = <<>> /\ proc[p].out = <<w>>
  BY <1>3, Zenon DEF Init
<1>5. S.inq = <<>> /\ S.outq = <<>> /\ S.out = <<w>> /\ C.inq = <<>> /\ C.outq = <<>> /\ C.out = <<w>>
  BY <1>2, <1>4 DEF Procs
<1>6. Mail(S) = <<>> /\ Mail(C) = <<>>
  BY <1>5 DEF Mail
<1>7. Range(<<w>>) = {w} /\ w.kind = "export"
  <2>1. Range(<<w>>) = {w}
    BY DEF Range
  <2> QED
    BY <1>3, <2>1
<1>8. S.out \in Seq(Written) /\ C.out \in Seq(Written)
  BY <1>1, <1>2 DEF RoutesInv, RelaysInv, Procs, Good, IsProcess
<1>9. sent = <<>> /\ taken = <<>> /\ answers = <<>>
  BY DEF Init
<1>10. DOMAIN sent = {} /\ Range(answers) = {}
  BY <1>9 DEF Range
<1>11. PICK gone : gone = dropped \cup died
  OBVIOUS
<1>12. CallsOK(<<>>, S, C, sent, gone) /\ RepliesOK(<<>>, <<>>, S, C, sent, gone)
  BY <1>5, <1>6, <1>7, <1>8, <1>10, EmptyStages
<1> QED
  BY <1>1, <1>2, <1>9, <1>10, <1>11, <1>12 DEF WaysInv

\* What the application of the client is told.
LEMMA ClientAnswers ==
    ASSUME RelaysInv, NEW P, P = proc["client"], ClientOK(P, sent, dropped, died), Acts("client"),
           \A a \in Range(answers) : Answered(a, sent, died)
    PROVE  \A a \in Range(answers') : Answered(a, sent, died)
<1>1. PICK T : answers \in Seq(T)
  BY DEF RelaysInv, HistoryOK
<1>2. answers' = answers \/ COMRelay_COM_error("client") \/ AppAnswered("client")
  BY DEF Acts, Loop, Socket, Program, COMRelay_COM_message, COMRelay_COM_delete, PCOM_create_object,
     DropMessage, ObjectCalled, AppConnected, Extern_Extern_close, EndRound, Extern_reading, ReadClosed,
     AppCalls, AppDrops, AppCloses, ObjectDies, ObjectFails, Exit, history
<1>3. PICK m : m = Head(proc["client"].inq)
  OBVIOUS
<1>4. Delivers("client") => ClientMail(P, m, sent, died)
  <2>1. PICK U : U = Taken("client")
    OBVIOUS
  <2>2. Delivers("client") => Range(Mail(P)) = {m} \cup Range(Mail(U))
    BY <1>3, <2>1, TakenMail DEF Procs
  <2> QED
    BY <2>2 DEF ClientOK
<1>5. CASE COMRelay_COM_error("client")
  <2>1. PICK failed \in {m.dest, Ext} :
            answers' = Append(answers, [proc |-> "client", oid |-> failed, kind |-> "error", n |-> m.n])
    BY <1>3, <1>5 DEF COMRelay_COM_error
  <2>2. PICK a : a = [proc |-> "client", oid |-> failed, kind |-> "error", n |-> m.n]
    OBVIOUS
  <2>3. m.kind = "error" /\ Delivers("client")
    BY <1>3, <1>5 DEF COMRelay_COM_error
  <2>4. Proxy(m.dest) \in died
    BY <1>4, <2>3 DEF ClientMail, AppCall, ExtReply, AppReply, ExtEnd, ToSelf
  <2>5. Answered(a, sent, died)
    BY <2>1, <2>2, <2>4 DEF Answered
  <2> QED
    BY <1>1, <2>1, <2>2, <2>5, RangeAppend
<1>6. CASE AppAnswered("client")
  <2>1. answers' = Append(answers, [proc |-> "client", oid |-> m.src, kind |-> "reply", n |-> m.n])
    BY <1>3, <1>6 DEF AppAnswered
  <2>2. PICK a : a = [proc |-> "client", oid |-> m.src, kind |-> "reply", n |-> m.n]
    OBVIOUS
  <2>3. m.kind = "reply" /\ m.dest = App /\ Delivers("client")
    BY <1>3, <1>6 DEF AppAnswered
  <2>4. m.n \in DOMAIN sent /\ sent[m.n] = Proxy(m.src)
    BY <1>4, <2>3, OidsApart DEF ClientMail, AppCall, ExtReply, AppReply, ExtEnd, ToSelf
  <2>5. Answered(a, sent, died)
    BY <2>2, <2>4 DEF Answered
  <2> QED
    BY <1>1, <2>1, <2>2, <2>5, RangeAppend
<1> QED
  BY <1>2, <1>5, <1>6

\* The client takes no calls.
LEMMA ClientHistory ==
    ASSUME Acts("client"), ~ObjectCalled("client")
    PROVE  taken' = taken /\ dropped \subseteq dropped'
BY DEF Acts, Loop, Socket, Program, COMRelay_COM_message, COMRelay_COM_error, COMRelay_COM_delete,
   PCOM_create_object, DropMessage, AppConnected, AppAnswered, Extern_Extern_close, EndRound,
   Extern_reading, ReadClosed, AppCalls, AppDrops, AppCloses, ObjectDies, ObjectFails, Exit, history

\* The more proxies are gone, the less is asked of calls and replies.
LEMMA WaysMore ==
    ASSUME NEW S, NEW C, NEW s, NEW gone, NEW ended, gone \subseteq ended
    PROVE  /\ \A tk : CallsOK(tk, S, C, s, gone) => CallsOK(tk, S, C, s, ended)
           /\ \A an, tk : RepliesOK(an, tk, S, C, s, gone) => RepliesOK(an, tk, S, C, s, ended)
BY OrderMore DEF CallsOK, RepliesOK

\* A step of the client,
LEMMA WaysClient ==
    ASSUME OneWay, WaysInv, Acts("client"), RoutesInv'
    PROVE  WaysInv'
<1>1. PICK C, S : C = proc["client"] /\ S = proc["server"]
  OBVIOUS
<1>2. PICK D, T : D = proc'["client"] /\ T = proc'["server"]
  OBVIOUS
<1>3. PICK gone, ended : gone = dropped \cup died /\ ended = dropped' \cup died'
  OBVIOUS
<1>4. RelaysInv /\ ClientOK(C, sent, dropped, died) /\ ServerOK(S, sent, dropped, died)
  BY <1>1 DEF WaysInv, RoutesInv
<1>5. \A w \in Range(S.out) : ServerOut(w, sent, died)
  BY <1>4 DEF ServerOK, ServerCore
<1>6. ClientStep(C, D) /\ ~ObjectCalled("client")
  BY <1>1, <1>2, <1>4, ClientStepIs DEF Acts
<1>7. Typed(D)
  <2>1. RelaysInv'
    BY DEF RoutesInv
  <2>2. Good("client", D, DOMAIN sent')
    BY <1>2, <2>1 DEF RelaysInv, Procs
  <2> QED
    BY <2>2, TypedIs
<1>8. taken' = taken /\ died' = died /\ gone \subseteq ended
  <2>1. taken' = taken /\ dropped \subseteq dropped'
    BY <1>6, ClientHistory
  <2>2. COMRelay_COM_error("client") => NoStray(proc'["client"])
    BY <1>1, <1>4, NoStrayIs DEF WaysInv, RoutesInv
  <2>3. died' = died
    BY <1>1, <1>4, <1>5, <2>2, ClientActs DEF Acts
  <2> QED
    BY <1>3, <2>1, <2>3
<1>9. CallsOK(taken, S, C, sent, gone) /\ RepliesOK(answers, taken, S, C, sent, gone)
  BY <1>1, <1>3 DEF WaysInv
<1>10. CallsOK(taken, T, D, sent', gone)
  BY <1>1, <1>2, <1>3, <1>4, <1>5, <1>6, <1>7, <1>9, CallsOrderClient
<1>11. RepliesOK(answers', taken, T, D, sent', gone)
  BY <1>1, <1>2, <1>3, <1>4, <1>6, <1>7, <1>9, RepliesOrderClient
<1>12. \A a \in Range(answers') : Answered(a, sent', died')
  <2>1. \A a \in Range(answers') : Answered(a, sent, died)
    BY <1>1, <1>4, ClientAnswers DEF WaysInv
  <2>2. PICK R : sent \in Seq(R)
    BY <1>4 DEF RelaysInv, HistoryOK
  <2>3. PICK t : t = sent'
    OBVIOUS
  <2>4. DOMAIN sent \subseteq DOMAIN t /\ \A n \in DOMAIN sent : t[n] = sent[n]
    <3>1. sent' = sent \/ \E pr : sent' = Append(sent, pr)
      BY <1>6 DEF ClientStep
    <3>2. ASSUME NEW pr, sent' = Append(sent, pr)
          PROVE  DOMAIN sent \subseteq DOMAIN t /\ \A n \in DOMAIN sent : t[n] = sent[n]
      <4>1. sent \in Seq(R \cup {pr}) /\ t = Append(sent, pr)
        BY <2>2, <2>3, <3>2
      <4> QED
        BY <4>1
    <3> QED
      BY <2>3, <3>1, <3>2
  <2>5. \A a : Answered(a, sent, died) => Answered(a, t, died)
    BY <2>4 DEF Answered
  <2> QED
    BY <1>8, <2>1, <2>3, <2>5
<1>13. CallsOK(taken, T, D, sent', ended) /\ RepliesOK(answers', taken, T, D, sent', ended)
  BY <1>8, <1>10, <1>11, WaysMore
<1> QED
  BY <1>2, <1>3, <1>8, <1>12, <1>13 DEF WaysInv

\* and one of the server.
LEMMA WaysServer ==
    ASSUME OneWay, WaysInv, Acts("server"), RoutesInv'
    PROVE  WaysInv'
<1>1. PICK C, S : C = proc["client"] /\ S = proc["server"]
  OBVIOUS
<1>2. PICK D, T : D = proc'["client"] /\ T = proc'["server"]
  OBVIOUS
<1>3. PICK gone, ended : gone = dropped \cup died /\ ended = dropped' \cup died'
  OBVIOUS
<1>4. RelaysInv /\ ClientOK(C, sent, dropped, died) /\ ServerOK(S, sent, dropped, died)
  BY <1>1 DEF WaysInv, RoutesInv
<1>5. ServerIdle(S) /\ \A w \in Range(C.out) : ClientOut(w, sent, dropped)
  BY <1>4 DEF ServerOK, ServerCore, ServerRelays, ClientOK
<1>6. ServerStep(S, T)
  BY <1>1, <1>2, <1>4, ServerStepIs DEF Acts
<1>7. Typed(T)
  <2>1. RelaysInv'
    BY DEF RoutesInv
  <2>2. Good("server", T, DOMAIN sent')
    BY <1>2, <2>1 DEF RelaysInv, Procs
  <2> QED
    BY <2>2, TypedIs
<1>8. sent' = sent /\ answers' = answers /\ died \subseteq died' /\ gone \subseteq ended
  <2>1. sent' = sent /\ dropped' = dropped /\ died \subseteq died'
    BY <1>1, <1>4, <1>5, ServerLeaves DEF Acts
  <2>2. answers' = answers
    BY <1>6 DEF ServerStep
  <2> QED
    BY <1>3, <2>1, <2>2
<1>9. CallsOK(taken, S, C, sent, gone) /\ RepliesOK(answers, taken, S, C, sent, gone)
  BY <1>1, <1>3 DEF WaysInv
<1>10. CallsOK(taken', T, D, sent, gone)
  BY <1>1, <1>2, <1>3, <1>4, <1>6, <1>7, <1>9, CallsOrderServer
<1>11. RepliesOK(answers', taken', T, D, sent, gone)
  BY <1>1, <1>2, <1>3, <1>4, <1>5, <1>6, <1>7, <1>9, RepliesOrderServer
<1>12. \A a \in Range(answers') : Answered(a, sent', died')
  BY <1>8 DEF WaysInv, Answered
<1>13. CallsOK(taken', T, D, sent, ended) /\ RepliesOK(answers', taken', T, D, sent, ended)
  BY <1>8, <1>10, <1>11, WaysMore
<1> QED
  BY <1>2, <1>3, <1>8, <1>12, <1>13 DEF WaysInv

\* Every step keeps the invariant of calls and answers.
LEMMA NextWays == OneWay /\ WaysInv /\ [Next]_vars => WaysInv'
<1> SUFFICES ASSUME OneWay, WaysInv, [Next]_vars PROVE WaysInv'
  OBVIOUS
<1>1. RoutesInv'
  BY NextRoutes DEF WaysInv
<1>2. CASE UNCHANGED vars
  BY <1>1, <1>2 DEF WaysInv, vars
<1>3. ASSUME NEW p \in Procs, Acts(p) PROVE WaysInv'
  BY <1>1, <1>3, WaysClient, WaysServer DEF Procs
<1> QED
  BY <1>2, <1>3 DEF Next, Acts

\* If only the client has proxies, at each stage that calls and replies go
\* through they are in the order in which they were sent, none of a live proxy is
\* missing between two that have passed it, and only a call that was taken has a
\* reply.
THEOREM WaysInvariance == ASSUME OneWay PROVE Spec => []WaysInv
<1>1. Init => WaysInv
  BY InitWays
<1>2. WaysInv /\ [Next]_vars => WaysInv'
  BY NextWays
<1> QED
  BY <1>1, <1>2, PTL DEF Spec

-----------------------------------------------------------------------------
(* What follows for the properties *)

\* The calls of a proxy are taken in their order, and none is passed over.
LEMMA TakenInOrder ==
    ASSUME WaysInv, NEW j \in DOMAIN taken, Live(sent[taken[j]])
    PROVE  /\ \A i \in 1 .. j - 1 : sent[taken[i]] = sent[taken[j]] => taken[i] < taken[j]
           /\ \A n \in 1 .. taken[j] : sent[n] = sent[taken[j]] => n \in Range(taken)
<1>1. PICK S, C : S = proc["server"] /\ C = proc["client"]
  OBVIOUS
<1>2. PICK X, H, gone : X = CallsWay(taken, S, C) /\ H = Reach(S, C) /\ gone = dropped \cup died
  OBVIOUS
<1>3. InOrder(X, sent, gone) /\ Complete(X, H, sent, gone) /\ X[1] = Order(taken)
  BY <1>1, <1>2, CallsWayIs DEF WaysInv, CallsOK
<1>4. /\ sent \in Seq(Procs \X Oids) /\ taken \in Seq(DOMAIN sent) /\ sent[taken[j]] \notin gone
  BY <1>2 DEF WaysInv, RoutesInv, RelaysInv, HistoryOK, Live
<1>5. X[1].n = Range(taken)
  BY <1>3 DEF Order
<1>6. ASSUME NEW i \in 1 .. j - 1, sent[taken[i]] = sent[taken[j]] PROVE taken[i] < taken[j]
  <2>1. i \in DOMAIN taken /\ i < j /\ taken[i] \in DOMAIN sent /\ taken[j] \in DOMAIN sent
    BY <1>4
  <2>2. taken[i] \in Nat /\ taken[j] \in Nat
    BY <1>4, <2>1
  <2>3. <<taken[i], taken[j]>> \in Order(taken).q
    BY <2>1, <2>2 DEF Order
  <2>4. taken[i] \in X[1].n /\ taken[j] \in X[1].n
    BY <1>5, <2>1 DEF Range
  <2>5. Ahead(X, taken[i], taken[j])
    <3>1. 1 \in Places
      BY DEF Places
    <3> QED
      BY <1>3, <2>3, <2>4, <3>1 DEF Ahead
  <2> QED
    BY <1>3, <1>4, <1>6, <2>5 DEF InOrder
<1>7. ASSUME NEW n \in 1 .. taken[j], sent[n] = sent[taken[j]] PROVE n \in Range(taken)
  <2>1. PICK a : a = taken[j]
    OBVIOUS
  <2>2. a \in DOMAIN sent /\ n \in DOMAIN sent /\ n <= a /\ a \in X[1].n
    BY <1>4, <1>5, <1>7, <2>1 DEF Range
  <2>3. 1 \in Places /\ ~(1 > 1) /\ ~(1 > 2) /\ ~(1 > 3) /\ ~(1 > 4)
    BY DEF Places
  <2>4. sent[a] \in H[1]
    <3>1. ClientSent(C, sent, dropped)
      BY <1>1 DEF WaysInv, RoutesInv, ClientOK
    <3>2. PICK o \in Oids : sent[a] = Proxy(o)
      BY <2>2, <3>1 DEF ClientSent
    <3>3. Reaches(S, C, 1, o)
      BY <2>3 DEF Reaches
    <3> QED
      BY <1>2, <2>3, <3>2, <3>3, ReachIs
  <2>5. n \in Within(X, 1)
    BY <1>3, <1>4, <1>7, <2>1, <2>2, <2>3, <2>4 DEF Complete
  <2>6. PICK i \in 1 .. 1 : n \in X[i].n
    BY <2>5 DEF Within
  <2>7. i = 1
    OBVIOUS
  <2> QED
    BY <1>5, <2>6, <2>7
<1> QED
  BY <1>6, <1>7

\* The calls of an object are those of one live proxy.
LEMMA TakenFromOne ==
    ASSUME RoutesInv, NEW p \in Procs, NEW x \in DOMAIN proc[p].objects,
           NEW n \in Range(proc[p].objects[x].calls), NEW k \in Range(proc[p].objects[x].calls),
           Live(sent[n]), Live(sent[k])
    PROVE  sent[n] = sent[k]
<1>1. p # "client"
  BY DEF RoutesInv, ClientOK, ClientRelays
<1>2. PICK P : P = proc["server"]
  OBVIOUS
<1>3. p = "server" /\ Serving(P, x, sent, dropped, died) /\ ServerRelays(P, dropped) /\ ConnsOK("server", P)
  BY <1>1, <1>2 DEF RoutesInv, RelaysInv, Procs, Good, ServerOK, ServerCore
<1>4. n \in Range(P.objects[x].calls) /\ k \in Range(P.objects[x].calls)
  BY <1>2, <1>3
<1>5. PICK r \in Servers(P, x), o \in Oids : sent[n] = Proxy(o) /\ [oid |-> r, extid |-> Key(o)] \in P.conns
  BY <1>3, <1>4 DEF Serving, Live
<1>6. PICK q \in Servers(P, x), u \in Oids : sent[k] = Proxy(u) /\ [oid |-> q, extid |-> Key(u)] \in P.conns
  BY <1>3, <1>4 DEF Serving, Live
<1>7. r = q
  BY <1>3, <1>5, <1>6 DEF Servers, ServerRelays, ServerRelay
<1>8. Key(o) = Key(u)
  <2>1. PICK c, d : c = [oid |-> r, extid |-> Key(o)] /\ d = [oid |-> q, extid |-> Key(u)]
    OBVIOUS
  <2>2. c \in P.conns /\ d \in P.conns /\ c.oid = d.oid
    BY <1>5, <1>6, <1>7, <2>1
  <2>3. c.extid = d.extid
    BY <1>3, <2>2 DEF ConnsOK
  <2> QED
    BY <2>1, <2>3
<1> QED
  BY <1>5, <1>6, <1>8, KeyFacts

\* CallsRouted: the calls made through a proxy are taken in their order, none is
\* passed over or taken twice (COMRelay_COM_message, Extern_queue_incoming_message,
\* xcom.c), and no other live proxy's calls go to the same object.
THEOREM CallsRouting == ASSUME OneWay PROVE Spec => []CallsRouted
<1>1. WaysInv => CallsRouted
  <2> SUFFICES ASSUME WaysInv PROVE CallsRouted
    OBVIOUS
  <2>1. \A j \in DOMAIN taken : Live(sent[taken[j]]) =>
            /\ \A i \in 1 .. j - 1 : sent[taken[i]] = sent[taken[j]] => taken[i] < taken[j]
            /\ \A n \in 1 .. taken[j] : sent[n] = sent[taken[j]] => n \in Range(taken)
    BY TakenInOrder
  <2>2. ASSUME NEW p \in Procs, NEW x \in DOMAIN proc[p].objects,
               NEW a \in {sent[n] : n \in Range(proc[p].objects[x].calls)},
               NEW b \in {sent[n] : n \in Range(proc[p].objects[x].calls)}, Live(a), Live(b)
        PROVE  a = b
    <3>1. PICK n, k \in Range(proc[p].objects[x].calls) : a = sent[n] /\ b = sent[k]
      OBVIOUS
    <3> QED
      BY <2>2, <3>1, TakenFromOne DEF WaysInv
  <2> QED
    BY <2>1, <2>2 DEF CallsRouted
<1>2. Spec => []WaysInv
  BY WaysInvariance
<1> QED
  BY <1>1, <1>2, PTL

\* AnswersMatch: a reply comes for the proxy of its call and an error for one whose
\* object has ended (COMRelay_COM_message, COMRelay_COM_error, xcom.c), and replies
\* come in the order of the calls, and once.
THEOREM AnswersMatching == ASSUME OneWay PROVE Spec => []AnswersMatch
<1>1. WaysInv => AnswersMatch
  <2> SUFFICES ASSUME WaysInv PROVE AnswersMatch
    OBVIOUS
  <2>1. answers \in Seq([proc : Procs, oid : Nat, kind : Kinds, n : Nat])
    BY DEF WaysInv, RoutesInv, RelaysInv, HistoryOK
  <2>2. ASSUME NEW i \in DOMAIN answers
        PROVE  Answered(answers[i], sent, died) /\ answers[i] \in [proc : Procs, oid : Nat, kind : Kinds, n : Nat]
    <3>1. answers[i] \in Range(answers)
      BY DEF Range
    <3>2. Answered(answers[i], sent, died)
      BY <3>1 DEF WaysInv
    <3>3. PICK R : R = [proc : Procs, oid : Nat, kind : Kinds, n : Nat]
      OBVIOUS
    <3>4. answers \in Seq(R)
      BY <2>1, <3>3
    <3>5. answers[i] \in R
      BY <3>4
    <3> QED
      BY <3>2, <3>3, <3>5
  <2>3. ASSUME NEW i \in DOMAIN answers, NEW a, a = answers[i]
        PROVE  /\ a.kind = "reply" => sent[a.n] = <<a.proc, a.oid>>
               /\ a.kind # "reply" /\ a.oid # Ext => <<a.proc, a.oid>> \in died
    <3>1. Answered(a, sent, died)
      BY <2>2, <2>3
    <3> QED
      BY <3>1 DEF Answered, Proxy
  <2>4. ASSUME NEW i \in DOMAIN answers, NEW j \in DOMAIN answers, NEW a, a = answers[i], NEW b, b = answers[j],
               i < j, a.kind = "reply", b.kind = "reply", a.oid = b.oid, Live(<<a.proc, a.oid>>)
        PROVE  a.n < b.n
    <3>1. PICK X, gone : X = RepliesWay(answers, proc["server"], proc["client"]) /\ gone = dropped \cup died
      OBVIOUS
    <3>2. InOrder(X, sent, gone) /\ X[1] = Stage(answers, Answers)
      BY <3>1, RepliesWayIs DEF WaysInv, RepliesOK
    <3>3. a \in Answers /\ b \in Answers /\ Answered(a, sent, died) /\ Answered(b, sent, died)
      BY <2>2, <2>4 DEF Answers
    <3>4. Before(answers, Answers, a.n, b.n)
      BY <2>4, <3>3 DEF Before
    <3>5. a.n \in X[1].n /\ b.n \in X[1].n /\ <<a.n, b.n>> \in X[1].q
      BY <2>4, <3>2, <3>3, <3>4, AllLabelled, StageIs
    <3>6. Ahead(X, a.n, b.n)
      <4>1. 1 \in Places
        BY DEF Places
      <4> QED
        BY <3>5, <4>1 DEF Ahead
    <3>7. sent[a.n] = sent[b.n] /\ sent[a.n] \notin gone
      BY <2>4, <3>1, <3>3 DEF Answered, Proxy, Live
    <3> QED
      BY <3>2, <3>6, <3>7 DEF InOrder
  <2> QED
    BY <2>3, <2>4 DEF AnswersMatch
<1>2. Spec => []WaysInv
  BY WaysInvariance
<1> QED
  BY <1>1, <1>2, PTL

=============================================================================
