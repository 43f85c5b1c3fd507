------------------------------ MODULE LinkTable ------------------------------
(***************************************************************************)
(* The message link map of main.c, _casycom_omap, as a sequence of links   *)
(* sorted by destination oid, and the object table that tells which class  *)
(* implements an interface.  Positions count from 1 here, from 0 in C.     *)
(*                                                                         *)
(* A position that the code computes is given by a predicate (IsLowerBound,*)
(* IsFirstGap...); the loops that compute it are below, as recursive       *)
(* functions, and Casycom!SearchesAgree compares the two.                  *)
(***************************************************************************)
EXTENDS Integers, Sequences

CONSTANTS
    Class,          \* object classes (Factory records)
    NoClass,        \* the null Factory pointer
    Iface,          \* interfaces
    Dtables,        \* Dtables[c]: the interfaces in the dtable of class c
    ObjectTable,    \* _casycom_object_table: the registered classes, in order
    DefaultObject   \* _casycom_default_object, or NoClass

ASSUME ClassAssumption ==
    /\ NoClass \notin Class
    /\ Dtables \in [Class -> SUBSET Iface]
    /\ ObjectTable \in Seq(Class)
    /\ DefaultObject \in Class \cup {NoClass}

Oid == Nat
oid_Broadcast == 0
oid_App == 1
oid_First == 2

Null == 0           \* the null object pointer; objects are numbered from 1

\* The o field is the object pointer and unused the f_Unused flag.  The factory
\* field is find_factory(iface): the object table does not change after start.
MsgLink == [src : Oid, dest : Oid, iface : Iface, o : Nat, unused : BOOLEAN]

-----------------------------------------------------------------------------
(* Classes and interfaces *)

find_dtable(c, i) ==
    c # NoClass /\ (i \in Dtables[c] \/ c = DefaultObject)

find_factory(i) ==
    LET supporting == {k \in DOMAIN ObjectTable : find_dtable(ObjectTable[k], i)}
    IN  IF supporting = {}
        THEN DefaultObject
        ELSE ObjectTable[CHOOSE k \in supporting : \A j \in supporting : k <= j]

\* Every interface has a class: casycom_queue_message asserts it.
ASSUME RegisteredAssumption == \A i \in Iface : find_factory(i) # NoClass

-----------------------------------------------------------------------------
(* Insertion and removal of one link *)

vector_emplace(m, p, l) ==
    [i \in 1 .. Len(m) + 1 |->
        IF i < p THEN m[i] ELSE IF i = p THEN l ELSE m[i - 1]]

vector_erase(m, p) ==
    [i \in 1 .. Len(m) - 1 |-> IF i < p THEN m[i] ELSE m[i + 1]]

-----------------------------------------------------------------------------
(* Positions in the map *)

IsSorted(m) == \A i, j \in DOMAIN m : i < j => m[i].dest <= m[j].dest

Dests(m) == {m[i].dest : i \in DOMAIN m}

\* What casycom_omap_lower_bound returns.
IsLowerBound(m, d, p) ==
    /\ p \in 1 .. Len(m) + 1
    /\ \A i \in DOMAIN m : IF i < p THEN m[i].dest < d ELSE d <= m[i].dest

\* Mutant: the new link is put before those to the same object.
InsertAtLowerBound(m, d, p) == IsLowerBound(m, d, p)

\* Where casycom_create_proxy_to inserts: past the links to the same object.
IsInsertPoint(m, d, p) ==
    /\ p \in 1 .. Len(m) + 1
    /\ \A i \in DOMAIN m : IF i < p THEN m[i].dest <= d ELSE d < m[i].dest

\* The link casycom_find_destination returns: the first one of the block.
IsDestination(m, d, p) ==
    IsLowerBound(m, d, p) /\ p \in DOMAIN m /\ m[p].dest = d

\* The link casycom_link_for_proxy returns: src and dest decide, not the
\* interface, so two proxies between the same objects share the first link.
IsLinkForProxy(m, s, d, p) ==
    /\ p \in DOMAIN m /\ m[p].dest = d /\ m[p].src = s
    /\ \A i \in DOMAIN m : m[i].dest = d /\ m[i].src = s => p <= i

\* The oid casycom_create_proxy gives a new object: the first number past
\* the lowest destination to which there is no link.
IsFirstGap(m, d) ==
    LET start == IF m = <<>> THEN oid_First ELSE m[1].dest
    IN  d \in Oid /\ start <= d /\ d \notin Dests(m) /\ start .. d - 1 \subseteq Dests(m)

-----------------------------------------------------------------------------
(* The loops of the code *)

\* Mutant: the comparison of the binary search lets equal numbers pass.
UpperBound(m, d) ==
    LET search[r \in (0 .. Len(m)) \X (0 .. Len(m))] ==
            LET first == r[1]
                last == r[2]
                mid == (first + last) \div 2
            IN  IF first >= last THEN first
                ELSE IF m[mid + 1].dest <= d THEN search[<<mid + 1, last>>]
                ELSE search[<<first, mid>>]
    IN  search[<<0, Len(m)>>] + 1

\* The binary search; first and last count from 0, as in C.
casycom_omap_lower_bound(m, d) ==
    LET search[r \in (0 .. Len(m)) \X (0 .. Len(m))] ==
            LET first == r[1]
                last == r[2]
                mid == (first + last) \div 2
            IN  IF first >= last THEN first
                ELSE IF m[mid + 1].dest < d THEN search[<<mid + 1, last>>]
                ELSE search[<<first, mid>>]
    IN  search[<<0, Len(m)>>] + 1

\* The search for a number gap.  Once nid is below a destination it stays
\* below all the later ones, so the break of the code is not needed.
first_gap(m) ==
    LET nid[ip \in 0 .. Len(m)] ==
            IF ip = 0 THEN (IF m = <<>> THEN oid_First ELSE m[1].dest)
            ELSE IF nid[ip - 1] = m[ip].dest THEN nid[ip - 1] + 1
            ELSE nid[ip - 1]
    IN  nid[Len(m)]
=============================================================================
