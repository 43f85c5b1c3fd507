---------------------------- MODULE MsgSignature -----------------------------
(***************************************************************************)
(* The signature of a message and the check of its body (msg.c, stm.h).    *)
(*                                                                         *)
(* casymsg_validate_signature walks the letters of the signature and the   *)
(* bytes of the body together.  It is compared here with the types that the*)
(* letters stand for, as docs/protocol.html has them: a body written value *)
(* by value must be found valid, also after the padding that it has on a   *)
(* socket; and whatever bytes another process sends, a body that is found  *)
(* valid must be safe to read.                                             *)
(*                                                                         *)
(* A body is a sequence of bytes, aligned like memory; p is the number of  *)
(* bytes passed and i a place in the signature.                            *)
(***************************************************************************)
EXTENDS Integers, Sequences, SequencesExt, FiniteSetsExt

CONSTANTS
    Types,          \* types of arguments
    Pads,           \* whether the writer pads between arguments
    Values,         \* the numbers that are written
    Bytes,          \* bytes that another process may send
    MaxArgs,        \* bounds: the arguments of a method,
    MaxString,      \*   the size of a string,
    MaxElements     \*   the elements of an array

ASSUME SignatureAssumption ==
    /\ Values \subseteq 0 .. 255 /\ Bytes \subseteq 0 .. 255
    /\ Pads \in BOOLEAN
    /\ MaxArgs \in Nat /\ MaxString \in Nat /\ MaxElements \in Nat

VARIABLES
    args,           \* the types of the arguments written
    body,           \* the body, as it is with the reader when it was sent
    state,          \* "writing", "received", or "changed" by another sender
    size            \* history: the size of the body that was sent

vars == <<args, body, state, size>>

\* A type is a letter, with the types inside it.
Type(c, inner) == [c |-> c, inner |-> inner]

ceilg(n, grain) == ((n + grain - 1) \div grain) * grain

MESSAGE_BODY_ALIGNMENT == 8

casymsg_sigelement_size(c) ==
    CASE c \in {"y", "b"} -> 1 [] c \in {"n", "q"} -> 2 [] c \in {"i", "u", "h"} -> 4
      [] c \in {"x", "t"} -> 8 [] OTHER -> 0

\* casystm_read_uint32
UInt32(b, p) == b[p + 1] + 256 * (b[p + 2] + 256 * (b[p + 3] + 256 * b[p + 4]))

casystm_can_read(b, p, sz) == p + sz <= Len(b)

-----------------------------------------------------------------------------
(* casymsg_validate_signature *)

\* Mutant: parentheses are not counted.
SkipOneLetter(s, i) == i + 1

RECURSIVE SkipNested(_, _, _)
SkipNested(s, i, parens) ==
    LET n == CASE s[i] = "(" -> parens + 1 [] s[i] = ")" -> parens - 1 [] OTHER -> parens
    IN  IF i = Len(s) \/ n = 0 THEN i + 1 ELSE SkipNested(s, i + 1, n)

casymsg_skip_one_sigelement(s, i) == SkipNested(s, i, 0)

RECURSIVE casymsg_sig_alignment(_, _), LargestAlignment(_, _, _)
LargestAlignment(s, i, elend) ==
    IF i >= elend THEN 0
    ELSE Max({casymsg_sig_alignment(s, i),
              LargestAlignment(s, casymsg_skip_one_sigelement(s, i), elend)})

casymsg_sig_alignment(s, i) ==
    CASE casymsg_sigelement_size(s[i]) > 0 -> casymsg_sigelement_size(s[i])
      [] s[i] \in {"a", "s"} -> 4
      [] s[i] = "(" -> LargestAlignment(s, i + 1, casymsg_skip_one_sigelement(s, i) - 1)
      [] OTHER -> 0

\* Mutant: everything is padded like a body.
AlignLikeBody(b, p, sz, grain) ==
    LET alignsz == ceilg(sz, MESSAGE_BODY_ALIGNMENT) - sz
    IN  IF casystm_can_read(b, p, alignsz) THEN alignsz ELSE 0

\* The padding after sz bytes, if it is there.
casymsg_validate_read_align(b, p, sz, grain) ==
    LET alignsz == ceilg(sz, grain) - sz
    IN  IF casystm_can_read(b, p, alignsz) THEN alignsz ELSE 0

\* Mutant: the last byte of a string is not looked at.
AnyEnd(b, p) == TRUE

\* The last byte passed is the end of a string.
ZeroTerminated(b, p) == b[p] = 0

\* An element is passed: its size, and where that leads in signature and body.
\* No size is invalid data, also where an assertion stops a debugging build.
Passed(sz, i, p) == [sz |-> sz, i |-> i, p |-> p]
Invalid == Passed(0, 0, 0)

RECURSIVE casymsg_validate_sigelement(_, _, _, _), Members(_, _, _), Elements(_, _, _, _, _)

\* The members of a struct, from where m has come to.
Members(s, b, m) ==
    IF m.i > Len(s) \/ s[m.i] = ")" THEN m
    ELSE LET e == casymsg_validate_sigelement(s, m.i, b, m.p)
         IN  IF e.sz = 0 THEN Invalid ELSE Members(s, b, Passed(m.sz + e.sz, e.i, e.p))

\* nel elements of an array that are not of fixed size.
Elements(s, i, b, m, nel) ==
    IF nel = 0 THEN m
    ELSE LET e == casymsg_validate_sigelement(s, i, b, m.p)
         IN  IF e.sz = 0 THEN Invalid ELSE Elements(s, i, b, Passed(m.sz + e.sz, i, e.p), nel - 1)

\* A struct stays before its closing parenthesis.
ValidateStruct(s, i, b, p) ==
    LET sal == casymsg_sig_alignment(s, i)
        m == Members(s, b, Passed(0, i + 1, p))
        al == casymsg_validate_read_align(b, m.p, m.sz, sal)
    IN  IF m = Invalid THEN Invalid ELSE Passed(m.sz + al, m.i, m.p + al)

ValidateArray(s, i, b, p) ==
    LET nel == UInt32(b, p)
        array == s[i] = "a"
        elsz == IF array THEN casymsg_sigelement_size(s[i + 1]) ELSE 1
        elal == IF array THEN Max({4, casymsg_sig_alignment(s, i + 1)}) ELSE 4
        first == ceilg(p + 4, elal)
        m == IF elsz = 0 THEN Elements(s, i + 1, b, Passed(4, i + 1, p + 4), nel)
             ELSE IF casystm_can_read(b, first, elsz * nel)
             THEN Passed(4 + elsz * nel, i + 1, first + elsz * nel)
             ELSE Invalid
        al == casymsg_validate_read_align(b, m.p, m.sz, elal)
    IN  IF m = Invalid \/ (~array /\ ~ZeroTerminated(b, m.p)) THEN Invalid
        ELSE Passed(m.sz + al, IF array THEN casymsg_skip_one_sigelement(s, i + 1) ELSE i + 1, m.p + al)

casymsg_validate_sigelement(s, i, b, p) ==
    LET sz == casymsg_sigelement_size(s[i]) IN
    CASE sz > 0 /\ casystm_can_read(b, p, sz) /\ p % sz = 0 -> Passed(sz, i + 1, p + sz)
      [] s[i] = "(" -> ValidateStruct(s, i, b, p)
      [] s[i] \in {"a", "s"} /\ casystm_can_read(b, p, 4) -> ValidateArray(s, i, b, p)
      [] OTHER -> Invalid

RECURSIVE ValidateFrom(_, _, _)
ValidateFrom(s, b, m) ==
    IF m.i > Len(s) THEN m.sz
    ELSE LET e == casymsg_validate_sigelement(s, m.i, b, m.p)
         IN  IF e.sz = 0 THEN 0 ELSE ValidateFrom(s, b, Passed(m.sz + e.sz, e.i, e.p))

casymsg_validate_signature(s, b) == ValidateFrom(s, b, Passed(0, 1, 0))

-----------------------------------------------------------------------------
(* Types, and the values that are written *)

RECURSIVE Letters(_)
Letters(t) ==
    LET inner == FlattenSeq([n \in DOMAIN t.inner |-> Letters(t.inner[n])])
    IN  IF t.c = "(" THEN <<"(">> \o inner \o <<")">> ELSE <<t.c>> \o inner

\* casymsg_signature
Signature == FlattenSeq([n \in DOMAIN args |-> Letters(args[n])])

RECURSIVE Alignment(_)
Alignment(t) ==
    CASE t.c = "(" -> Max({Alignment(t.inner[n]) : n \in DOMAIN t.inner})
      [] t.c \in {"a", "s"} -> 4
      [] OTHER -> casymsg_sigelement_size(t.c)

Zeros(n) == [x \in 1 .. n |-> 0]
Padding(p, grain) == Zeros(ceilg(p, grain) - p)
Number(n) == <<n, 0, 0, 0>>

\* casystm_write_string: the size counts the zero at the end, and is zero for
\* an empty string.
casystm_write_string(n) ==
    Number(n) \o [x \in 1 .. n |-> IF x < n THEN 1 ELSE 0] \o Padding(n, 4)

\* The bytes of every value of a type, of every n values of it, and of the
\* members of a struct, where p bytes precede.
RECURSIVE Written(_, _), WrittenTimes(_, _, _), WrittenMembers(_, _)
WrittenTimes(t, p, n) ==
    IF n = 0 THEN {<<>>}
    ELSE UNION {{v \o w : w \in WrittenTimes(t, p + Len(v), n - 1)} : v \in Written(t, p)}

WrittenMembers(ts, p) ==
    IF ts = <<>> THEN {<<>>}
    ELSE UNION {{v \o w : w \in WrittenMembers(Tail(ts), p + Len(v))} : v \in Written(Head(ts), p)}

Written(t, p) ==
    LET pad == Padding(p, Alignment(t))
        q == p + Len(pad)
    IN  {pad \o v : v \in
          CASE t.c = "s" -> {casystm_write_string(n) : n \in {0} \cup 2 .. MaxString}
            [] t.c = "a" ->
                LET el == t.inner[1]
                    first == Padding(q + 4, Alignment(el))
                    start == q + 4 + Len(first)
                IN  {Number(w[1]) \o first \o w[2] \o Padding(Len(w[2]), 4) : w \in
                        UNION {{n} \X WrittenTimes(el, start, n) : n \in 0 .. MaxElements}}
            [] t.c = "(" -> {w \o Padding(Len(w), Alignment(t)) : w \in WrittenMembers(t.inner, q)}
            [] OTHER -> {<<x>> \o Zeros(casymsg_sigelement_size(t.c) - 1) : x \in Values}}

\* casystm_read_string and the like: how far a value is read, or -1 where the
\* reader is at the end of the body or finds no end of a string.
RECURSIVE ReadValue(_, _, _), ReadTimes(_, _, _, _), ReadMembers(_, _, _)
ReadTimes(t, b, p, n) == IF n = 0 \/ p < 0 THEN p ELSE ReadTimes(t, b, ReadValue(t, b, p), n - 1)
ReadMembers(ts, b, p) == IF ts = <<>> \/ p < 0 THEN p ELSE ReadMembers(Tail(ts), b, ReadValue(Head(ts), b, p))

ReadValue(t, b, p) ==
    LET q == ceilg(p, Alignment(t))
        sz == Max({4 * (IF t.c \in {"a", "s"} THEN 1 ELSE 0), casymsg_sigelement_size(t.c)})
    IN  IF ~casystm_can_read(b, q, sz) THEN -1
        ELSE CASE t.c = "s" ->
                    LET n == UInt32(b, q)
                    IN  IF casystm_can_read(b, q + 4, n) /\ (n > 0 => b[q + 4 + n] = 0)
                        THEN ceilg(q + 4 + n, 4) ELSE -1
               [] t.c = "a" ->
                    LET end == ReadTimes(t.inner[1], b, q + 4, UInt32(b, q))
                    IN  IF end < 0 THEN -1 ELSE ceilg(end, 4)
               [] t.c = "(" ->
                    LET end == ReadMembers(t.inner, b, q)
                    IN  IF end < 0 THEN -1 ELSE ceilg(end, Alignment(t))
               [] OTHER -> q + sz

-----------------------------------------------------------------------------
(* A message *)

Init == args = <<>> /\ body = <<>> /\ state = "writing" /\ size = 0

\* The next argument.  Without padding it must come to an aligned place.
WriteArgument ==
    /\ state = "writing" /\ Len(args) < MaxArgs
    /\ \E t \in Types :
        /\ Pads \/ Len(body) % Alignment(t) = 0
        /\ args' = Append(args, t)
        /\ \E v \in Written(t, Len(body)) : body' = body \o v
    /\ UNCHANGED <<state, size>>

\* The body goes over a socket with its padding.
Extern_writing ==
    /\ state = "writing" /\ state' = "received"
    /\ size' = Len(body)
    /\ body' = body \o Padding(Len(body), MESSAGE_BODY_ALIGNMENT)
    /\ UNCHANGED args

\* Another process may send another body: some byte is different, or the end
\* is missing.
OtherBody ==
    /\ state = "received" /\ state' = "changed"
    /\ \/ \E n \in DOMAIN body, x \in Bytes : x # body[n] /\ body' = [body EXCEPT ![n] = x]
       \/ Len(body) > 0 /\ body' = SubSeq(body, 1, Len(body) - MESSAGE_BODY_ALIGNMENT)
    /\ UNCHANGED <<args, size>>

Next == WriteArgument \/ Extern_writing \/ OtherBody

Spec == Init /\ [][Next]_vars

\* Extern_validate_message: the size of the message without its padding.
vmsize == casymsg_validate_signature(Signature, body)
Extern_validate_message == ceilg(vmsize, MESSAGE_BODY_ALIGNMENT) = Len(body)

-----------------------------------------------------------------------------
(* Properties *)

\* "message data does not match method signature" (main.c:448) is not met: what
\* was written is found valid, and its size is the size of the body.
WrittenValid == state = "writing" => vmsize = Len(body)

\* What was written is found valid with its padding, which does not count: the
\* validator finds the size that the sender gave the body (xcom.c:706).
ReceivedValid == state = "received" => Extern_validate_message /\ vmsize = size

\* Whatever the bytes, a body found valid is read by the types of its arguments
\* to its end and not beyond, and its strings have ends.
ReadsExactly ==
    state # "writing" /\ body # <<>> /\ Extern_validate_message =>
        LET b == SubSeq(body, 1, vmsize) IN ReadMembers(args, b, 0) = vmsize

-----------------------------------------------------------------------------
(* A property stated by the repository that the code does not have *)

\* "invalid data in buf, return 0 as error" (msg.c:121): a body without the bytes
\* of its arguments is refused.
EmptyRefused == state # "writing" /\ body = <<>> /\ args # <<>> => ~Extern_validate_message
=============================================================================
