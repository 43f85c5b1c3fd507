--------------------------- MODULE MCExternStream ----------------------------
(***************************************************************************)
(* Instances of ExternStream for TLC, by the messages that are sent.       *)
(***************************************************************************)
EXTENDS ExternStream

Kind(hsz, sz, fd) == [hsz |-> hsz, sz |-> sz, fd |-> fd]

\* Headers of one size, bodies of two, and an fd.
WithBody == {Kind(4, 1, FALSE), Kind(4, 2, FALSE), Kind(4, 1, TRUE)}
\* A method without arguments has no body.
NoBody == {Kind(4, 0, FALSE)}
\* The names of one message are longer than those of another.
TwoHeaders == {Kind(3, 1, FALSE), Kind(4, 1, FALSE)}
AllFds == {Kind(4, 1, TRUE)}
=============================================================================
