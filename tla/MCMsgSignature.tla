--------------------------- MODULE MCMsgSignature ----------------------------
(***************************************************************************)
(* MsgSignature for TLC, with sets of types.                               *)
(***************************************************************************)
EXTENDS MsgSignature

Letter(c) == Type(c, <<>>)
Array(t) == Type("a", <<t>>)
Struct(ts) == Type("(", ts)

\* What the interfaces of the repository have, and arrays.
Plain ==
    {Letter("y"), Letter("q"), Letter("u"), Letter("x"), Letter("s"),
     Array(Letter("y")), Array(Letter("q")), Array(Letter("s")),
     Array(Struct(<<Letter("u"), Letter("q")>>)),
     Array(Struct(<<Letter("s"), Letter("q"), Letter("y")>>))}

\* Types of the protocol that the validator refuses, and two that have padding
\* between them.
Refused ==
    {Struct(<<Letter("u"), Letter("u")>>), Array(Letter("x")), Array(Array(Letter("u"))),
     Letter("y"), Letter("u")}
=============================================================================
