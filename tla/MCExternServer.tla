---------------------------- MODULE MCExternServer ----------------------------
(***************************************************************************)
(* Instances of ExternServer for TLC.                                      *)
(***************************************************************************)
EXTENDS ExternServer

CONSTANTS c1, c2, c3

Clients == {c1, c2, c3}
=============================================================================
