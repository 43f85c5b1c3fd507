------------------------------- MODULE MCFdIO --------------------------------
(***************************************************************************)
(* FdIO for TLC.                                                           *)
(***************************************************************************)
EXTENDS FdIO
=============================================================================
