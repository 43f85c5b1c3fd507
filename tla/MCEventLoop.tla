----------------------------- MODULE MCEventLoop -----------------------------
(***************************************************************************)
(* Instances of EventLoop for TLC.                                         *)
(***************************************************************************)
EXTENDS EventLoop

CONSTANT t1

OneProducer == {t1}
AnyThread == {Loop, t1}
=============================================================================
