------------------------------ MODULE MCCasycom ------------------------------
(***************************************************************************)
(* Instances of Casycom for TLC.                                           *)
(*   One   a single class implements every interface.                      *)
(*   Two   the App class and another, which does not know i_App.           *)
(***************************************************************************)
EXTENDS Casycom

CONSTANTS A, B,     \* classes
          iA, iB    \* their interfaces

OneClass == {A}
OneIface == {iA}
OneDtables == [c \in {A} |-> {iA}]
OneTable == <<A>>

TwoClasses == {A, B}
TwoIfaces == {iA, iB}
TwoDtables == [c \in {A, B} |-> IF c = A THEN {iA} ELSE {iB}]
TwoTable == <<A, B>>
=============================================================================
