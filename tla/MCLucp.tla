------------------------------- MODULE MCLucp -------------------------------
(***************************************************************************)
(* A parking lot: "f1" crosses a narrow port and then a wide one, where it  *)
(* meets "f2".  In the fair division "f1" fills the narrow port and "f2"    *)
(* gets what that leaves of the wide one.                                   *)
(***************************************************************************)
EXTENDS Lucp

MCPath == [f \in Flows |-> IF f = "f1" THEN <<"edge", "core">> ELSE <<"core">>]
MCLineRate == [p \in Ports |-> IF p = "edge" THEN 1 ELSE 3]
=============================================================================
