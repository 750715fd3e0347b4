------------------------------ MODULE FileCopy ------------------------------
(***************************************************************************)
(* What a file transfer promises, with nothing of how it is done: blocks    *)
(* reach the receiver in any order, the receiver finishes when it has all   *)
(* of them, and the sender finishes when the receiver has.                  *)
(***************************************************************************)
EXTENDS Naturals

CONSTANT NumBlocks

VARIABLES got, rdone, sdone

Blocks == 0 .. NumBlocks - 1

Init == got = {} /\ rdone = FALSE /\ sdone = FALSE

\* A block reaches the receiver.
Deliver ==
    \E b \in Blocks \ got :
        /\ ~rdone
        /\ got' = got \cup {b}
        /\ UNCHANGED <<rdone, sdone>>

\* The receiver has the file.
RFinish ==
    /\ got = Blocks /\ ~rdone
    /\ rdone' = TRUE
    /\ UNCHANGED <<got, sdone>>

\* The sender knows.
SFinish ==
    /\ rdone /\ ~sdone
    /\ sdone' = TRUE
    /\ UNCHANGED <<got, rdone>>

Next == Deliver \/ RFinish \/ SFinish

Spec == Init /\ [][Next]_<<got, rdone, sdone>> /\ WF_<<got, rdone, sdone>>(Next)
=============================================================================
