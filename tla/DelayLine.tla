----------------------------- MODULE DelayLine -----------------------------
(***************************************************************************)
(* What the delay ring of switch1.cpp amounts to: a line that holds fewer   *)
(* packets than it has places, hands them on in the order they came, and    *)
(* forgets all it holds when one more is put into a full line.              *)
(***************************************************************************)
EXTENDS Naturals, Sequences

CONSTANTS Packets, Places

VARIABLES line, gone

Init == line = <<>> /\ gone = <<>>

\* A packet joins the line; the one that would fill it empties it.
Put ==
    \E p \in Packets :
        /\ line' = IF Len(line) + 1 = Places THEN <<>> ELSE Append(line, p)
        /\ gone' = gone

\* The first packet leaves.
Send ==
    /\ line # <<>>
    /\ line' = Tail(line)
    /\ gone' = Append(gone, Head(line))

Next == Put \/ Send

Spec == Init /\ [][Next]_<<line, gone>>
=============================================================================
