----------------------------- MODULE Publication -----------------------------
(***************************************************************************)
(* What the gathering of rates promises the outside, with no queue, no      *)
(* threads and no reports: records numbered 0, 1, ..., each with the kind   *)
(* of report every client owes for its interval, as long as some client     *)
(* owes one; figures of fairness, if the program makes them, once and with  *)
(* the last record; and an end that comes only when nobody owes anything.   *)
(***************************************************************************)
EXTENDS Naturals, Sequences

CONSTANT Clients

VARIABLES
    start,      \* the interval in which a client starts
    last,       \* the number of its last report
    figures,    \* the program makes figures of fairness
    records,    \* what was published
    over        \* the publication has ended

vars == <<start, last, figures, records, over>>

Init ==
    /\ start \in [Clients -> Nat] /\ last \in [Clients -> Nat] /\ figures \in BOOLEAN
    /\ records = <<>> /\ over = FALSE

\* What client i owes for interval s: its last report is of its own kind.
Owed(i, s) ==
    CASE start[i] <= s /\ s < start[i] + last[i] -> "rate"
      [] s = start[i] + last[i] -> "end"
      [] OTHER -> "none"

\* Nobody owes a report for interval s or a later one.
NothingFrom(s) == \A i \in Clients : start[i] + last[i] < s

Publish ==
    \E fair \in BOOLEAN :
        LET s == Len(records)
        IN  /\ ~over /\ ~NothingFrom(s)
            /\ fair => figures /\ NothingFrom(s + 1)
            /\ records' = Append(records,
                    [seq |-> s, rates |-> [i \in Clients |-> Owed(i, s)], fairness |-> fair])
            /\ UNCHANGED <<start, last, figures, over>>

End ==
    /\ ~over /\ NothingFrom(Len(records))
    /\ figures => records # <<>> /\ records[Len(records)].fairness
    /\ over' = TRUE
    /\ UNCHANGED <<start, last, figures, records>>

Next == Publish \/ End

Spec == Init /\ [][Next]_vars
=============================================================================
