-------------------------------- MODULE Pacer --------------------------------
(***************************************************************************)
(* The pacing of a sender (RateController and its Timer): the reply thread  *)
(* of MessageSwap grants a rate, as the interval between two blocks, or     *)
(* takes it away; the sending thread posts a block when the deadline has    *)
(* come and then moves the deadline on by one interval, however late it is. *)
(***************************************************************************)
EXTENDS Integers

CONSTANTS
    Intervals   \* that can be granted; the least is init_interval

\* There is a least rate that a switch offers.
ASSUME IntervalsAssumption ==
    /\ Intervals \subseteq Nat \ {0}
    /\ \E i \in Intervals : \A j \in Intervals : i >= j

VARIABLES
    now,       \* the clock
    timeout,   \* the Timer's timeout
    interval,  \* and interval
    granted,   \* true_rate > 0
    rated,     \* rate_init
    begun      \* history: when the first rate was granted

paceVars == <<now, timeout, interval, granted, rated, begun>>

\* From runSend on.
PaceInit ==
    /\ now = 0 /\ timeout = 0 /\ begun = 0
    /\ interval \in Intervals /\ \A i \in Intervals : interval <= i
    /\ granted = FALSE /\ rated = FALSE

LaterOf(s, t) == IF s > t THEN s ELSE t

\* A reply with a rate.  The first one starts the timer: no block is owed for the time before.
Grant(i) ==
    /\ granted' = TRUE /\ rated' = TRUE
    /\ interval' = i
    /\ IF rated
       THEN UNCHANGED <<timeout, begun>>
       ELSE timeout' = LaterOf(now, timeout) /\ begun' = now
    /\ UNCHANGED now

\* A reply with the rate 0: the interval stays, and the deadline with it.
Withdraw ==
    /\ granted
    /\ granted' = FALSE
    /\ UNCHANGED <<now, timeout, interval, rated, begun>>

\* getRate() # 0 and timeToSend().
MayPost == granted /\ now >= timeout

\* updateNextSend().
NextDue_FromNow == now + interval   \* mutant
NextDue == timeout + interval
Charge ==
    /\ timeout' = NextDue
    /\ UNCHANGED <<now, interval, granted, rated, begun>>

=============================================================================
