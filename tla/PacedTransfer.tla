---------------------------- MODULE PacedTransfer ----------------------------
(***************************************************************************)
(* A transfer under the control of its pacer, and in time.  Blocks are      *)
(* posted only when the Pacer lets them, and the receiver's second is a     *)
(* number of ticks since it last had a packet or sent a list, instead of    *)
(* the environment's good will.                                             *)
(*                                                                         *)
(* Threads and adapters are fast: time passes when none of them has         *)
(* anything to do.  It may also pass when they have, or while there is no   *)
(* rate: those ticks are counted.                                           *)
(***************************************************************************)
EXTENDS Transfer, Pacer

CONSTANTS
    Second,   \* ticks after which the receiver asks for blocks (389)
    MaxHush   \* bound: ticks with a thread held up, or without a rate

ASSUME TimesAssumption == Second \in Nat \ {0} /\ MaxHush \in Nat

VARIABLES
    idle,     \* ticks since t_last_recv, up to Second
    hush      \* ticks counted so far

timeVars == <<paceVars, idle, hush>>
pacedVars == <<vars, timeVars>>

PacedInit == Init /\ PaceInit /\ idle = 0 /\ hush = 0

-----------------------------------------------------------------------------
(* Steps of the transfer take no time.                                     *)

\* There is a rate and the deadline has come (676-678).
PacedPost == MayPost /\ Post /\ Charge /\ UNCHANGED <<idle, hush>>

\* There is a rate, and it has not.
PacedWait == granted /\ ~MayPost /\ SWait /\ UNCHANGED timeVars

OtherSteps ==
    /\ \/ SRecvFinish \/ SRecvList \/ SAssertFails \/ SRecvGarbage \/ SPeerGone
       \/ SPoll \/ SJoin \/ Network \/ RAssertFails \/ ROverflow \/ RNext
    /\ UNCHANGED timeVars

\* t_last_recv is set by every packet (402), wanted or not ...
PacedTake ==
    /\ RDuplicate \/ RInOrder \/ RFillFront \/ RFillInside \/ RAhead \/ RCount
    /\ idle' = 0
    /\ UNCHANGED <<paceVars, hush>>

\* ... and by every list.
SetByList_Not == idle' = idle   \* mutant
SetByList == idle' = (IF tcp' # tcp THEN 0 ELSE idle)
PacedEndBatch == REndBatch /\ SetByList /\ UNCHANGED <<paceVars, hush>>
PacedTimeout == idle >= Second /\ RTimeout /\ SetByList /\ UNCHANGED <<paceVars, hush>>

-----------------------------------------------------------------------------
(* Time, and the rate.                                                     *)

\* The reply thread grants what the switches offer, and takes it away.
Granted == \E i \in Intervals : Grant(i) /\ UNCHANGED <<vars, idle, hush>>
Withdrawn == Withdraw /\ UNCHANGED <<vars, idle, hush>>

SenderIdle ==
    \/ spc \in {"finished", "blocked", "aborted"}
    \/ spc = "loop" /\ tcp = <<>> /\ ~(MayPost /\ (sRestran \/ ~NothingLeft))
ReceiverIdle ==
    \/ rpc \in {"sync", "failed", "aborted"}
    \/ rpc = "poll" /\ link = <<>> /\ idle < Second /\ ~SendsList(FALSE)
Calm == SenderIdle /\ sq = <<>> /\ ReceiverIdle

Over == spc \in {"finished", "blocked", "aborted"} /\ ReceiverIdle /\ rpc # "poll"

Tick ==
    /\ ~Over
    /\ IF Calm /\ granted
       THEN UNCHANGED hush
       ELSE hush < MaxHush /\ hush' = hush + 1
    /\ now' = now + 1
    /\ idle' = IF idle < Second THEN idle + 1 ELSE idle
    /\ UNCHANGED <<vars, timeout, interval, granted, rated, begun>>

PacedNext ==
    \/ PacedPost \/ PacedWait \/ PacedTake \/ PacedEndBatch \/ PacedTimeout
    \/ OtherSteps \/ Granted \/ Withdrawn \/ Tick

\* Both loops run and the adapters work.  The sender's rounds come back to the same
\* point, hence SF: in one of them a list that has arrived is read, in one the deadline has
\* come.  The clock goes on, and a rate that was taken away is granted again (Converges
\* of Lucp).
PacedFairness ==
    /\ WF_pacedVars(OtherSteps /\ (SPoll \/ SJoin \/ RNext))
    /\ SF_pacedVars(OtherSteps /\ (SRecvFinish \/ SRecvList))
    /\ WF_pacedVars(OtherSteps /\ (NicSend \/ NicLose))
    /\ WF_pacedVars(PacedTake \/ PacedEndBatch) /\ WF_pacedVars(PacedTimeout)
    /\ SF_pacedVars(PacedPost) /\ SF_pacedVars(Tick)
    /\ WF_pacedVars(Granted /\ ~granted)

PacedSpec == PacedInit /\ [][PacedNext]_pacedVars /\ PacedFairness

-----------------------------------------------------------------------------
(* Properties.                                                             *)

\* When the receiver's second expires nothing is under way and the sender has posted
\* all it has to: the answer cannot be late.  So the second is enough if it is longer
\* than the intervals of all blocks lost in a row, and whatever holds up the threads
\* or keeps the rate at 0; this is what Prompt takes for granted in Transfer.
SecondIsEnough == rpc = "poll" /\ link = <<>> /\ idle >= Second => Quiet

Fastest == CHOOSE i \in Intervals : \A j \in Intervals : i <= j
Slowest == CHOOSE i \in Intervals : \A j \in Intervals : i >= j

\* From its first rate on the sender is never ahead of the fastest rate, over the
\* whole transfer and with what it retransmits; and it makes up in a burst for the time
\* in which it had no rate, nothing to send or was held up: when it waits for
\* its deadline it is not behind the slowest rate either.
Paced ==
    /\ sendcnt > 0 => begun + (sendcnt - 1) * Fastest <= now
    /\ rated /\ now < timeout => now < begun + sendcnt * Slowest

=============================================================================
