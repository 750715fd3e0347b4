---------------------------- MODULE PacedProofs ----------------------------
(***************************************************************************)
(* A paced transfer is a transfer, so that what TransferProofs says of one  *)
(* holds of it; and its blocks leave at the rate that was granted.          *)
(***************************************************************************)
EXTENDS PacedTransfer, TransferProofs

\* Neither the clock nor the pacer lets a transfer do what it could not do by itself.
LEMMA PacedStep == [PacedNext]_pacedVars => [Next]_vars
<1>1. PacedNext => Next \/ UNCHANGED vars
  BY DEF PacedNext, PacedPost, PacedWait, PacedTake, PacedEndBatch, PacedTimeout, OtherSteps,
         Granted, Withdrawn, Tick, Next, Sender, Receiver
<1> QED
  BY <1>1 DEF pacedVars

\* So a paced transfer is a transfer.
THEOREM PacedIsTransfer == PacedSpec => Spec
<1>1. PacedInit => Init
  BY DEF PacedInit
<1> QED
  BY <1>1, PacedStep, PTL DEF PacedSpec, Spec

\* A receiver that leaves its loop has every block, at any rate and with any pauses.
THEOREM PacedComplete == PacedSpec => []Complete
  BY PacedIsTransfer, CompleteFile, PTL

-----------------------------------------------------------------------------
(* The rate.  The deadline is the sum of the intervals charged since the     *)
(* first rate came, one for each block.                                     *)

PaceTypes ==
    /\ now \in Nat /\ timeout \in Nat /\ begun \in Nat /\ sendcnt \in Nat
    /\ interval \in Intervals
    /\ granted \in BOOLEAN /\ rated \in BOOLEAN

PaceInv ==
    /\ PaceTypes
    /\ Fastest \in Intervals /\ \A i \in Intervals : Fastest <= i
    /\ granted => rated
    /\ ~rated => sendcnt = 0 /\ timeout <= now
    /\ rated => /\ begun + sendcnt * Fastest <= timeout
                /\ timeout <= begun + sendcnt * Slowest
    /\ sendcnt > 0 => begun + (sendcnt - 1) * Fastest <= now

LEMMA SlowestIsGreatest == Slowest \in Intervals /\ \A i \in Intervals : i <= Slowest
  BY IntervalsAssumption DEF Slowest

\* One more block is one more interval.
LEMMA OneMore ==
    ASSUME NEW n \in Nat, NEW i \in Nat
    PROVE  (n + 1) * i = n * i + i /\ n * i \in Nat /\ (n + 1) * i \in Nat
OBVIOUS

\* Only Post counts a block.
LEMMA OnlyPostCounts ==
    ASSUME PacedNext, ~PacedPost
    PROVE  UNCHANGED sendcnt
<1>1. CASE Granted \/ Withdrawn \/ Tick
  BY <1>1 DEF Granted, Withdrawn, Tick, vars, senderVars
<1>2. CASE PacedWait
  BY <1>2 DEF PacedWait, SWait
<1>3. CASE PacedTake
  BY <1>3 DEF PacedTake, RDuplicate, RInOrder, RFillFront, RFillInside, RAhead, RCount, Take,
              senderVars
<1>4. CASE PacedEndBatch \/ PacedTimeout
  BY <1>4 DEF PacedEndBatch, PacedTimeout, REndBatch, RTimeout, RNoList, RSendList, RSendFails,
              senderVars
<1>5. CASE OtherSteps
  BY <1>5 DEF OtherSteps, SRecvFinish, SRecvList, SAssertFails, SRecvGarbage, SPeerGone, SPoll,
              SJoin, Network, NicSend, NicLose, NicNotReady, RAssertFails, Take, ROverflow, RNext,
              senderVars
<1> QED
  BY <1>1, <1>2, <1>3, <1>4, <1>5 DEF PacedNext

LEMMA PaceStep == PaceInv /\ [PacedNext]_pacedVars => PaceInv'
<1> SUFFICES ASSUME PaceInv, [PacedNext]_pacedVars PROVE PaceInv'
  OBVIOUS
<1>0. /\ Fastest \in Nat \ {0} /\ Slowest \in Nat \ {0} /\ Intervals \subseteq Nat \ {0}
      /\ Fastest' = Fastest /\ Slowest' = Slowest
      /\ Fastest <= interval /\ interval <= Slowest
  BY IntervalsAssumption, SlowestIsGreatest DEF PaceInv, PaceTypes, Fastest, Slowest
<1>1. CASE PacedPost
  <2>1. /\ sendcnt' = sendcnt + 1 /\ timeout' = timeout + interval
        /\ granted /\ now >= timeout
        /\ UNCHANGED <<now, interval, granted, rated, begun>>
    BY <1>1 DEF PacedPost, MayPost, Charge, NextDue, Post
  <2>2. rated /\ begun + sendcnt * Fastest <= timeout /\ timeout <= begun + sendcnt * Slowest
    BY <2>1 DEF PaceInv
  <2>3. sendcnt \in Nat /\ timeout \in Nat /\ begun \in Nat /\ interval \in Nat
    BY <1>0 DEF PaceInv, PaceTypes
  <2>4. /\ (sendcnt + 1) * Fastest = sendcnt * Fastest + Fastest /\ sendcnt * Fastest \in Nat
        /\ (sendcnt + 1) * Slowest = sendcnt * Slowest + Slowest /\ sendcnt * Slowest \in Nat
    BY <1>0, <2>3, OneMore
  <2>5. begun + (sendcnt + 1) * Fastest <= timeout + interval
    <3> DEFINE x == sendcnt * Fastest
    <3>1. begun + x <= timeout /\ x \in Nat /\ (sendcnt + 1) * Fastest = x + Fastest
      BY <2>2, <2>4
    <3> HIDE DEF x
    <3> QED
      BY <1>0, <2>3, <3>1
  <2>6. timeout + interval <= begun + (sendcnt + 1) * Slowest
    <3> DEFINE x == sendcnt * Slowest
    <3>1. timeout <= begun + x /\ x \in Nat /\ (sendcnt + 1) * Slowest = x + Slowest
      BY <2>2, <2>4
    <3> HIDE DEF x
    <3> QED
      BY <1>0, <2>3, <3>1
  <2>7. begun + (sendcnt' - 1) * Fastest <= now
    <3>1. sendcnt' - 1 = sendcnt
      BY <2>1, <2>3
    <3> DEFINE x == sendcnt * Fastest
    <3>2. begun + x <= timeout /\ x \in Nat /\ now \in Nat
      BY <2>2, <2>4 DEF PaceInv, PaceTypes
    <3>3. begun + x <= now
      <4> HIDE DEF x
      <4> QED
        BY <2>1, <2>3, <3>2
    <3> QED
      BY <3>1, <3>3
  <2>8. PaceTypes'
    BY <2>1, <2>3 DEF PaceInv, PaceTypes
  <2> QED
    BY <1>0, <2>1, <2>2, <2>5, <2>6, <2>7, <2>8 DEF PaceInv
<1>2. ASSUME UNCHANGED <<timeout, interval, granted, rated, begun, sendcnt>>,
             now' = now \/ now' = now + 1
      PROVE  PaceInv'
  <2>1. now \in Nat /\ now' \in Nat /\ now <= now'
    BY <1>2 DEF PaceInv, PaceTypes
  <2>2. sendcnt > 0 => begun + (sendcnt - 1) * Fastest <= now'
    <3> DEFINE x == (sendcnt - 1) * Fastest
    <3>1. sendcnt > 0 => x \in Int /\ begun + x <= now /\ begun \in Int
      BY <1>0 DEF PaceInv, PaceTypes
    <3>2. sendcnt > 0 => begun + x <= now'
      <4> HIDE DEF x
      <4> QED
        BY <2>1, <3>1
    <3> QED
      BY <3>2
  <2>3. ~rated => timeout <= now'
    BY <2>1 DEF PaceInv, PaceTypes
  <2> QED
    BY <1>0, <1>2, <2>1, <2>2, <2>3 DEF PaceInv, PaceTypes
<1>3. CASE PacedWait \/ PacedTake \/ PacedEndBatch \/ PacedTimeout \/ OtherSteps \/ Tick \/ Withdrawn
  <2>1. CASE ~PacedPost /\ ~Withdrawn
    <3>1. UNCHANGED sendcnt
      BY <1>3, <2>1, OnlyPostCounts DEF PacedNext
    <3>2. UNCHANGED <<timeout, interval, granted, rated, begun>> /\ (now' = now \/ now' = now + 1)
      BY <1>3, <2>1 DEF PacedWait, PacedTake, PacedEndBatch, PacedTimeout, OtherSteps, Tick,
                        timeVars, paceVars
    <3> QED
      BY <1>2, <3>1, <3>2
  <2>2. CASE Withdrawn
    BY <1>0, <2>2 DEF Withdrawn, Withdraw, PaceInv, PaceTypes, vars, senderVars
  <2> QED
    BY <1>1, <2>1, <2>2
<1>4. ASSUME NEW i \in Intervals, Grant(i), UNCHANGED vars PROVE PaceInv'
  <2>1. /\ granted' = TRUE /\ rated' = TRUE /\ interval' = i /\ now' = now
        /\ sendcnt' = sendcnt
    BY <1>4 DEF Grant, vars, senderVars
  <2>2. CASE rated
    BY <1>0, <1>4, <2>1, <2>2 DEF Grant, PaceInv, PaceTypes
  <2>3. CASE ~rated
    <3>1. sendcnt = 0 /\ timeout <= now /\ now \in Nat /\ timeout \in Nat
      BY <2>3 DEF PaceInv, PaceTypes
    <3>2. begun' = now /\ timeout' = now
      BY <1>4, <2>3, <3>1 DEF Grant, LaterOf
    <3>3. 0 * Fastest = 0 /\ 0 * Slowest = 0
      BY <1>0
    <3>4. PaceTypes'
      BY <2>1, <3>1, <3>2 DEF PaceTypes
    <3> QED
      BY <1>0, <2>1, <3>1, <3>2, <3>3, <3>4 DEF PaceInv
  <2> QED
    BY <2>2, <2>3
<1>5. CASE Granted
  BY <1>4, <1>5 DEF Granted
<1>6. CASE UNCHANGED pacedVars
  BY <1>0, <1>2, <1>6 DEF pacedVars, timeVars, paceVars, vars, senderVars
<1> QED
  BY <1>1, <1>3, <1>5, <1>6 DEF PacedNext

\* PaceInv holds at the start.
LEMMA PaceStart == PacedInit => PaceInv
<1> SUFFICES ASSUME PacedInit PROVE PaceInv
  OBVIOUS
<1>1. /\ now = 0 /\ timeout = 0 /\ begun = 0 /\ sendcnt = 0
      /\ interval \in Intervals /\ \A i \in Intervals : interval <= i
      /\ granted = FALSE /\ rated = FALSE
  BY DEF PacedInit, PaceInit, Init
<1>2. Fastest \in Intervals /\ \A i \in Intervals : Fastest <= i
  BY <1>1 DEF Fastest
<1>3. PaceTypes
  BY <1>1 DEF PaceTypes
<1>4. ~(sendcnt > 0) /\ ~rated /\ ~granted /\ timeout <= now
  BY <1>1
<1> QED
  BY <1>1, <1>2, <1>3, <1>4 DEF PaceInv

\* From its first rate on the sender is never ahead of the fastest rate, and when it
\* waits for its deadline not behind the slowest one, however long the transfer is, whatever
\* rates it was granted and however often they were taken away.
THEOREM PacedAtRate == PacedSpec => []Paced
<1>1. PaceInv => Paced
  <2> SUFFICES ASSUME PaceInv, rated, now < timeout PROVE now < begun + sendcnt * Slowest
    BY DEF PaceInv, Paced
  <2> DEFINE x == sendcnt * Slowest
  <2>1. x \in Int /\ timeout <= begun + x /\ now \in Nat /\ timeout \in Nat /\ begun \in Nat
    BY SlowestIsGreatest, IntervalsAssumption DEF PaceInv, PaceTypes
  <2> HIDE DEF x
  <2> QED
    BY <2>1 DEF x
<1> QED
  BY <1>1, PaceStart, PaceStep, PTL DEF PacedSpec

-----------------------------------------------------------------------------
(* The receiver's second.  It never waits longer than for the intervals of   *)
(* the blocks lost in a row and of the one it waits for, and the ticks in     *)
(* which a thread was held up or there was no rate.                          *)

Patience == (losses + 1) * Slowest + hush

\* How long the sender still waits for its deadline.
Wait == IF now < timeout THEN timeout - now ELSE 0

\* While anything is under way idle is within Patience, and if all that is under way is
\* the sender's next block, the time until it is due is within it too.
PatienceInv ==
    /\ idle \in Nat /\ hush \in Nat /\ hush <= MaxHush /\ losses <= MaxLoss
    /\ timeout <= now + Slowest
    /\ Sound /\ UseMessage /\ rpc \in {"poll", "batch"} /\ ~Quiet =>
          /\ idle <= Patience
          /\ sq = <<>> /\ link = <<>> => idle + Wait <= Patience

\* Patience for n losses is at least one interval, and for one more loss one interval more.
LEMMA OneMoreLoss ==
    ASSUME NEW n \in Nat, NEW i \in Nat
    PROVE  (n + 1) * i \in Nat /\ (n + 1) * i >= i /\ ((n + 1) + 1) * i = (n + 1) * i + i
<1>1. (n + 1) * i = n * i + i /\ n * i \in Nat
  BY OneMore
<1>2. ((n + 1) + 1) * i = (n + 1) * i + i /\ n + 1 \in Nat
  BY OneMore
<1> DEFINE x == n * i
           y == (n + 1) * i
<1>3. y = x + i /\ x \in Nat
  BY <1>1
<1>4. y \in Nat /\ y >= i
  <2> HIDE DEF x, y
  <2> QED
    BY <1>3
<1> QED
  BY <1>2, <1>4

\* Patience only grows, and is never less than the wait for one block.
LEMMA PatienceGrows ==
    ASSUME TypeOK, PaceInv, PatienceInv, losses' \in Nat, hush' \in Nat
    PROVE  /\ Patience \in Nat /\ Patience' \in Nat /\ Slowest \in Nat
           /\ Wait \in Nat /\ Wait <= Slowest /\ Wait <= Patience
           /\ losses' = losses /\ hush' = hush => Patience' = Patience
           /\ losses' = losses /\ hush' = hush + 1 => Patience' = Patience + 1
           /\ losses' = losses + 1 /\ hush' = hush => Patience' = Patience + Slowest
<1>1. /\ losses \in Nat /\ hush \in Nat /\ Slowest \in Nat
      /\ now \in Nat /\ timeout \in Nat /\ timeout <= now + Slowest
  BY SlowestIsGreatest, IntervalsAssumption
  DEF TypeOK, NetworkTypes, PaceInv, PaceTypes, PatienceInv
<1>2. PICK m \in Nat, h \in Nat : m = losses' /\ h = hush'
  OBVIOUS
<1> DEFINE p(n) == (n + 1) * Slowest
<1>3. \A n \in Nat : p(n) \in Nat /\ p(n) >= Slowest /\ p(n + 1) = p(n) + Slowest
  BY <1>1, OneMoreLoss
<1>4. Patience = p(losses) + hush /\ Patience' = p(m) + h
  BY <1>2 DEF Patience, Slowest
<1> HIDE DEF p
<1>5. Wait \in Nat /\ Wait <= Slowest
  BY <1>1 DEF Wait
<1>6. /\ p(losses) \in Nat /\ p(m) \in Nat /\ p(losses) >= Slowest
      /\ p(losses + 1) = p(losses) + Slowest
  BY <1>1, <1>3
<1> QED
  BY <1>1, <1>2, <1>4, <1>5, <1>6

\* When the receiver's second expires all is quiet, if the second is longer than that.
LEMMA SecondExpires ==
    ASSUME Second > (MaxLoss + 1) * Slowest + MaxHush,
           TypeOK, PaceInv, PatienceInv, Sound, UseMessage, rpc = "poll", idle >= Second
    PROVE  Quiet
<1>1. /\ losses \in Nat /\ hush \in Nat /\ idle \in Nat /\ MaxLoss \in Nat /\ MaxHush \in Nat
      /\ Second \in Nat /\ Slowest \in Nat /\ losses <= MaxLoss /\ hush <= MaxHush
  BY SlowestIsGreatest, IntervalsAssumption, BoundsAssumption, TimesAssumption
  DEF TypeOK, NetworkTypes, PatienceInv
<1> SUFFICES ASSUME ~Quiet PROVE FALSE
  OBVIOUS
<1>2. idle <= Patience
  BY DEF PatienceInv
<1>3. (losses + 1) * Slowest <= (MaxLoss + 1) * Slowest
  <2>1. PICK d \in Nat : MaxLoss + 1 = (losses + 1) + d
    <3>1. MaxLoss - losses \in Nat /\ MaxLoss + 1 = (losses + 1) + (MaxLoss - losses)
      BY <1>1
    <3> QED
      BY <3>1
  <2>2. ((losses + 1) + d) * Slowest = (losses + 1) * Slowest + d * Slowest
    BY <1>1
  <2> DEFINE x == (losses + 1) * Slowest
             y == d * Slowest
  <2>3. x \in Nat /\ y \in Nat /\ (MaxLoss + 1) * Slowest = x + y
    BY <1>1, <2>1, <2>2, OneMoreLoss
  <2> HIDE DEF x, y
  <2>4. x <= x + y
    BY <2>3
  <2> QED
    BY <2>3, <2>4 DEF x
<1> DEFINE x == (losses + 1) * Slowest
           z == (MaxLoss + 1) * Slowest
<1>4. x <= z /\ idle <= x + hush /\ Second > z + MaxHush /\ x \in Nat /\ z \in Nat
  BY <1>1, <1>2, <1>3, OneMoreLoss DEF Patience
<1> HIDE DEF x, z
<1> QED
  BY <1>1, <1>4

\* A step of the transfer takes no time, and what it leaves to be done was there before,
\* unless a packet came or a list was sent.
LEMMA PatienceFrame ==
    ASSUME TypeOK, PaceInv, PatienceInv, TypeOK', UNCHANGED <<now, timeout, hush>>,
           losses' = losses, idle' \in {0, idle},
           \/ idle' = 0
           \/ ~(UseMessage /\ Sound' /\ rpc' \in {"poll", "batch"} /\ ~Quiet')
           \/ /\ Sound /\ rpc \in {"poll", "batch"} /\ ~Quiet
              /\ sq' = <<>> /\ link' = <<>> => sq = <<>> /\ link = <<>>
    PROVE  PatienceInv'
<1>1. losses' \in Nat /\ hush' \in Nat
  BY DEF TypeOK, NetworkTypes, PatienceInv
<1>2. /\ Patience \in Nat /\ Patience' = Patience /\ Wait \in Nat /\ Wait <= Patience
      /\ Slowest \in Nat /\ now \in Nat /\ timeout \in Nat /\ idle \in Nat
  BY <1>1, PatienceGrows DEF PaceInv, PaceTypes, PatienceInv
<1>3. Wait' = Wait
  BY DEF Wait
<1>4. Slowest' = Slowest
  BY DEF Slowest
<1>5. CASE idle' = 0
  BY <1>1, <1>2, <1>3, <1>4, <1>5 DEF PatienceInv
<1>6. CASE idle' = idle
  BY <1>1, <1>2, <1>3, <1>4, <1>6 DEF PatienceInv
<1> QED
  BY <1>5, <1>6

\* PatienceInv is preserved.
LEMMA PatienceStep ==
    ASSUME IInv, EndInv, TalkInv, PaceInv, PatienceInv, [PacedNext]_pacedVars,
           IInv', EndInv', TalkInv'
    PROVE  PatienceInv'
<1> DEFINE Live == UseMessage /\ Sound /\ rpc \in {"poll", "batch"} /\ ~Quiet
<1>0. /\ TypeOK /\ TypeOK' /\ SenderTypes /\ SenderTypes' /\ NetworkTypes
      /\ Sound' => Sound
      /\ Sound => LoopInv
      /\ losses \in Nat /\ hush \in Nat /\ idle \in Nat /\ losses' \in Nat
      /\ now \in Nat /\ timeout \in Nat
  BY PacedStep, SoundBefore DEF IInv, TypeOK, NetworkTypes, PatienceInv, PaceInv, PaceTypes
\* While the receiver is in its loop, so is the sender.
<1>1. /\ UseMessage /\ Sound /\ rpc \in {"poll", "batch"} => spc \in {"loop", "poll"}
      /\ Live' => spc' \in {"loop", "poll"} /\ Sound
  BY <1>0 DEF SenderTypes, EndInv, TalkInv, NoneFails, SendDone, RecvDone
<1>2. ASSUME UNCHANGED <<now, timeout, hush>>, losses' = losses, idle' \in {0, idle},
             \/ idle' = 0
             \/ Live' => /\ rpc \in {"poll", "batch"} /\ ~Quiet
                         /\ sq' = <<>> /\ link' = <<>> => sq = <<>> /\ link = <<>>
      PROVE  PatienceInv'
  BY <1>0, <1>2, PatienceFrame
<1> HIDE DEF Live
<1>3. Live' => UseMessage /\ Sound' /\ rpc' \in {"poll", "batch"} /\ ~Quiet'
  BY DEF Live
<1>4. CASE OtherSteps /\ ~NicLose
  <2>1. UNCHANGED <<now, timeout, hush>> /\ idle' = idle
    BY <1>4 DEF OtherSteps, timeVars, paceVars
  <2>2. losses' = losses
    BY <1>4 DEF OtherSteps, SRecvFinish, SRecvList, SAssertFails, SRecvGarbage, SPeerGone, SPoll,
       SJoin, Network, NicSend, NicNotReady, RAssertFails, Take, ROverflow, RNext, nicVars
  <2> SUFFICES ASSUME Live'
               PROVE  /\ rpc \in {"poll", "batch"} /\ ~Quiet
                      /\ sq' = <<>> /\ link' = <<>> => sq = <<>> /\ link = <<>>
    BY <1>2, <2>1, <2>2
  <2>3. ~(\/ SRecvFinish \/ SAssertFails \/ SRecvGarbage \/ SPeerGone \/ SJoin \/ NicNotReady
          \/ RAssertFails \/ ROverflow \/ RNext)
    BY <1>1, <1>3 DEF SRecvFinish, SAssertFails, SRecvGarbage, SPeerGone, SJoin, NicNotReady,
       RAssertFails, Take, ROverflow, RNext
  <2>4. CASE SRecvList
    BY <1>3, <2>4 DEF SRecvList, Quiet, recvVars
  <2>5. CASE SPoll
    <3>1. /\ spc = "poll" /\ spc' \in {"loop", "poll"}
          /\ UNCHANGED <<tcp, sq, link, blocksLeft, rpc>>
          /\ scq' = scq - (IF scq < PollBatch THEN scq ELSE PollBatch)
      BY <1>1, <2>5 DEF SPoll, recvVars
    <3>2. scq = 0 => scq' = 0
      <4> SUFFICES ASSUME scq = 0 PROVE scq' = 0
        OBVIOUS
      <4>1. 0 < PollBatch
        BY BoundsAssumption
      <4>2. scq' = scq - scq
        BY <3>1, <4>1
      <4> QED
        BY <4>2
    <3>3. Quiet => Quiet'
      BY <3>1, <3>2 DEF Quiet, NothingLeft
    <3> QED
      BY <1>3, <3>1, <3>3
  <2>6. CASE NicSend
    <3>1. sq # <<>> /\ link' # <<>> /\ rpc' = rpc
      <4>1. sq # <<>> /\ rpc' = rpc /\ link' = Append(link, buf[Head(sq)]) /\ link \in Seq(Nat)
        BY <1>0, <2>6 DEF NicSend, recvVars, NetworkTypes
      <4> QED
        BY <4>1, EmptySeq, AppendProperties
    <3> QED
      BY <1>3, <3>1 DEF Quiet
  <2> QED
    BY <1>4, <2>3, <2>4, <2>5, <2>6 DEF OtherSteps, Network
\* One interval more for one more block lost.
<1>5. CASE OtherSteps /\ NicLose
  <2>1. /\ UNCHANGED <<now, timeout, hush>> /\ idle' = idle
        /\ losses' = losses + 1 /\ losses < MaxLoss /\ sq # <<>> /\ rpc' = rpc
    BY <1>5 DEF OtherSteps, timeVars, paceVars, NicLose, recvVars
  <2>2. /\ Patience \in Nat /\ Patience' = Patience + Slowest /\ Slowest' = Slowest
        /\ Wait' = Wait /\ Wait \in Nat /\ Wait <= Slowest /\ Slowest \in Nat
    <3>1. Wait' = Wait /\ Slowest' = Slowest
      BY <2>1 DEF Wait, Slowest
    <3> QED
      BY <1>0, <2>1, <3>1, PatienceGrows
  <2>3. Sound /\ UseMessage /\ rpc \in {"poll", "batch"} => idle <= Patience
    BY <2>1 DEF PatienceInv, Quiet
  <2>4. losses' <= MaxLoss
    BY <1>0, <2>1, BoundsAssumption
  <2> QED
    BY <1>0, <2>1, <2>2, <2>3, <2>4 DEF PatienceInv
\* A block posted: the deadline moves on, and the block is under way.
<1>6. CASE PacedPost
  <2>1. /\ now >= timeout /\ timeout' = timeout + interval /\ UNCHANGED <<now, idle, hush>>
        /\ spc = "loop"
        /\ UseMessage => sRestran \/ ~NothingLeft
        /\ sq' = Append(sq, cur) /\ losses' = losses /\ rpc' = rpc
    BY <1>6 DEF PacedPost, MayPost, Charge, NextDue, Post, recvVars
  <2>2. sq' # <<>>
    <3>1. sq \in Seq(0 .. NumBuffers - 1) /\ cur \in 0 .. NumBuffers - 1
      BY <1>0 DEF NetworkTypes, SenderTypes
    <3> QED
      BY <2>1, <3>1, AppendProperties, EmptySeq
  <2>3. UseMessage /\ Sound => ~Quiet
    <3> SUFFICES ASSUME UseMessage, Sound, Quiet PROVE FALSE
      OBVIOUS
    <3>1. sRestran /\ blocksLeft = 0
      BY <2>1 DEF Quiet, NothingLeft
    <3>2. rlist \in Seq(Nat) /\ restraned \in Nat
      BY <1>0 DEF SenderTypes
    <3> QED
      BY <1>0, <3>1, <3>2 DEF LoopInv
  <2>4. interval \in Nat /\ interval <= Slowest /\ Slowest \in Nat /\ Slowest' = Slowest
    BY SlowestIsGreatest, IntervalsAssumption DEF PaceInv, PaceTypes, Slowest
  <2>5. Patience' = Patience
    BY <1>0, <2>1, PatienceGrows
  <2>6. timeout' <= now' + Slowest'
    BY <1>0, <2>1, <2>4
  <2> QED
    BY <1>0, <2>1, <2>2, <2>3, <2>5, <2>6 DEF PatienceInv
<1>7. CASE PacedWait
  <2>1. /\ UNCHANGED <<now, timeout, hush, idle, losses, sq, link, rpc, tcp, scq, blocksLeft>>
        /\ spc = "loop" /\ spc' = "poll"
    BY <1>7 DEF PacedWait, SWait, timeVars, paceVars, nicVars, recvVars
  <2>2. Quiet => Quiet'
    BY <2>1 DEF Quiet, NothingLeft
  <2> QED
    BY <1>2, <1>3, <2>1, <2>2
<1>8. CASE PacedTake
  <2>1. UNCHANGED <<now, timeout, hush>> /\ idle' = 0 /\ losses' = losses
    BY <1>8 DEF PacedTake, paceVars, RDuplicate, RInOrder, RFillFront, RFillInside, RAhead, RCount,
       Take, nicVars
  <2> QED
    BY <1>2, <2>1
<1>9. ASSUME NEW t \in BOOLEAN, RNoList(t) \/ RSendList(t) \/ RSendFails(t), SetByList,
             rpc \in {"poll", "batch"}, UNCHANGED <<paceVars, hush>>
      PROVE  PatienceInv'
  <2>1. UNCHANGED <<now, timeout, hush>> /\ idle' \in {0, idle}
    BY <1>9 DEF paceVars, SetByList
  <2>2. losses' = losses /\ UNCHANGED <<spc, blocksLeft, sq, scq, link>>
    BY <1>9 DEF RNoList, RSendList, RSendFails, nicVars, senderVars
  <2>3. CASE RNoList(t)
    BY <1>2, <1>3, <1>9, <2>1, <2>2, <2>3 DEF RNoList, Quiet, NothingLeft
  <2>4. CASE RSendFails(t)
    BY <1>2, <1>3, <2>1, <2>2, <2>4 DEF RSendFails
  <2>5. CASE RSendList(t)
    <3>1. tcp' # tcp
      <4>1. PICK m : tcp' = Append(tcp, m)
        BY <2>5 DEF RSendList
      <4>2. Len(tcp') = Len(tcp) + 1 /\ Len(tcp) \in Nat
        BY <1>0, <4>1 DEF NetworkTypes
      <4> QED
        BY <4>2
    <3> QED
      BY <1>2, <1>9, <2>1, <2>2, <3>1 DEF SetByList
  <2> QED
    BY <1>9, <2>3, <2>4, <2>5
<1>10. CASE PacedEndBatch \/ PacedTimeout
  BY <1>9, <1>10 DEF PacedEndBatch, PacedTimeout, REndBatch, RTimeout
<1>11. ASSUME UNCHANGED vars, idle \in Nat, idle' \in Nat, hush' \in Nat, hush' <= MaxHush,
               Sound /\ UseMessage /\ rpc \in {"poll", "batch"} /\ ~Quiet =>
                  /\ idle' <= Patience'
                  /\ sq = <<>> /\ link = <<>> => idle' + Wait' <= Patience',
               timeout' <= now' + Slowest
       PROVE  PatienceInv'
  <2>1. /\ UNCHANGED <<losses, rpc, sq, link, ExactSize, tailFilled, clobbered>>
        /\ Slowest' = Slowest
    BY <1>11 DEF vars, nicVars, recvVars, Slowest
  <2>2. Quiet' = Quiet
    BY <1>11 DEF vars, nicVars, senderVars, Quiet, NothingLeft
  <2>3. losses' <= MaxLoss
    BY <2>1 DEF PatienceInv
  <2> QED
    BY <1>11, <2>1, <2>2, <2>3 DEF PatienceInv, Sound
<1>12. CASE Granted \/ Withdrawn \/ UNCHANGED pacedVars
  <2>1. UNCHANGED vars /\ UNCHANGED <<now, idle, hush>>
    BY <1>12 DEF Granted, Grant, Withdrawn, Withdraw, pacedVars, timeVars, paceVars
  <2>2. timeout' = timeout \/ (timeout' = LaterOf(now, timeout))
    BY <1>12 DEF Granted, Grant, Withdrawn, Withdraw, pacedVars, timeVars, paceVars
  <2>3. Wait' = Wait /\ timeout' <= now + Slowest
    <3>1. Slowest \in Nat
      BY SlowestIsGreatest, IntervalsAssumption
    <3> QED
      BY <1>0, <2>1, <2>2, <3>1 DEF Wait, LaterOf, PatienceInv
  <2>4. losses' = losses
    BY <2>1 DEF vars, nicVars
  <2>5. Patience' = Patience
    BY <1>0, <2>1, <2>4, PatienceGrows
  <2> QED
    BY <1>0, <1>11, <2>1, <2>3, <2>5 DEF PatienceInv
\* Time passes: with a thread held up or no rate it is counted, otherwise the sender waits
\* for its deadline and that comes nearer.
<1>13. CASE Tick
  <2>1. /\ UNCHANGED vars /\ now' = now + 1 /\ timeout' = timeout
        /\ idle' \in {idle, idle + 1}
        /\ \/ Calm /\ granted /\ hush' = hush
           \/ hush < MaxHush /\ hush' = hush + 1
    BY <1>13 DEF Tick
  <2>2. losses' = losses /\ Slowest \in Nat /\ MaxHush \in Nat
    BY <2>1, SlowestIsGreatest, IntervalsAssumption, TimesAssumption DEF vars, nicVars
  <2>3. hush' \in Nat /\ hush' <= MaxHush /\ idle' \in Nat /\ timeout' <= now' + Slowest
    BY <1>0, <2>1, <2>2 DEF PatienceInv
  <2>4. Wait \in Nat /\ Patience \in Nat
        /\ (hush' = hush => Patience' = Patience) /\ (hush' = hush + 1 => Patience' = Patience + 1)
    BY <1>0, <2>2, <2>3, PatienceGrows
  <2>5. Wait' = IF Wait > 0 THEN Wait - 1 ELSE 0
    BY <1>0, <2>1 DEF Wait
  <2> SUFFICES ASSUME Sound, UseMessage, rpc \in {"poll", "batch"}, ~Quiet
               PROVE  /\ idle' <= Patience'
                      /\ sq = <<>> /\ link = <<>> => idle' + Wait' <= Patience'
    BY <1>0, <1>11, <2>1, <2>3
  <2>6. idle <= Patience /\ (sq = <<>> /\ link = <<>> => idle + Wait <= Patience)
    BY DEF PatienceInv
  <2>7. CASE hush' = hush + 1
    <3>1. Patience' = Patience + 1 /\ Wait' \in Nat /\ Wait' <= Wait /\ idle' <= idle + 1
      BY <1>0, <2>1, <2>4, <2>5, <2>7
    <3>2. idle' \in Nat /\ idle \in Nat /\ Patience \in Nat /\ Wait \in Nat
      BY <1>0, <2>3, <2>4
    <3>3. \A i, j, w, v, p \in Nat :
             /\ i <= p /\ j <= i + 1 => j <= p + 1
             /\ i + w <= p /\ j <= i + 1 /\ v <= w => j + v <= p + 1
      OBVIOUS
    <3> QED
      BY <2>6, <3>1, <3>2, <3>3
  <2>8. CASE Calm /\ granted /\ hush' = hush
    <3>1. sq = <<>> /\ link = <<>> /\ spc = "loop" /\ tcp = <<>> /\ ~(MayPost /\ (sRestran \/ ~NothingLeft))
      BY <1>1, <2>8 DEF Calm, SenderIdle, ReceiverIdle
    <3>2. ~NothingLeft
      <4> SUFFICES ASSUME NothingLeft PROVE FALSE
        OBVIOUS
      <4>1. blocksLeft = 0 /\ scq # 0
        BY <3>1 DEF Quiet, NothingLeft
      <4>2. Outstanding = 0
        BY <3>1, <4>1 DEF TalkInv
      <4> QED
        BY <1>0, <3>1, <4>1, <4>2, EmptySeq DEF Outstanding, NetworkTypes
    <3>3. now < timeout
      BY <1>0, <2>8, <3>1, <3>2 DEF MayPost
    <3>4. Wait > 0
      BY <1>0, <3>3 DEF Wait
    <3> QED
      <4>1. Patience' = Patience /\ Wait' = Wait - 1 /\ idle' <= idle + 1
        BY <1>0, <2>1, <2>4, <2>5, <2>8, <3>4
      <4>2. idle' \in Nat /\ idle \in Nat /\ Patience \in Nat /\ Wait \in Nat
        BY <1>0, <2>3, <2>4
      <4>3. idle + Wait <= Patience
        BY <2>6, <3>1
      <4>4. \A i, j, w, p \in Nat :
               i + w <= p /\ w > 0 /\ j <= i + 1 => j + (w - 1) <= p /\ j <= p
        OBVIOUS
      <4> QED
        BY <3>4, <4>1, <4>2, <4>3, <4>4
  <2> QED
    BY <2>1, <2>7, <2>8
<1> QED
  BY <1>4, <1>5, <1>6, <1>7, <1>8, <1>10, <1>12, <1>13 DEF PacedNext

\* What a paced transfer keeps to, beyond what every transfer does.
PacedInv == EndInv /\ FirstInv /\ TalkInv /\ PaceInv /\ PatienceInv

\* It holds at the start ...
LEMMA PacedStart == PacedInit => PacedInv
<1> SUFFICES ASSUME PacedInit PROVE PacedInv
  OBVIOUS
<1>1. EndInv /\ FirstInv /\ TalkInv /\ PaceInv
  BY TalkInit, PaceStart DEF PacedInit
<1>2. /\ idle = 0 /\ hush = 0 /\ losses = 0 /\ now = 0 /\ timeout = 0
      /\ MaxHush \in Nat /\ MaxLoss \in Nat /\ Slowest \in Nat
  BY SlowestIsGreatest, IntervalsAssumption, BoundsAssumption, TimesAssumption
  DEF PacedInit, PaceInit, Init
<1>3. Patience \in Nat
  BY <1>2, OneMoreLoss DEF Patience
<1>4. Wait = 0
  BY <1>2 DEF Wait
<1> QED
  BY <1>1, <1>2, <1>3, <1>4 DEF PacedInv, PatienceInv

\* ... the clock keeps what Prompt takes for granted ...
LEMMA PromptStep ==
    ASSUME Second > (MaxLoss + 1) * Slowest + MaxHush,
           TypeOK, PaceInv, PatienceInv, Sound, UseMessage, [PacedNext]_pacedVars
    PROVE  [PromptNext]_vars
<1>1. PacedTimeout => Quiet
  BY SecondExpires DEF PacedTimeout, RTimeout
<1> QED
  BY <1>1 DEF PacedNext, PacedPost, PacedWait, PacedTake, PacedEndBatch, PacedTimeout,
     OtherSteps, Granted, Withdrawn, Tick, PromptNext, Sender, pacedVars

\* ... and every step preserves it, if the second is longer than the intervals of all blocks
\* that can be lost, of the one that comes after them, and all that can be held up.
LEMMA PacedInductive ==
    ASSUME Second > (MaxLoss + 1) * Slowest + MaxHush
    PROVE  PacedSpec => []PacedInv
<1>1. IInv /\ PacedInv /\ [PacedNext]_pacedVars /\ IInv' => PacedInv'
  <2> SUFFICES ASSUME IInv, PacedInv, [PacedNext]_pacedVars, IInv' PROVE PacedInv'
    OBVIOUS
  <2>0. TypeOK /\ EndInv /\ FirstInv /\ TalkInv /\ PaceInv /\ PatienceInv /\ [Next]_vars
    BY PacedStep DEF IInv, PacedInv
  <2>1. EndInv' /\ FirstInv' /\ PaceInv'
    BY <2>0, EndStep, FirstStep, PaceStep
  <2>2. TalkInv'
    <3> SUFFICES ASSUME UseMessage, Sound' PROVE TalkInv'
      BY DEF TalkInv
    <3>1. Sound
      BY <2>0, SoundBefore
    <3>2. [PromptNext]_vars
      BY <2>0, <3>1, PromptStep
    <3> QED
      BY <2>0, <3>2, TalkStep
  <2>3. PatienceInv'
    BY <2>0, <2>1, <2>2, PatienceStep
  <2> QED
    BY <2>1, <2>2, <2>3 DEF PacedInv
<1>2. PacedSpec => []IInv
  BY PacedIsTransfer, Inductive, PTL
<1> QED
  BY <1>1, <1>2, PacedStart, PTL DEF PacedSpec

\* When the receiver's second expires nothing is under way (389, 676): the answer to its
\* last list cannot be late.  How long the second has to be for that depends on the rate,
\* the losses and the pauses, not on how long the file is.
THEOREM SecondSuffices ==
    ASSUME Second > (MaxLoss + 1) * Slowest + MaxHush
    PROVE  PacedSpec => [](UseMessage /\ Sound => SecondIsEnough)
<1>1. IInv /\ PacedInv => (UseMessage /\ Sound => SecondIsEnough)
  BY SecondExpires DEF SecondIsEnough, IInv, PacedInv
<1> QED
  BY <1>1, PacedInductive, PacedIsTransfer, Inductive, PTL

\* Then no assert of the two loops fails and no message is misread.
THEOREM PacedNothingFails ==
    ASSUME Second > (MaxLoss + 1) * Slowest + MaxHush
    PROVE  PacedSpec => []NoAssertFails
<1>1. PacedInv => NoAssertFails
  BY DEF PacedInv, TalkInv, NoneFails, NoAssertFails
<1> QED
  BY <1>1, PacedInductive, PTL

-----------------------------------------------------------------------------
(* With no assumption left but on the constants and on the link: full        *)
(* blocks that fit into the buffers, and the last block is not lost.          *)

LongEnough == Second > (MaxLoss + 1) * Slowest + MaxHush
FitsBuffers == UseMessage /\ ExactSize /\ KeepLast /\ NumBuffers > NumBlocks

\* Such a transfer stays Sound in time as well: here the clock keeps what Prompt assumes.
THEOREM PacedStaysSound ==
    ASSUME LongEnough, FitsBuffers
    PROVE  PacedSpec => []Sound
<1> USE DEF LongEnough, FitsBuffers
<1>1. PacedInit => WindowInv /\ Sound
  BY WindowInit DEF PacedInit, Init, Sound
<1>2. IInv /\ PacedInv /\ WindowInv /\ Sound /\ [PacedNext]_pacedVars /\ IInv' => WindowInv' /\ Sound'
  <2> SUFFICES ASSUME IInv, PacedInv, WindowInv, Sound, [PacedNext]_pacedVars, IInv'
               PROVE  WindowInv' /\ Sound'
    OBVIOUS
  <2>1. [PromptNext]_vars
    BY PromptStep DEF IInv, PacedInv
  <2> QED
    BY <2>1, SoundInductive DEF PacedInv
<1>3. PacedSpec => []IInv
  BY PacedIsTransfer, Inductive, PTL
<1> QED
  BY <1>1, <1>2, <1>3, PacedInductive, PTL DEF PacedSpec

\* Whenever the receiver's second expires, all is quiet.
THEOREM SecondAlwaysEnough ==
    ASSUME LongEnough, FitsBuffers
    PROVE  PacedSpec => []SecondIsEnough
<1>1. (UseMessage /\ Sound => SecondIsEnough) /\ Sound => SecondIsEnough
  BY DEF FitsBuffers
<1> QED
  BY <1>1, SecondSuffices, PacedStaysSound, PTL DEF LongEnough

\* And every step is one of a copy, however many blocks are lost or sent twice.
THEOREM PacedCopies ==
    ASSUME LongEnough, FitsBuffers
    PROVE  PacedSpec => Copy!Init /\ [][Copy!Next]_<<delivered, RecvDone, SendDone>>
<1>1. [UseMessage /\ Sound' => [Copy!Next]_<<delivered, RecvDone, SendDone>>]_vars /\ Sound'
        => [Copy!Next]_<<delivered, RecvDone, SendDone>>
  BY DEF FitsBuffers, vars, senderVars, recvVars, RecvDone, SendDone
<1> QED
  BY <1>1, ImplementsCopy, PacedIsTransfer, PacedStaysSound, PTL
=============================================================================
