--------------------------- MODULE TransferProofs ---------------------------
(***************************************************************************)
(* Proofs about the two loops of a file transfer, for files, buffers,       *)
(* batches and losses of any number.                                        *)
(***************************************************************************)
EXTENDS Transfer, SequenceTheorems, FiniteSetTheorems, TLAPS

-----------------------------------------------------------------------------
(* Lemmas on the operators the model is built from.                        *)

\* Gap(lo, hi) lists lo .. hi, one entry each, none of them received.
LEMMA GapProperties ==
    ASSUME NEW lo \in Nat, NEW hi \in Int, hi - lo + 1 \in Nat
    PROVE  /\ Gap(lo, hi) \in Seq(Items)
           /\ Len(Gap(lo, hi)) = hi - lo + 1
           /\ \A j \in 1 .. hi - lo + 1 : Gap(lo, hi)[j] = [seq |-> lo + j - 1, recved |-> FALSE]
<1> DEFINE n == hi - lo + 1
           g == [j \in 1 .. n |-> [seq |-> lo + j - 1, recved |-> FALSE]]
<1>1. \A j \in 1 .. n : [seq |-> lo + j - 1, recved |-> FALSE] \in Items
  BY DEF Items
<1>2. g \in [1 .. n -> Items]
  BY <1>1
<1>3. g \in Seq(Items) /\ Len(g) = n
  BY <1>2
<1>4. Gap(lo, hi) = g
  BY DEF Gap
<1> QED
  BY <1>3, <1>4

\* A list of missing blocks is a sequence of the length asked for, of numbers
\* the deque holds (or of 0, should the deque hold too few).
LEMMA MissingListType ==
    ASSUME NEW S, 0 \in S,
           NEW d \in Seq(Items), \A j \in 1 .. Len(d) : d[j].seq \in S,
           NEW k \in Nat
    PROVE  /\ MissingList(d, k) \in Seq(S)
           /\ Len(MissingList(d, k)) = k
<1> DEFINE nth(m) == {j \in Unreceived(d) : Cardinality({x \in Unreceived(d) : x <= j}) = m}
           e(m) == IF nth(m) = {} THEN 0 ELSE d[CHOOSE j \in nth(m) : TRUE].seq
           s == [m \in 1 .. k |-> e(m)]
<1>1. ASSUME NEW m \in 1 .. k PROVE e(m) \in S
  <2>1. CASE nth(m) = {}
    BY <2>1
  <2>2. CASE nth(m) # {}
    <3>1. (CHOOSE j \in nth(m) : TRUE) \in nth(m)
      BY <2>2
    <3>2. nth(m) \subseteq 1 .. Len(d)
      BY LenProperties DEF Unreceived
    <3> HIDE DEF nth
    <3> QED
      BY <2>2, <3>1, <3>2
  <2> QED
    BY <2>1, <2>2
<1> HIDE DEF e
<1>2. s \in [1 .. k -> S]
  BY <1>1
<1>3. s \in Seq(S) /\ Len(s) = k
  BY <1>2
<1> USE DEF e
<1>4. MissingList(d, k) = s
  BY DEF MissingList
<1> HIDE DEF s
<1> QED
  BY <1>3, <1>4

-----------------------------------------------------------------------------
(* Type correctness.                                                       *)

\* The variables start with their types.
LEMMA InitTypes == Init => TypeOK
<1> USE NumBlocksAssumption, NumBuffersAssumption
<1> SUFFICES ASSUME Init PROVE TypeOK
  OBVIOUS
<1>1. SenderTypes
  BY DEF Init, SenderTypes
<1>2. NetworkTypes
  BY EmptySeq DEF Init, NetworkTypes
<1>3. ReceiverTypes
  BY EmptySeq DEF Init, ReceiverTypes
<1> QED
  BY <1>1, <1>2, <1>3 DEF TypeOK

\* Every step preserves them.
LEMMA TypeStep == TypeOK /\ [Next]_vars => TypeOK'
<1> USE NumBlocksAssumption, NumBuffersAssumption, BoundsAssumption, FlagsAssumption
<1> SUFFICES ASSUME TypeOK, [Next]_vars PROVE TypeOK'
  OBVIOUS
<1>0. SenderTypes /\ NetworkTypes /\ ReceiverTypes
  BY DEF TypeOK
<1>1. tcp # <<>> => Head(tcp) \in Messages /\ Head(tcp).seqs \in Seq(Nat)
                    /\ Tail(tcp) \in Seq(Messages)
  <2> SUFFICES ASSUME tcp # <<>>
               PROVE  /\ Head(tcp) \in Messages /\ Head(tcp).seqs \in Seq(Nat)
                      /\ Tail(tcp) \in Seq(Messages)
    OBVIOUS
  <2>1. Head(tcp) \in Messages /\ Tail(tcp) \in Seq(Messages)
    BY <1>0, HeadTailProperties DEF NetworkTypes
  <2>2. \A m \in Messages : m.seqs \in Seq(Nat)
    BY DEF Messages
  <2> QED
    BY <2>1, <2>2
<1>2. \A m \in Messages : Append(tcp, m) \in Seq(Messages)
  BY <1>0, AppendProperties DEF NetworkTypes
<1>3. link # <<>> => Head(link) \in Nat /\ Tail(link) \in Seq(Nat)
  BY <1>0, HeadTailProperties DEF NetworkTypes
<1>4. sq # <<>> => Head(sq) \in 0 .. NumBuffers - 1 /\ Tail(sq) \in Seq(0 .. NumBuffers - 1)
  BY <1>0, HeadTailProperties DEF NetworkTypes
<1>5. ASSUME UNCHANGED senderVars PROVE SenderTypes'
  BY <1>0, <1>5 DEF senderVars, SenderTypes
<1>6. ASSUME UNCHANGED <<nicVars, link>>, tcp' \in Seq(Messages) PROVE NetworkTypes'
  BY <1>0, <1>6 DEF nicVars, NetworkTypes
<1>7. ASSUME UNCHANGED recvVars PROVE ReceiverTypes'
  BY <1>0, <1>7 DEF recvVars, ReceiverTypes
<1>8. tcp' = tcp => tcp' \in Seq(Messages)
  BY <1>0 DEF NetworkTypes
<1>9. CASE \/ SRecvFinish \/ SAssertFails \/ SRecvGarbage \/ SPeerGone \/ SWait \/ SJoin
  <2>1. SenderTypes'
    BY <1>0, <1>9 DEF SenderTypes, SRecvFinish, SAssertFails, SRecvGarbage, SPeerGone, SWait, SJoin
  <2>2. NetworkTypes' /\ ReceiverTypes'
    BY <1>1, <1>6, <1>7, <1>8, <1>9 DEF SRecvFinish, SAssertFails, SRecvGarbage, SPeerGone, SWait, SJoin
  <2> QED
    BY <2>1, <2>2 DEF TypeOK
<1>10. CASE SRecvList
  <2>1. /\ rlist' \in Seq(Nat) /\ Len(rlist') \in Nat /\ rlist'[1] \in Nat
    <3>1. rlist' \in Seq(Nat) /\ rlist' # <<>>
      BY <1>1, <1>10 DEF SRecvList
    <3> QED
      BY <3>1, EmptySeq, ElementOfSeq, LenProperties
  <2>2. SenderTypes'
    BY <1>0, <1>10, <2>1 DEF SenderTypes, SRecvList
  <2>3. NetworkTypes'
    BY <1>0, <1>1, <1>10, <2>1 DEF NetworkTypes, SenderTypes, SRecvList
  <2> QED
    BY <1>7, <1>10, <2>2, <2>3 DEF TypeOK, SRecvList
<1>11. CASE Post
  <2>1. cur' \in 0 .. NumBuffers - 1
    BY SMTT(30), <1>0, <1>11 DEF Post, NextBuffer, SenderTypes
  <2>2. restraned + 1 < Len(rlist) => rlist[restraned + 2] \in Nat
    BY <1>0, ElementOfSeq, LenProperties DEF SenderTypes
  <2>3. SenderTypes'
    <3>1. sRestran' \in BOOLEAN /\ restraned' \in Nat
      <4>1. CASE sRestran
        BY <1>0, <1>11, <4>1 DEF Post, SenderTypes
      <4>2. CASE ~sRestran
        BY <1>0, <1>11, <4>2 DEF Post, SenderTypes
      <4> QED
        BY <4>1, <4>2
    <3> QED
      BY <1>0, <1>11, <2>1, <3>1 DEF Post, SenderTypes
  <2>4. buf' \in [0 .. NumBuffers - 1 -> Nat]
    <3>1. \A n \in Nat : [buf EXCEPT ![cur'] = n] \in [0 .. NumBuffers - 1 -> Nat]
      BY <1>0, <2>1 DEF NetworkTypes
    <3>2. restraned + 1 < Len(rlist) \/ ~sRestran \/ buf' = buf
      BY <1>11 DEF Post
    <3>3. sRestran => buf' \in {buf, [buf EXCEPT ![cur'] = rlist[restraned + 2]]}
      BY <1>0, <1>11 DEF Post, SenderTypes
    <3>4. ~sRestran => buf' = [buf EXCEPT ![cur'] = sendcnt + 1]
      BY <1>11 DEF Post
    <3>5. buf \in [0 .. NumBuffers - 1 -> Nat] /\ sendcnt + 1 \in Nat
      BY <1>0 DEF NetworkTypes, SenderTypes
    <3>6. CASE buf' = buf
      BY <3>5, <3>6
    <3>7. CASE buf' # buf /\ sRestran
      BY <2>2, <3>1, <3>2, <3>3, <3>7
    <3>8. CASE ~sRestran
      BY <3>1, <3>4, <3>5, <3>8
    <3> QED
      BY <3>6, <3>7, <3>8
  <2>5. NetworkTypes'
    BY <1>0, <1>11, <2>4, AppendProperties DEF Post, NetworkTypes, SenderTypes
  <2> QED
    BY <1>7, <1>11, <2>3, <2>5 DEF TypeOK, Post
<1>12. CASE SPoll
  <2>1. scq' \in Nat
    BY <1>0, <1>12 DEF SPoll, NetworkTypes
  <2>2. spc' \in {"loop", "poll", "join", "aborted"}
    BY <1>12 DEF SPoll
  <2> QED
    BY <1>0, <1>7, <1>12, <2>1, <2>2 DEF SPoll, TypeOK, SenderTypes, NetworkTypes
<1>13. CASE Network
  <2>1. NetworkTypes'
    <3>1. CASE NicSend
      <4>1. buf[Head(sq)] \in Nat
        BY <1>0, <1>4, <3>1 DEF NicSend, NetworkTypes
      <4>2. link' \in Seq(Nat)
        BY <1>0, <3>1, <4>1, AppendProperties DEF NicSend, NetworkTypes
      <4> QED
        BY SMTT(30), <1>0, <1>4, <3>1, <4>2 DEF NicSend, NetworkTypes
    <3>2. CASE NicLose
      BY <1>0, <1>4, <3>2 DEF NicLose, NetworkTypes
    <3>3. CASE NicNotReady
      BY <1>0, <3>3 DEF NicNotReady, NetworkTypes
    <3> QED
      BY <1>13, <3>1, <3>2, <3>3 DEF Network
  <2> QED
    BY <1>5, <1>7, <1>13, <2>1 DEF Network, NicSend, NicLose, NicNotReady, TypeOK
<1>14. ASSUME NEW pc \in {"batch", "aborted"}, Take(pc),
              recvNum' \in Nat, expect' \in Nat, maxSeq' \in Nat \cup {-1}, deque' \in Seq(Items)
       PROVE  TypeOK'
  <2>1. NetworkTypes'
    BY <1>0, <1>3, <1>14 DEF Take, NetworkTypes, nicVars
  <2>2. ReceiverTypes'
    BY <1>0, <1>3, <1>14 DEF Take, ReceiverTypes
  <2> QED
    BY <1>5, <1>14, <2>1, <2>2 DEF Take, TypeOK
<1>15. CASE RDuplicate \/ RInOrder \/ RAssertFails \/ RCount
  BY SMTT(30), <1>0, <1>3, <1>14, <1>15
  DEF RDuplicate, RInOrder, RAssertFails, RCount, Take, ReceiverTypes
<1>16. CASE RFillFront
  <2>1. PICK p \in 1 .. Len(deque) : /\ deque' = SubSeq(deque, p + 1, Len(deque))
                                     /\ expect' = expect + p
    BY <1>16 DEF RFillFront
  <2>2. deque' \in Seq(Items)
    BY <1>0, <2>1, ElementOfSeq, LenProperties, SubSeqProperties DEF ReceiverTypes
  <2> QED
    BY <1>0, <1>14, <1>16, <2>1, <2>2 DEF RFillFront, ReceiverTypes
<1>17. CASE RFillInside
  <2>1. PICK j \in DOMAIN deque : deque' = [deque EXCEPT ![j].recved = TRUE]
    BY <1>17 DEF RFillInside
  <2>2. [deque[j] EXCEPT !.recved = TRUE] \in Items
    <3>1. deque[j] \in Items
      BY <1>0, ElementOfSeq, LenProperties DEF ReceiverTypes
    <3> QED
      BY <3>1 DEF Items
  <2>3. deque' = [deque EXCEPT ![j] = [deque[j] EXCEPT !.recved = TRUE]]
    BY <2>1
  <2>4. deque' \in Seq(Items)
    BY <1>0, <2>2, <2>3, ExceptSeq, LenProperties DEF ReceiverTypes
  <2> QED
    BY <1>0, <1>14, <1>17, <2>4 DEF RFillInside, ReceiverTypes
<1>18. CASE RAhead
  <2> DEFINE id == Head(link)
             gap == Gap(maxSeq + 1, id - 1)
             new == <<[seq |-> id, recved |-> TRUE]>>
  <2>1. id \in Nat /\ id > maxSeq /\ maxSeq + 1 \in Nat
    BY <1>0, <1>3, <1>18 DEF RAhead, Take, ReceiverTypes
  <2>2. gap \in Seq(Items)
    <3>1. id - 1 \in Int /\ (id - 1) - (maxSeq + 1) + 1 \in Nat
      BY <1>0, <2>1 DEF ReceiverTypes
    <3> QED
      BY <2>1, <3>1, GapProperties
  <2>3. new \in Seq(Items)
    BY <2>1 DEF Items
  <2>4. (deque \o gap) \o new \in Seq(Items)
    BY <1>0, <2>2, <2>3, ConcatProperties DEF ReceiverTypes
  <2>5. deque' \in Seq(Items)
    BY <1>18, <2>4 DEF RAhead
  <2> QED
    BY <1>0, <1>14, <1>18, <2>1, <2>5 DEF RAhead, ReceiverTypes
<1>19. ASSUME NEW t \in BOOLEAN, RSendList(t) PROVE TypeOK'
  <2>1. deque' \in Seq(Items)
    <3>1. CASE FillsTail(t)
      <4>1. Gap(maxSeq + 1, Last) \in Seq(Items)
        BY <1>0, <3>1, GapProperties, NumBlocksAssumption DEF FillsTail, ReceiverTypes, Last
      <4> QED
        BY <1>0, <1>19, <3>1, <4>1, ConcatProperties DEF RSendList, ListedDeque, ReceiverTypes
    <3> QED
      BY <1>0, <1>19, <3>1 DEF RSendList, ListedDeque, ReceiverTypes
  <2>2. NumBlocks - recvNum \in Nat
    BY <1>0, <1>19, NumBlocksAssumption DEF RSendList, ReceiverTypes
  <2>3. MissingList(deque', ListLength) \in Seq(Nat)
    <3>1. \A j \in 1 .. Len(deque') : deque'[j].seq \in Nat
      <4>1. \A j \in 1 .. Len(deque') : deque'[j] \in Items
        BY <2>1, ElementOfSeq
      <4> QED
        BY <4>1 DEF Items
    <3> QED
      BY <2>1, <2>2, <3>1, MissingListType DEF ListLength
  <2>4. tcp' \in Seq(Messages)
    BY <1>2, <1>19, <2>3 DEF RSendList, ListMsg, Messages
  <2>5. FillsTail(t) \in BOOLEAN
    BY DEF FillsTail
  <2>6. ReceiverTypes'
    BY <1>0, <1>19, <2>1, <2>5 DEF RSendList, ReceiverTypes, LoopOrLeave
  <2> QED
    BY <1>5, <1>6, <1>19, <2>4, <2>6 DEF RSendList, TypeOK
<1>20. ASSUME NEW t \in BOOLEAN, RNoList(t) \/ RSendFails(t) PROVE TypeOK'
  <2>1. ReceiverTypes'
    BY <1>0, <1>20 DEF RNoList, RSendFails, ReceiverTypes, LoopOrLeave
  <2> QED
    BY <1>5, <1>6, <1>8, <1>20, <2>1 DEF RNoList, RSendFails, TypeOK
<1>21. CASE REndBatch \/ RTimeout
  BY <1>19, <1>20, <1>21 DEF REndBatch, RTimeout
<1>22. CASE ROverflow
  BY <1>0, <1>5, <1>6, <1>8, <1>22 DEF ROverflow, ReceiverTypes, TypeOK
<1>23. CASE RNext
  <2>1. tcp' \in Seq(Messages)
    BY <1>2, <1>23, EmptySeq DEF RNext, FileInfo, Messages
  <2> QED
    BY <1>0, <1>5, <1>6, <1>23, <2>1 DEF RNext, ReceiverTypes, TypeOK
<1>24. CASE UNCHANGED vars
  BY <1>5, <1>6, <1>7, <1>8, <1>24 DEF vars, TypeOK
<1> QED
  BY <1>9, <1>10, <1>11, <1>12, <1>13, <1>15, <1>16, <1>17, <1>18, <1>21, <1>22, <1>23, <1>24
  DEF Next, Sender, Receiver

\* Every variable keeps its type, whatever the constants: in particular recv_num,
\* restrained_num and the completions counted never go below zero, and the buffer
\* a post uses is one of the registered ones.
THEOREM TypeCorrect == Spec => []TypeOK
  BY InitTypes, TypeStep, PTL DEF Spec

-----------------------------------------------------------------------------
(* The inductive invariant behind Complete, RecvCount, OnlyBlocks and       *)
(* FinishJustified.  recv_num is the only thing the receiver's loop looks   *)
(* at, so it has to be tied to the deque, the deque to the blocks that came, *)
(* and those to what the sender writes into its buffers.                    *)

\* The sender's loop: what is left, and that the buffer about to be posted
\* holds the number that is due.
LoopInv ==
    /\ blocksLeft \in Nat
    /\ sRestran => /\ UseMessage /\ restraned < Len(rlist)
                   /\ blocksLeft = Len(rlist) - restraned
                   /\ buf[cur] = rlist[restraned + 1]
    /\ ~sRestran /\ blocksLeft > 0 => /\ blocksLeft = NumBlocks - sendcnt
                                      /\ buf[cur] = sendcnt
    /\ blocksLeft = 0 \/ sRestran => sendcnt >= NumBlocks
    /\ ~UseMessage /\ spc = "loop" => blocksLeft > 0
    /\ \A k \in 1 .. Len(rlist) : rlist[k] \in Blocks
    /\ sRestran \/ (spc = "loop" /\ blocksLeft = 0) => Acked >= NumBlocks

\* A number the sender has posted: a block of the file, and in the first pass
\* one of those already counted in sendcnt.
Posted(n) == n \in Blocks /\ n < sendcnt

\* Whatever is under way names posted blocks only.
WireInv ==
    /\ \A k \in 1 .. Len(sq) : Posted(buf[sq[k]])
    /\ \A k \in 1 .. Len(link) : Posted(link[k])
    /\ \A b \in delivered : Posted(b)
    /\ \A k \in 1 .. Len(tcp) : \A m \in 1 .. Len(tcp[k].seqs) : tcp[k].seqs[m] \in Blocks

\* The receiver's bookkeeping: the deque spans expect_seq .. recv_max_seq and
\* says of each of these blocks whether it came; all before came, none after.
DequeInv ==
    /\ expect <= maxSeq + 1 /\ maxSeq <= Last
    /\ Len(deque) = maxSeq + 1 - expect
    /\ \A j \in 1 .. Len(deque) :
          deque[j].seq = expect + j - 1 /\ (deque[j].recved <=> expect + j - 1 \in delivered)
    /\ \A b \in Nat : b < expect => b \in delivered
    /\ \A b \in delivered : b <= maxSeq
    /\ expect <= maxSeq => expect \notin delivered /\ maxSeq \in delivered
    /\ recvNum = Cardinality(delivered)

\* Whoever has left its loop, or is about to be told to, does so with the file
\* complete.
DoneInv ==
    /\ RecvDone => recvNum >= NumBlocks
    /\ \A k \in 1 .. Len(tcp) : tcp[k] = ListMsg(<<>>) => delivered = Blocks
    /\ SendDone => delivered = Blocks /\ Acked >= NumBlocks

IInv ==
    /\ TypeOK
    /\ Sound => LoopInv /\ WireInv
    /\ Sound /\ UseMessage => DequeInv /\ DoneInv

\* What makes a transfer unsound is never undone.
LEMMA SoundBefore == TypeOK /\ [Next]_vars /\ Sound' => Sound
<1> SUFFICES ASSUME TypeOK, [Next]_vars, Sound' PROVE Sound
  OBVIOUS
<1> USE DEF Sound
<1>1. CASE Post
  BY <1>1 DEF Post, recvVars, TypeOK, NetworkTypes
<1>2. ASSUME NEW t \in BOOLEAN, RSendList(t) PROVE Sound
  BY <1>2 DEF RSendList, nicVars, TypeOK, ReceiverTypes
<1>3. CASE Sender /\ ~Post
  BY <1>3 DEF Sender, SRecvFinish, SRecvList, SAssertFails, SRecvGarbage, SPeerGone, SWait,
              SPoll, SJoin, recvVars, nicVars
<1>4. CASE Network
  BY <1>4 DEF Network, NicSend, NicLose, NicNotReady, recvVars
<1>5. CASE Receiver
  <2>0. ASSUME UNCHANGED <<clobbered, tailFilled>> PROVE Sound
    BY <2>0
  <2>1. CASE REndBatch \/ RTimeout
    <3>1. (\E t \in BOOLEAN : RSendList(t)) \/ UNCHANGED <<nicVars, tailFilled>>
      BY <2>1 DEF REndBatch, RTimeout, RNoList, RSendFails
    <3> QED
      BY <1>2, <2>0, <3>1 DEF nicVars
  <2>2. CASE ROverflow \/ RNext
    <3>1. UNCHANGED <<nicVars, tailFilled>>
      BY <2>2 DEF ROverflow, RNext
    <3> QED
      BY <2>0, <3>1 DEF nicVars
  <2>3. CASE Receiver /\ ~(REndBatch \/ RTimeout) /\ ~(ROverflow \/ RNext)
    BY <2>3 DEF Receiver, RDuplicate, RInOrder, RFillFront, RFillInside, RAhead, RAssertFails,
                RCount, Take, nicVars
  <2> QED
    BY <1>5, <2>1, <2>2, <2>3
<1>6. CASE UNCHANGED vars
  BY <1>6 DEF vars, nicVars, recvVars
<1> QED
  BY <1>1, <1>3, <1>4, <1>5, <1>6 DEF Next

\* Receiver steps leave the sender alone.
LEMMA ReceiverFrame == Receiver => UNCHANGED <<senderVars, nicVars>>
BY DEF Receiver, RDuplicate, RInOrder, RFillFront, RFillInside, RAhead, RAssertFails, RCount,
       Take, REndBatch, RTimeout, RNoList, RSendList, RSendFails, ROverflow, RNext

\* LoopInv is preserved.
LEMMA LoopStep == IInv /\ Sound /\ [Next]_vars /\ TypeOK' /\ Sound' => LoopInv'
<1> SUFFICES ASSUME IInv, Sound, [Next]_vars, TypeOK', Sound' PROVE LoopInv'
  OBVIOUS
<1> USE NumBlocksAssumption, NumBuffersAssumption, FlagsAssumption
<1>0. /\ LoopInv /\ WireInv /\ ExactSize
      /\ SenderTypes /\ NetworkTypes /\ SenderTypes' /\ NetworkTypes'
  BY DEF IInv, Sound, TypeOK
<1>1. CASE \/ SRecvFinish \/ SAssertFails \/ SRecvGarbage \/ SPeerGone \/ SWait \/ SJoin
  BY <1>0, <1>1
  DEF LoopInv, Acked, Outstanding, SRecvFinish, SAssertFails, SRecvGarbage, SPeerGone, SWait,
      SJoin, nicVars
<1>2. CASE SRecvList
  <2>1. /\ blocksLeft = 0 /\ ~sRestran /\ spc = "loop"
        /\ sendcnt >= NumBlocks /\ Acked >= NumBlocks
    BY <1>0, <1>2 DEF SRecvList, NothingLeft, LoopInv
  <2>2. /\ rlist' = Head(tcp).seqs /\ tcp # <<>> /\ rlist' # <<>> /\ rlist' \in Seq(Nat)
    BY <1>0, <1>2 DEF SRecvList, SenderTypes
  <2>3. Len(rlist') \in Nat \ {0} /\ Head(tcp) = tcp[1] /\ Len(tcp) \in Nat \ {0}
    BY <1>0, <2>2, EmptySeq DEF NetworkTypes
  <2>4. \A k \in 1 .. Len(rlist') : rlist'[k] \in Blocks
    BY <1>0, <2>2, <2>3 DEF WireInv
  <2>5. buf'[cur'] = rlist'[1]
    BY <1>0, <1>2 DEF SRecvList, NetworkTypes, SenderTypes
  <2>6. /\ blocksLeft' = Len(rlist') /\ sRestran' /\ restraned' = 0 /\ UseMessage
        /\ sendcnt' = sendcnt /\ Acked' = Acked
    BY <1>2, <2>1, <2>3 DEF SRecvList, Acked, Outstanding
  <2> QED
    BY <2>1, <2>3, <2>4, <2>5, <2>6 DEF LoopInv
<1>3. CASE Post
  <2>1. /\ spc = "loop" /\ blocksLeft > 0 /\ blocksLeft' = blocksLeft - 1 /\ spc' = "poll"
        /\ sendcnt' = sendcnt + 1 /\ rlist' = rlist
    BY <1>0, <1>3 DEF Post, LoopInv, NothingLeft, SenderTypes
  <2>2. Acked' = Acked
    <3>1. Len(sq') = Len(sq) + 1 /\ scq' = scq
      BY <1>0, <1>3, AppendProperties DEF Post, NetworkTypes, SenderTypes
    <3> QED
      BY <1>0, <2>1, <3>1 DEF Acked, Outstanding, NetworkTypes, SenderTypes
  <2>3. CASE sRestran
    <3>1. /\ restraned' = restraned + 1
          /\ sRestran' <=> restraned + 1 < Len(rlist)
          /\ restraned + 1 < Len(rlist) => buf' = [buf EXCEPT ![cur'] = rlist[restraned + 2]]
      <4>1. /\ restraned' = restraned + 1
            /\ sRestran' = (restraned + 1 < Len(rlist))
            /\ restraned + 1 < Len(rlist) => buf' = [buf EXCEPT ![cur'] = rlist[(restraned + 1) + 1]]
        BY <1>3, <2>3 DEF Post
      <4>2. sRestran' <=> restraned + 1 < Len(rlist)
        BY <4>1, Zenon
      <4>3. (restraned + 1) + 1 = restraned + 2
        BY <1>0 DEF SenderTypes
      <4> QED
        BY <4>1, <4>2, <4>3
    <3>2. sRestran' => buf'[cur'] = rlist[restraned + 2]
      BY <1>0, <3>1 DEF NetworkTypes, SenderTypes
    <3>3. /\ blocksLeft = Len(rlist) - restraned /\ restraned < Len(rlist)
          /\ Len(rlist) \in Nat /\ restraned \in Nat
          /\ sendcnt >= NumBlocks /\ sendcnt \in Nat /\ Acked >= NumBlocks /\ UseMessage
          /\ \A k \in 1 .. Len(rlist) : rlist[k] \in Blocks
      BY SMTT(30), <1>0, <2>3 DEF LoopInv, SenderTypes
    <3>4. CASE restraned + 1 < Len(rlist)
      BY <2>1, <2>2, <3>1, <3>2, <3>3, <3>4 DEF LoopInv
    <3>5. CASE ~(restraned + 1 < Len(rlist))
      <4>1. blocksLeft' = 0 /\ ~sRestran'
        BY <2>1, <3>1, <3>3, <3>5, LenProperties
      <4> QED
        BY <2>1, <2>2, <3>3, <4>1 DEF LoopInv
    <3> QED
      BY <3>4, <3>5
  <2>4. CASE ~sRestran
    <3>1. ~sRestran' /\ buf' = [buf EXCEPT ![cur'] = sendcnt + 1]
      BY <1>3, <2>4 DEF Post
    <3>2. buf'[cur'] = sendcnt + 1
      BY <1>0, <3>1 DEF NetworkTypes, SenderTypes
    <3> QED
      BY <1>0, <2>1, <2>2, <2>4, <3>1, <3>2 DEF LoopInv, SenderTypes
  <2> QED
    BY <2>3, <2>4
<1>4. CASE SPoll
  <2>1. /\ UNCHANGED <<blocksLeft, sendcnt, rlist, restraned, sRestran, cur, buf, sq>>
        /\ scq' <= scq
    BY <1>0, <1>4, BoundsAssumption DEF SPoll, NetworkTypes
  <2>2. Acked' >= Acked
    <3>1. Len(sq) \in Nat /\ scq \in Nat /\ scq' \in Nat /\ sendcnt \in Nat
      BY <1>0, LenProperties DEF NetworkTypes, SenderTypes
    <3> QED
      BY <2>1, <3>1 DEF Acked, Outstanding
  <2>3. spc' = "loop" => ~PollAgain' /\ (UseMessage \/ ~NothingLeft)
    BY <1>4, <2>1 DEF SPoll, NothingLeft
  <2>4. spc' = "loop" /\ blocksLeft = 0 => Outstanding' = 0
    <3>1. Outstanding' \in Nat
      BY <1>0 DEF Outstanding, NetworkTypes
    <3> QED
      BY <1>0, <2>1, <2>3, <3>1 DEF PollAgain, NothingLeft
  <2>5. spc' = "loop" /\ blocksLeft = 0 => Acked' >= NumBlocks
    BY <1>0, <2>1, <2>4 DEF Acked, LoopInv, SenderTypes
  <2>6. sRestran => Acked' >= NumBlocks
    <3>1. Acked \in Int /\ Acked' \in Int
      <4>1. Len(sq) \in Nat /\ scq \in Nat /\ scq' \in Nat /\ sendcnt \in Nat
        BY <1>0, LenProperties DEF NetworkTypes, SenderTypes
      <4> QED
        BY <2>1, <4>1 DEF Acked, Outstanding
    <3> QED
      BY <1>0, <2>2, <3>1 DEF LoopInv
  <2>7. ~UseMessage /\ spc' = "loop" => blocksLeft > 0
    BY <1>0, <2>3 DEF LoopInv, NothingLeft
  <2> QED
    BY <1>0, <2>1, <2>5, <2>6, <2>7 DEF LoopInv
<1>5. CASE Network
  <2>1. UNCHANGED senderVars /\ UNCHANGED buf
    BY <1>5 DEF Network, NicSend, NicLose, NicNotReady
  <2>2. Outstanding' = Outstanding
    <3>1. sq # <<>> => Len(Tail(sq)) = Len(sq) - 1
      BY <1>0, HeadTailProperties DEF NetworkTypes
    <3>2. Len(sq) \in Nat /\ scq \in Nat
      BY <1>0, LenProperties DEF NetworkTypes
    <3>3. \/ sq # <<>> /\ sq' = Tail(sq) /\ scq' = scq + 1
          \/ UNCHANGED <<sq, scq>>
      BY <1>5 DEF Network, NicSend, NicLose, NicNotReady
    <3> QED
      BY <3>1, <3>2, <3>3 DEF Outstanding
  <2> QED
    BY <1>0, <2>1, <2>2 DEF LoopInv, Acked, senderVars
<1>6. CASE Receiver \/ UNCHANGED vars
  <2>1. UNCHANGED <<senderVars, nicVars>>
    BY <1>6, ReceiverFrame DEF vars
  <2> QED
    BY <1>0, <2>1 DEF LoopInv, Acked, Outstanding, senderVars, nicVars
<1> QED
  BY <1>1, <1>2, <1>3, <1>4, <1>5, <1>6 DEF Next, Sender

\* What a sound receiver sends: its deque is not touched, and the list names
\* blocks of the file, as many as are not counted yet.
LEMMA SentList ==
    ASSUME IInv, Sound, Sound', UseMessage, NEW t \in BOOLEAN, RSendList(t)
    PROVE  /\ deque' = deque
           /\ NumBlocks - recvNum \in Nat
           /\ \E s \in Seq(Blocks) : Len(s) = NumBlocks - recvNum /\ tcp' = Append(tcp, ListMsg(s))
<1> USE NumBlocksAssumption
<1>1. ~FillsTail(t)
  BY DEF RSendList, Sound
<1>2. deque' = deque
  BY <1>1 DEF RSendList, ListedDeque
<1>3. NumBlocks - recvNum \in Nat
  BY DEF IInv, TypeOK, ReceiverTypes, RSendList
<1>4. \A j \in 1 .. Len(deque) : deque[j].seq \in Blocks
  <2>1. DequeInv /\ expect \in Nat /\ maxSeq \in Int /\ Len(deque) \in Nat
    BY LenProperties DEF IInv, TypeOK, ReceiverTypes
  <2> QED
    BY <2>1 DEF DequeInv, Blocks, Last
<1>5. /\ MissingList(deque, ListLength) \in Seq(Blocks)
      /\ Len(MissingList(deque, ListLength)) = NumBlocks - recvNum
  <2>1. 0 \in Blocks /\ deque \in Seq(Items)
    BY DEF Blocks, IInv, TypeOK, ReceiverTypes
  <2> QED
    BY <1>3, <1>4, <2>1, MissingListType DEF ListLength
<1> QED
  BY <1>2, <1>3, <1>5 DEF RSendList

\* WireInv is preserved.
LEMMA WireStep == IInv /\ Sound /\ [Next]_vars /\ TypeOK' /\ Sound' => WireInv'
<1> SUFFICES ASSUME IInv, Sound, [Next]_vars, TypeOK', Sound' PROVE WireInv'
  OBVIOUS
<1> USE NumBlocksAssumption, NumBuffersAssumption, FlagsAssumption
<1>0. /\ LoopInv /\ WireInv /\ ExactSize
      /\ SenderTypes /\ NetworkTypes /\ SenderTypes' /\ NetworkTypes'
  BY DEF IInv, Sound, TypeOK
<1>a. tcp # <<>> => /\ Len(Tail(tcp)) = Len(tcp) - 1 /\ Len(tcp) \in Nat \ {0}
                    /\ \A k \in 1 .. Len(tcp) - 1 : Tail(tcp)[k] = tcp[k + 1]
  BY <1>0, HeadTailProperties, EmptySeq DEF NetworkTypes
<1>b. tcp # <<>> => \A k \in 1 .. Len(Tail(tcp)) : \A m \in 1 .. Len(Tail(tcp)[k].seqs) :
                       Tail(tcp)[k].seqs[m] \in Blocks
  BY <1>0, <1>a DEF WireInv
<1>c. sq # <<>> => /\ Len(Tail(sq)) = Len(sq) - 1 /\ Len(sq) \in Nat \ {0} /\ Head(sq) = sq[1]
                   /\ \A k \in 1 .. Len(sq) - 1 : Tail(sq)[k] = sq[k + 1]
  BY <1>0, HeadTailProperties, EmptySeq DEF NetworkTypes
<1>1. CASE \/ SRecvFinish \/ SAssertFails \/ SRecvGarbage \/ SPeerGone \/ SWait \/ SJoin \/ SPoll
  <2>1. /\ UNCHANGED <<sendcnt, buf, sq, link, delivered>>
        /\ tcp' = tcp \/ (tcp # <<>> /\ tcp' = Tail(tcp))
    BY <1>1 DEF SRecvFinish, SAssertFails, SRecvGarbage, SPeerGone, SWait, SJoin, SPoll,
                nicVars, recvVars
  <2> QED
    BY <1>0, <1>b, <2>1 DEF WireInv, Posted
<1>2. CASE SRecvList
  <2>1. /\ UNCHANGED <<sendcnt, sq, link, delivered, cur>> /\ sendcnt >= NumBlocks
        /\ tcp # <<>> /\ tcp' = Tail(tcp)
        /\ rlist' = Head(tcp).seqs /\ rlist' # <<>> /\ rlist' \in Seq(Nat)
        /\ buf' = [buf EXCEPT ![cur] = rlist'[1]]
    BY <1>0, <1>2 DEF SRecvList, LoopInv, NothingLeft, recvVars, SenderTypes
  <2>2. rlist'[1] \in Blocks
    <3>1. Len(rlist') \in Nat \ {0} /\ Head(tcp) = tcp[1] /\ Len(tcp) \in Nat \ {0}
      BY <1>0, <2>1, EmptySeq DEF NetworkTypes
    <3> QED
      BY SMTT(30), <1>0, <2>1, <3>1 DEF WireInv
  <2>3. \A n \in Blocks : n < sendcnt
    BY <1>0, <2>1 DEF Blocks, SenderTypes
  <2>4. \A k \in 1 .. Len(sq) : buf'[sq[k]] \in Blocks
    <3>1. \A k \in 1 .. Len(sq) : sq[k] \in 0 .. NumBuffers - 1
      BY <1>0, ElementOfSeq DEF NetworkTypes
    <3> QED
      BY <1>0, <2>1, <2>2, <3>1 DEF WireInv, Posted, NetworkTypes
  <2> QED
    BY <1>0, <1>b, <2>1, <2>3, <2>4 DEF WireInv, Posted
<1>3. CASE Post
  <2>1. /\ spc = "loop" /\ blocksLeft > 0 /\ sendcnt' = sendcnt + 1 /\ sq' = Append(sq, cur)
        /\ UNCHANGED <<link, tcp, delivered>> /\ cur' = NextBuffer
    BY <1>0, <1>3 DEF Post, LoopInv, NothingLeft, recvVars, SenderTypes
  <2>2. buf[cur] \in Blocks /\ buf[cur] < sendcnt'
    <3>1. CASE sRestran
      <4>1. restraned + 1 \in 1 .. Len(rlist)
        BY <1>0, <3>1, LenProperties DEF LoopInv, SenderTypes
      <4>2. buf[cur] \in Blocks /\ sendcnt >= NumBlocks
        BY <1>0, <3>1, <4>1 DEF LoopInv
      <4> QED
        BY <1>0, <2>1, <4>2 DEF SenderTypes, Blocks
    <3>2. CASE ~sRestran
      BY <1>0, <2>1, <3>2 DEF LoopInv, SenderTypes, Blocks
    <3> QED
      BY <3>1, <3>2
  <2>3. \A n : Posted(n) => n \in Blocks /\ n < sendcnt'
    BY <1>0, <2>1 DEF Posted, Blocks, SenderTypes
  <2>4. \A k \in 1 .. Len(sq') : buf[sq'[k]] \in Blocks /\ buf[sq'[k]] < sendcnt'
    <3>1. /\ Len(sq') = Len(sq) + 1 /\ Len(sq) \in Nat
          /\ \A k \in 1 .. Len(sq) : sq'[k] = sq[k]
          /\ sq'[Len(sq) + 1] = cur
      BY <1>0, <2>1, AppendProperties, LenProperties DEF NetworkTypes, SenderTypes
    <3> QED
      BY <1>0, <2>2, <2>3, <3>1 DEF WireInv
  <2>5. \A k \in 1 .. Len(sq') : buf'[sq'[k]] = buf[sq'[k]]
    <3>1. \A k \in 1 .. Len(sq') : sq'[k] \in 0 .. NumBuffers - 1
      BY <1>0, ElementOfSeq DEF NetworkTypes
    <3>2. buf' = buf \/ \A k \in 1 .. Len(sq') : sq'[k] # cur'
      BY <1>3, <2>1 DEF Post, Sound
    <3>3. buf' = buf \/ \E n : buf' = [buf EXCEPT ![cur'] = n]
      BY <1>3 DEF Post
    <3> QED
      BY <1>0, <3>1, <3>2, <3>3 DEF NetworkTypes
  <2>6. \A k \in 1 .. Len(sq') : buf'[sq'[k]] \in Blocks /\ buf'[sq'[k]] < sendcnt'
    BY <2>4, <2>5
  <2>7. /\ \A k \in 1 .. Len(link) : link[k] \in Blocks /\ link[k] < sendcnt'
        /\ \A b \in delivered : b \in Blocks /\ b < sendcnt'
        /\ \A k \in 1 .. Len(tcp) : \A m \in 1 .. Len(tcp[k].seqs) : tcp[k].seqs[m] \in Blocks
    BY <1>0, <2>3 DEF WireInv
  <2> QED
    BY <2>1, <2>6, <2>7 DEF WireInv, Posted
<1>4. CASE Network
  <2>1. UNCHANGED <<sendcnt, buf, delivered, tcp>>
    BY <1>4 DEF Network, NicSend, NicLose, NicNotReady, senderVars, recvVars
  <2>2. \A k \in 1 .. Len(sq') : Posted(buf[sq'[k]])
    <3>1. sq' = sq \/ (sq # <<>> /\ sq' = Tail(sq))
      BY <1>4 DEF Network, NicSend, NicLose, NicNotReady
    <3> QED
      BY <1>0, <1>c, <3>1 DEF WireInv
  <2>3. \A k \in 1 .. Len(link') : Posted(link'[k])
    <3>1. CASE NicSend
      <4>1. sq # <<>> /\ link' = Append(link, buf[Head(sq)]) /\ Posted(buf[Head(sq)])
        BY <1>0, <1>c, <3>1 DEF NicSend, WireInv
      <4>2. buf[Head(sq)] \in Nat
        BY <4>1 DEF Posted, Blocks
      <4>3. /\ Len(link') = Len(link) + 1 /\ Len(link) \in Nat
            /\ \A k \in 1 .. Len(link) : link'[k] = link[k]
            /\ link'[Len(link) + 1] = buf[Head(sq)]
        BY <1>0, <4>1, <4>2, AppendProperties, LenProperties DEF NetworkTypes
      <4> QED
        BY <1>0, <4>1, <4>3 DEF WireInv
    <3>2. CASE ~NicSend
      BY <1>0, <1>4, <3>2 DEF Network, NicLose, NicNotReady, WireInv
    <3> QED
      BY <3>1, <3>2
  <2> QED
    BY <1>0, <2>1, <2>2, <2>3 DEF WireInv, Posted
<1>5. ASSUME NEW pc, Take(pc) PROVE WireInv'
  <2>1. UNCHANGED <<sendcnt, buf, sq, tcp>>
    BY <1>5 DEF Take, senderVars, nicVars
  <2>2. /\ link # <<>> /\ link' = Tail(link) /\ delivered' = delivered \cup {Head(link)}
    BY <1>5 DEF Take
  <2>3. /\ Len(Tail(link)) = Len(link) - 1 /\ Len(link) \in Nat \ {0} /\ Head(link) = link[1]
        /\ \A k \in 1 .. Len(link) - 1 : Tail(link)[k] = link[k + 1]
    BY <1>0, <2>2, HeadTailProperties, EmptySeq DEF NetworkTypes
  <2> QED
    BY <1>0, <2>1, <2>2, <2>3 DEF WireInv, Posted
<1>6. ASSUME NEW t \in BOOLEAN, RSendList(t) PROVE WireInv'
  <2>1. UNCHANGED <<sendcnt, buf, sq, link, delivered>> /\ UseMessage
    BY <1>6 DEF RSendList, SendsList, senderVars, nicVars
  <2>2. PICK s \in Seq(Blocks) : tcp' = Append(tcp, ListMsg(s))
    BY <1>6, <2>1, SentList
  <2>3. ListMsg(s) \in Messages /\ ListMsg(s).seqs = s
    <3>1. s \in Seq(Nat)
      BY SeqMonotonic DEF Blocks
    <3> QED
      BY <3>1 DEF ListMsg, Messages
  <2>4. /\ Len(tcp') = Len(tcp) + 1 /\ Len(tcp) \in Nat
        /\ \A k \in 1 .. Len(tcp) : tcp'[k] = tcp[k]
        /\ tcp'[Len(tcp) + 1] = ListMsg(s)
    BY <1>0, <2>2, <2>3, AppendProperties, LenProperties DEF NetworkTypes
  <2>5. \A m \in 1 .. Len(s) : s[m] \in Blocks
    BY ElementOfSeq
  <2>6. \A k \in 1 .. Len(tcp') : \A m \in 1 .. Len(tcp'[k].seqs) : tcp'[k].seqs[m] \in Blocks
    BY <1>0, <2>3, <2>4, <2>5 DEF WireInv
  <2> QED
    BY <1>0, <2>1, <2>6 DEF WireInv, Posted
<1>7. ASSUME UNCHANGED <<sendcnt, buf, sq, link, delivered, tcp>> PROVE WireInv'
  BY <1>0, <1>7 DEF WireInv, Posted
<1>8. CASE REndBatch \/ RTimeout \/ ROverflow
  <2>1. \/ \E t \in BOOLEAN : RSendList(t)
        \/ UNCHANGED <<senderVars, nicVars, link, delivered, tcp>>
    BY <1>8 DEF REndBatch, RTimeout, ROverflow, RNoList, RSendFails
  <2> QED
    BY <1>6, <1>7, <2>1 DEF senderVars, nicVars
<1>9. CASE RNext
  <2>1. /\ UNCHANGED <<sendcnt, buf, sq, link, delivered>> /\ tcp' = Append(tcp, FileInfo)
    BY <1>9 DEF RNext, senderVars, nicVars
  <2>2. FileInfo \in Messages /\ Len(FileInfo.seqs) = 0
    BY EmptySeq DEF FileInfo, Messages
  <2>3. /\ Len(tcp') = Len(tcp) + 1 /\ Len(tcp) \in Nat
        /\ \A k \in 1 .. Len(tcp) : tcp'[k] = tcp[k]
        /\ tcp'[Len(tcp) + 1] = FileInfo
    BY <1>0, <2>1, <2>2, AppendProperties, LenProperties DEF NetworkTypes
  <2>4. \A k \in 1 .. Len(tcp') : \A m \in 1 .. Len(tcp'[k].seqs) : tcp'[k].seqs[m] \in Blocks
    BY <1>0, <2>2, <2>3 DEF WireInv
  <2> QED
    BY <1>0, <2>1, <2>4 DEF WireInv, Posted
<1>10. CASE UNCHANGED vars
  BY <1>7, <1>10 DEF vars, senderVars, nicVars, recvVars
<1> QED
  BY <1>1, <1>2, <1>3, <1>4, <1>5, <1>8, <1>9, <1>10
  DEF Next, Sender, Receiver, RDuplicate, RInOrder, RFillFront, RFillInside, RAhead,
      RAssertFails, RCount

\* Counting a block for the first time, or not at all.
LEMMA CountOne ==
    ASSUME DequeInv, maxSeq \in Int, delivered \subseteq Nat, NEW b
    PROVE  Cardinality(delivered \cup {b}) =
              IF b \in delivered THEN recvNum ELSE recvNum + 1
<1>1. IsFiniteSet(0 .. maxSeq)
  <2>1. 0 \in Int
    OBVIOUS
  <2> QED
    BY <2>1, FS_Interval, Zenon
<1>a. delivered \subseteq 0 .. maxSeq
  <2>1. \A c \in delivered : c \in Nat /\ c <= maxSeq
    BY DEF DequeInv
  <2>2. \A c \in Nat : c <= maxSeq => c \in 0 .. maxSeq
    OBVIOUS
  <2> QED
    BY <2>1, <2>2
<1>2. IsFiniteSet(delivered)
  BY <1>1, <1>a, FS_Subset, Zenon
<1> QED
  BY <1>2, FS_AddElement DEF DequeInv

\* DequeInv is preserved.
LEMMA DequeStep ==
    IInv /\ Sound /\ UseMessage /\ [Next]_vars /\ TypeOK' /\ Sound' => DequeInv'
<1> SUFFICES ASSUME IInv, Sound, UseMessage, [Next]_vars, TypeOK', Sound' PROVE DequeInv'
  OBVIOUS
<1> USE NumBlocksAssumption
<1>0. /\ DequeInv /\ WireInv
      /\ expect \in Nat /\ maxSeq \in Nat \cup {-1} /\ recvNum \in Nat
      /\ deque \in Seq(Items) /\ Len(deque) \in Nat /\ DOMAIN deque = 1 .. Len(deque)
      /\ delivered \subseteq Nat /\ link \in Seq(Nat)
  BY LenProperties DEF IInv, TypeOK, ReceiverTypes, NetworkTypes
<1>1. ASSUME UNCHANGED <<recvNum, expect, maxSeq, deque, delivered>> PROVE DequeInv'
  BY <1>0, <1>1 DEF DequeInv
<1> DEFINE id == Head(link)
<1>2. ASSUME NEW pc, Take(pc)
      PROVE  /\ id \in Nat /\ id <= Last /\ delivered' = delivered \cup {id}
             /\ Cardinality(delivered') = IF id \in delivered THEN recvNum ELSE recvNum + 1
  <2>1. link # <<>> /\ delivered' = delivered \cup {id}
    BY <1>2 DEF Take
  <2>2. Len(link) \in Nat \ {0} /\ id = link[1]
    BY <1>0, <2>1, EmptySeq
  <2>3. id \in Blocks
    BY <1>0, <2>2 DEF WireInv, Posted
  <2> HIDE DEF id
  <2>4. Cardinality(delivered \cup {id}) = IF id \in delivered THEN recvNum ELSE recvNum + 1
    BY <1>0, CountOne
  <2> QED
    BY <2>1, <2>3, <2>4 DEF Blocks, Last
<1>3. \A k \in Nat : expect <= k /\ k <= maxSeq =>
         /\ k - expect + 1 \in 1 .. Len(deque)
         /\ (deque[k - expect + 1].recved <=> k \in delivered)
         /\ deque[k - expect + 1].seq = k
  <2> TAKE k \in Nat
  <2> HAVE expect <= k /\ k <= maxSeq
  <2>1. k - expect + 1 \in 1 .. Len(deque) /\ expect + (k - expect + 1) - 1 = k
    BY <1>0 DEF DequeInv
  <2> QED
    BY <1>0, <2>1 DEF DequeInv
<1>4. CASE RDuplicate
  <2>1. /\ Take("batch") /\ UNCHANGED <<recvNum, expect, maxSeq, deque>>
        /\ \/ id < expect
           \/ id > expect /\ id < maxSeq /\ Known(id)
           \/ id > expect /\ id = maxSeq
    BY <1>4 DEF RDuplicate
  <2>2. id \in Nat /\ delivered' = delivered \cup {id}
    BY <1>2, <2>1
  <2> HIDE DEF id
  <2>3. id \in delivered
    <3>1. id > expect /\ id < maxSeq /\ Known(id) => id \in delivered
      <4>a. id > expect /\ id < maxSeq => expect <= id /\ id <= maxSeq
        <5>1. \A a, b, c \in Int : b < a /\ a < c => b <= a /\ a <= c
          OBVIOUS
        <5> QED
          BY <1>0, <2>2, <5>1
      <4>1. id > expect /\ id < maxSeq => (deque[id - expect + 1].recved <=> id \in delivered)
        BY <1>3, <2>2, <4>a, Zenon
      <4>2. Known(id) => deque[id - expect + 1].recved
        BY DEF Known, Slot
      <4> QED
        BY <4>1, <4>2
    <3> QED
      BY <1>0, <2>1, <2>2, <3>1 DEF DequeInv
  <2>4. delivered' = delivered
    BY <2>2, <2>3
  <2> QED
    BY <1>1, <2>1, <2>4
<1>5. CASE RInOrder
  <2>1. /\ Take("batch") /\ id = expect /\ expect > maxSeq
        /\ expect' = expect + 1 /\ maxSeq' = id /\ recvNum' = recvNum + 1 /\ deque' = deque
    BY <1>5 DEF RInOrder
  <2>2. /\ id \in Nat /\ id <= Last /\ delivered' = delivered \cup {id}
        /\ Cardinality(delivered') = IF id \in delivered THEN recvNum ELSE recvNum + 1
    BY <1>2, <2>1
  <2> HIDE DEF id
  <2>3. id = maxSeq + 1 /\ id \notin delivered /\ Len(deque) = 0
    BY <1>0, <2>1, <2>2 DEF DequeInv
  <2>4. /\ \A b \in Nat : b < expect' => b \in delivered'
        /\ \A b \in delivered' : b <= maxSeq'
        /\ recvNum' = Cardinality(delivered')
    BY <1>0, <2>1, <2>2, <2>3 DEF DequeInv
  <2> QED
    BY <1>0, <2>1, <2>2, <2>3, <2>4 DEF DequeInv
<1>6. CASE RFillFront
  <2>1. /\ Take("batch") /\ id = expect /\ expect <= maxSeq
        /\ recvNum' = recvNum + 1 /\ maxSeq' = maxSeq
    BY <1>6 DEF RFillFront
  <2>2. PICK p \in 1 .. Len(deque) :
           /\ \A j \in 2 .. p : deque[j].recved
           /\ p < Len(deque) => ~deque[p + 1].recved
           /\ deque' = SubSeq(deque, p + 1, Len(deque))
           /\ expect' = expect + p
    BY <1>6 DEF RFillFront
  <2>3. /\ id \in Nat /\ delivered' = delivered \cup {id}
        /\ Cardinality(delivered') = IF id \in delivered THEN recvNum ELSE recvNum + 1
    BY <1>2, <2>1
  <2> HIDE DEF id
  <2>4. /\ Len(deque') = Len(deque) - p
        /\ \A j \in 1 .. Len(deque) - p : deque'[j] = deque[j + p]
    <3>1. p + 1 \in Int /\ Len(deque) \in Int
          /\ \A i \in p + 1 .. Len(deque) : deque[i] \in Items
      BY <1>0, ElementOfSeq
    <3>2. /\ Len(deque') = IF p + 1 <= Len(deque) THEN Len(deque) - (p + 1) + 1 ELSE 0
          /\ \A j \in 1 .. Len(deque) - (p + 1) + 1 : deque'[j] = deque[(p + 1) + j - 1]
      BY <2>2, <3>1, SubSeqProperties
    <3>3. Len(deque) - (p + 1) + 1 = Len(deque) - p
      BY <1>0
    <3>4. Len(deque') = Len(deque) - p
      <4>1. CASE p + 1 <= Len(deque)
        BY <3>2, <3>3, <4>1, Zenon
      <4>2. CASE ~(p + 1 <= Len(deque))
        <5>1. Len(deque) - p = 0
          <6>1. \A n \in Nat : \A q \in 1 .. n : ~(q + 1 <= n) => n - q = 0
            OBVIOUS
          <6>2. Len(deque) \in Nat
            BY <1>0, Zenon
          <6> QED
            BY <4>2, <6>1, <6>2, Zenon
        <5> QED
          BY <3>2, <4>2, <5>1, Zenon
      <4> QED
        BY <4>1, <4>2
    <3>5. ASSUME NEW j \in 1 .. Len(deque) - p PROVE deque'[j] = deque[j + p]
      <4>1. j \in 1 .. Len(deque) - (p + 1) + 1
        BY <3>3
      <4>2. (p + 1) + j - 1 = j + p
        <5>1. \A a, c \in Int : (a + 1) + c - 1 = c + a
          OBVIOUS
        <5>2. p \in Int /\ j \in Int
          OBVIOUS
        <5> QED
          BY <5>1, <5>2, Zenon
      <4> QED
        BY <3>2, <4>1, <4>2
    <3> QED
      BY <3>4, <3>5
  <2>5. id \notin delivered /\ maxSeq \in delivered /\ Len(deque) = maxSeq + 1 - expect
    BY <1>0, <2>1 DEF DequeInv
  <2>6. recvNum' = Cardinality(delivered')
    BY <2>1, <2>3, <2>5
  <2>7. \A b \in Nat : b < expect' => b \in delivered'
    <3>1. ASSUME NEW j \in 2 .. p PROVE expect + j - 1 \in delivered
      <4>1. j \in 1 .. Len(deque) /\ deque[j].recved
        BY <1>0, <2>2
      <4> QED
        BY <1>0, <4>1 DEF DequeInv
    <3>2. \A b \in Nat : expect < b /\ b < expect + p => b \in delivered
      <4>1. \A b \in Nat : expect < b /\ b < expect + p =>
               b - expect + 1 \in 2 .. p /\ b = expect + (b - expect + 1) - 1
        BY <1>0
      <4> QED
        BY <3>1, <4>1
    <3> QED
      BY <1>0, <2>1, <2>2, <2>3, <3>2 DEF DequeInv
  <2>8. \A j \in 1 .. Len(deque') :
           deque'[j].seq = expect' + j - 1 /\ (deque'[j].recved <=> expect' + j - 1 \in delivered')
    <3>1. \A j \in 1 .. Len(deque) - p :
             /\ j + p \in 1 .. Len(deque)
             /\ expect + (j + p) - 1 = expect' + j - 1
             /\ expect' + j - 1 # id
      BY <1>0, <2>1, <2>2
    <3> QED
      BY <1>0, <2>3, <2>4, <3>1 DEF DequeInv
  <2>9. expect' <= maxSeq' => expect' \notin delivered'
    <3>1. expect' <= maxSeq' => p < Len(deque) /\ expect + (p + 1) - 1 = expect'
      BY <1>0, <2>1, <2>2, <2>5
    <3>2. p < Len(deque) => expect + (p + 1) - 1 \notin delivered
      BY <1>0, <2>2 DEF DequeInv
    <3>3. expect' # id
      BY <1>0, <2>1, <2>2
    <3> QED
      BY <2>3, <3>1, <3>2, <3>3
  <2>10. \A b \in delivered' : b <= maxSeq'
    BY <1>0, <2>1, <2>3 DEF DequeInv
  <2>11. expect' <= maxSeq' + 1 /\ maxSeq' <= Last /\ Len(deque') = maxSeq' + 1 - expect'
    BY <1>0, <2>1, <2>2, <2>4, <2>5 DEF DequeInv
  <2> QED
    BY <2>1, <2>3, <2>5, <2>6, <2>7, <2>8, <2>9, <2>10, <2>11 DEF DequeInv
<1>7. CASE RFillInside
  <2>1. /\ Take("batch") /\ id > expect /\ id < maxSeq /\ ~Known(id)
        /\ Slot(id) \in DOMAIN deque
        /\ deque' = [deque EXCEPT ![Slot(id)].recved = TRUE]
        /\ recvNum' = recvNum + 1 /\ UNCHANGED <<expect, maxSeq>>
    BY <1>7 DEF RFillInside
  <2>2. /\ id \in Nat /\ delivered' = delivered \cup {id}
        /\ Cardinality(delivered') = IF id \in delivered THEN recvNum ELSE recvNum + 1
    BY <1>2, <2>1
  <2> HIDE DEF id
  <2>3. id \notin delivered
    <3>1. deque[id - expect + 1].recved <=> id \in delivered
      <4>1. expect <= id /\ id <= maxSeq
        BY <1>0, <2>1, <2>2
      <4> QED
        BY <1>3, <2>2, <4>1
    <3>2. ~deque[id - expect + 1].recved
      BY <2>1 DEF Known, Slot
    <3> QED
      BY <3>1, <3>2
  <2>4. Len(deque') = Len(deque) /\ DOMAIN deque' = DOMAIN deque
    BY <1>0, <2>1, LenProperties
  <2>5. ASSUME NEW j \in 1 .. Len(deque')
        PROVE  deque'[j].seq = expect' + j - 1
               /\ (deque'[j].recved <=> expect' + j - 1 \in delivered')
    <3>1. deque[j] \in Items
      BY <1>0, <2>4, <2>5, ElementOfSeq
    <3>2. CASE j = Slot(id)
      <4>1. deque'[j] = [deque[j] EXCEPT !.recved = TRUE]
        BY <1>0, <2>1, <2>4, <2>5, <3>2
      <4>2. deque'[j].seq = deque[j].seq /\ deque'[j].recved = TRUE
        BY <3>1, <4>1 DEF Items
      <4>3. expect + j - 1 = id
        BY <1>0, <2>2, <3>2 DEF Slot
      <4> QED
        BY <1>0, <2>1, <2>2, <2>4, <2>5, <4>2, <4>3 DEF DequeInv
    <3>3. CASE j # Slot(id)
      <4>1. deque'[j] = deque[j]
        BY <1>0, <2>1, <2>4, <2>5, <3>3
      <4>2. expect + j - 1 # id
        BY <1>0, <2>2, <3>3 DEF Slot
      <4> QED
        BY <1>0, <2>1, <2>2, <2>4, <2>5, <4>1, <4>2 DEF DequeInv
    <3> QED
      BY <3>2, <3>3
  <2>6. recvNum' = Cardinality(delivered')
    BY <2>1, <2>2, <2>3
  <2>7. \A b \in delivered' : b <= maxSeq'
    BY <1>0, <2>1, <2>2 DEF DequeInv
  <2> QED
    BY <1>0, <2>1, <2>2, <2>4, <2>5, <2>6, <2>7 DEF DequeInv
<1>8. CASE RAhead
  <2> DEFINE gap == Gap(maxSeq + 1, id - 1)
             new == <<[seq |-> id, recved |-> TRUE]>>
  <2>1. /\ Take("batch") /\ id > expect /\ id > maxSeq
        /\ deque' = (deque \o gap) \o new
        /\ maxSeq' = id /\ recvNum' = recvNum + 1 /\ expect' = expect
    BY <1>8 DEF RAhead
  <2>2. /\ id \in Nat /\ id <= Last /\ delivered' = delivered \cup {id}
        /\ Cardinality(delivered') = IF id \in delivered THEN recvNum ELSE recvNum + 1
    BY <1>2, <2>1
  <2> HIDE DEF id
  <2>3. id \notin delivered /\ recvNum' = Cardinality(delivered')
    BY <1>0, <2>1, <2>2 DEF DequeInv
  <2> DEFINE g == id - 1 - maxSeq
             n == Len(deque)
  <2>4. g \in Nat /\ (id - 1) - (maxSeq + 1) + 1 = g /\ maxSeq + 1 \in Nat /\ id - 1 \in Int
    BY <1>0, <2>1, <2>2
  <2>5. /\ gap \in Seq(Items) /\ Len(gap) = g
        /\ \A j \in 1 .. g : gap[j] = [seq |-> (maxSeq + 1) + j - 1, recved |-> FALSE]
    BY <2>4, GapProperties
  <2>6. new \in Seq(Items) /\ Len(new) = 1 /\ new[1] = [seq |-> id, recved |-> TRUE]
    BY <2>2 DEF Items
  <2> HIDE DEF gap, new
  <2>7. /\ deque \o gap \in Seq(Items) /\ Len(deque \o gap) = n + g
        /\ \A j \in 1 .. n + g : (deque \o gap)[j] = IF j <= n THEN deque[j] ELSE gap[j - n]
    <3>1. /\ deque \o gap \in Seq(Items) /\ Len(deque \o gap) = n + Len(gap)
          /\ \A j \in 1 .. n + Len(gap) :
                (deque \o gap)[j] = IF j <= n THEN deque[j] ELSE gap[j - n]
      BY <1>0, <2>5, ConcatProperties, Zenon
    <3> QED
      BY <2>5, <3>1, Zenon
  <2>8. /\ Len(deque') = n + g + 1
        /\ \A j \in 1 .. n + g + 1 :
              deque'[j] = IF j <= n + g THEN (deque \o gap)[j] ELSE new[j - (n + g)]
    <3>1. /\ Len((deque \o gap) \o new) = Len(deque \o gap) + Len(new)
          /\ \A j \in 1 .. Len(deque \o gap) + Len(new) : ((deque \o gap) \o new)[j] =
                IF j <= Len(deque \o gap) THEN (deque \o gap)[j] ELSE new[j - Len(deque \o gap)]
      BY <2>6, <2>7, ConcatProperties
    <3> QED
      BY <2>1, <2>6, <2>7, <3>1
  <2>9. n = maxSeq + 1 - expect /\ n \in Nat /\ n + g = id - expect
    BY <1>0, <2>2 DEF DequeInv
  <2>10. ASSUME NEW j \in 1 .. Len(deque')
         PROVE  deque'[j].seq = expect' + j - 1
                /\ (deque'[j].recved <=> expect' + j - 1 \in delivered')
    <3>1. CASE j <= n
      <4>1. deque'[j] = deque[j] /\ j \in 1 .. Len(deque) /\ expect + j - 1 # id
        BY <1>0, <2>1, <2>2, <2>4, <2>7, <2>8, <2>9, <3>1
      <4> QED
        BY <1>0, <2>1, <2>2, <4>1 DEF DequeInv
    <3>2. CASE n < j /\ j <= n + g
      <4>1. j - n \in 1 .. g /\ j \in 1 .. n + g /\ j \in 1 .. n + g + 1
        BY <2>4, <2>8, <2>9, <3>2
      <4>2. deque'[j] = gap[j - n]
        <5>1. deque'[j] = (deque \o gap)[j]
          BY <2>8, <3>2, <4>1
        <5>2. ~(j <= n)
          BY <2>9, <3>2, <4>1
        <5> QED
          BY <2>7, <4>1, <5>1, <5>2
      <4>3. deque'[j] = [seq |-> (maxSeq + 1) + (j - n) - 1, recved |-> FALSE]
        BY <2>5, <4>1, <4>2
      <4>4. (maxSeq + 1) + (j - n) - 1 = expect + j - 1 /\ expect + j - 1 > maxSeq
            /\ expect + j - 1 # id
        BY <1>0, <2>2, <2>4, <2>9, <3>2
      <4>5. expect + j - 1 \notin delivered'
        BY <1>0, <2>2, <4>4 DEF DequeInv
      <4> QED
        BY <2>1, <4>3, <4>4, <4>5
    <3>3. CASE j = n + g + 1
      <4>1. deque'[j] = [seq |-> id, recved |-> TRUE]
        <5>1. j \in 1 .. n + g + 1 /\ ~(j <= n + g) /\ j - (n + g) = 1
          BY <2>4, <2>9, <3>3
        <5> QED
          BY <2>6, <2>8, <5>1
      <4>2. expect + j - 1 = id
        BY <1>0, <2>2, <2>9, <3>3
      <4> QED
        BY <2>1, <2>2, <4>1, <4>2
    <3> QED
      BY <2>4, <2>8, <2>9, <3>1, <3>2, <3>3
  <2>11. expect' \notin delivered' /\ maxSeq' \in delivered'
    BY <1>0, <2>1, <2>2 DEF DequeInv
  <2>12. /\ expect' <= maxSeq' + 1 /\ maxSeq' <= Last /\ Len(deque') = maxSeq' + 1 - expect'
    BY <1>0, <2>1, <2>2, <2>8, <2>9
  <2>13. /\ \A b \in Nat : b < expect' => b \in delivered'
         /\ \A b \in delivered' : b <= maxSeq'
    BY <1>0, <2>1, <2>2 DEF DequeInv
  <2> QED
    BY <2>3, <2>10, <2>11, <2>12, <2>13 DEF DequeInv
<1>9. CASE RAssertFails
  <2>1. /\ Take("aborted")
        /\ \/ id = expect /\ expect <= maxSeq /\ ~FrontAsserts(id)
           \/ id > expect /\ id < maxSeq /\ Slot(id) \notin DOMAIN deque
    BY <1>9 DEF RAssertFails
  <2>2. id \in Nat
    BY <1>2, <2>1
  <2> HIDE DEF id
  <2>3. ~(id > expect /\ id < maxSeq /\ Slot(id) \notin DOMAIN deque)
    BY <1>0, <1>3, <2>2 DEF Slot
  <2>4. ASSUME id = expect, expect <= maxSeq PROVE FrontAsserts(id)
    <3>1. 1 \in 1 .. Len(deque) /\ deque[1].seq = expect
      BY <1>0, <2>4 DEF DequeInv
    <3>2. expect # maxSeq /\ deque # <<>>
      BY <1>0, <2>4, <3>1 DEF DequeInv
    <3> QED
      BY <2>4, <3>1, <3>2 DEF FrontAsserts
  <2> QED
    BY <2>1, <2>3, <2>4
<1>10. CASE RCount
  BY <1>10 DEF RCount
<1>11. ASSUME NEW t \in BOOLEAN, RSendList(t) PROVE DequeInv'
  BY <1>1, <1>11, SentList DEF RSendList
<1>12. CASE REndBatch \/ RTimeout \/ ROverflow \/ RNext
  <2>1. \/ \E t \in BOOLEAN : RSendList(t)
        \/ UNCHANGED <<recvNum, expect, maxSeq, deque, delivered>>
    BY <1>12 DEF REndBatch, RTimeout, ROverflow, RNoList, RSendFails, RNext
  <2> QED
    BY <1>1, <1>11, <2>1
<1>13. CASE Sender \/ Network \/ UNCHANGED vars
  <2>1. UNCHANGED recvVars
    BY <1>13 DEF Sender, SRecvFinish, SRecvList, SAssertFails, SRecvGarbage, SPeerGone, SWait, Post,
                 SPoll, SJoin, Network, NicSend, NicLose, NicNotReady, vars
  <2> QED
    BY <1>1, <2>1 DEF recvVars
<1> QED
  BY <1>4, <1>5, <1>6, <1>7, <1>8, <1>9, <1>10, <1>12, <1>13 DEF Next, Receiver

\* Enough blocks counted means the file is complete.
LEMMA CountedAll ==
    ASSUME DequeInv, maxSeq \in Int, delivered \subseteq Nat, recvNum >= NumBlocks
    PROVE  delivered = Blocks /\ recvNum = NumBlocks
<1> USE NumBlocksAssumption
<1>1. IsFiniteSet(Blocks) /\ Cardinality(Blocks) = NumBlocks
  BY FS_Interval DEF Blocks
<1>2. delivered \subseteq Blocks
  BY DEF DequeInv, Blocks, Last
<1>3. /\ IsFiniteSet(delivered) /\ Cardinality(delivered) <= NumBlocks
      /\ Cardinality(Blocks) = Cardinality(delivered) => Blocks = delivered
  BY <1>1, <1>2, FS_Subset
<1>4. Cardinality(delivered) \in Nat /\ recvNum = Cardinality(delivered)
  BY <1>3, FS_CardinalityType DEF DequeInv
<1> QED
  BY <1>1, <1>3, <1>4

\* DoneInv is preserved.
LEMMA DoneStep ==
    IInv /\ Sound /\ UseMessage /\ [Next]_vars /\ TypeOK' /\ Sound' /\ DequeInv' /\ WireInv' => DoneInv'
<1> SUFFICES ASSUME IInv, Sound, UseMessage, [Next]_vars, TypeOK', Sound', DequeInv', WireInv'
             PROVE  DoneInv'
  OBVIOUS
<1> USE NumBlocksAssumption
<1>0. /\ LoopInv /\ WireInv /\ DequeInv /\ DoneInv /\ ExactSize
      /\ SenderTypes /\ NetworkTypes /\ ReceiverTypes /\ ReceiverTypes'
      /\ tcp \in Seq(Messages) /\ Len(tcp) \in Nat
  BY LenProperties DEF IInv, Sound, TypeOK, NetworkTypes
<1>1. tcp # <<>> => /\ Len(Tail(tcp)) = Len(tcp) - 1 /\ Head(tcp) = tcp[1] /\ 1 \in 1 .. Len(tcp)
                    /\ \A k \in 1 .. Len(tcp) - 1 : Tail(tcp)[k] = tcp[k + 1]
  BY <1>0, HeadTailProperties, EmptySeq
<1>2. ASSUME tcp' = tcp \/ (tcp # <<>> /\ tcp' = Tail(tcp)), UNCHANGED delivered
      PROVE  \A k \in 1 .. Len(tcp') : tcp'[k] = ListMsg(<<>>) => delivered' = Blocks
  BY <1>0, <1>1, <1>2 DEF DoneInv
<1>3. \A m : Len(tcp) \in Nat /\ m \in Messages =>
         /\ Len(Append(tcp, m)) = Len(tcp) + 1
         /\ \A k \in 1 .. Len(tcp) : Append(tcp, m)[k] = tcp[k]
         /\ Append(tcp, m)[Len(tcp) + 1] = m
  BY <1>0, AppendProperties
<1>4. CASE SRecvFinish
  <2>1. /\ spc = "loop" /\ tcp # <<>> /\ Head(tcp) = ListMsg(<<>>) /\ tcp' = Tail(tcp)
        /\ UNCHANGED <<sendcnt, sq, scq, delivered, rpc, recvNum>>
    BY <1>4 DEF SRecvFinish, nicVars, recvVars
  <2>2. delivered = Blocks
    BY <1>0, <1>1, <2>1 DEF DoneInv
  <2>3. sendcnt >= NumBlocks
    <3>1. Last \in delivered
      BY <2>2 DEF Last, Blocks
    <3> QED
      BY <1>0, <3>1 DEF WireInv, Posted, Last, SenderTypes
  <2>4. Acked >= NumBlocks
    BY <1>0, <2>1, <2>3 DEF LoopInv, SenderTypes
  <2> QED
    BY <1>0, <1>2, <2>1, <2>2, <2>4 DEF DoneInv, RecvDone, Acked, Outstanding
<1>5. CASE SRecvList \/ SAssertFails \/ SRecvGarbage \/ SPeerGone \/ SWait
  <2>1. /\ tcp' = tcp \/ (tcp # <<>> /\ tcp' = Tail(tcp))
        /\ UNCHANGED <<delivered, rpc, recvNum>> /\ spc' \notin {"join", "finished"}
    BY <1>5 DEF SRecvList, SAssertFails, SRecvGarbage, SPeerGone, SWait, recvVars
  <2> QED
    BY <1>0, <1>2, <2>1 DEF DoneInv, RecvDone, SendDone
<1>6. CASE Post \/ SPoll
  <2>1. /\ tcp' = tcp
        /\ UNCHANGED <<delivered, rpc, recvNum>> /\ spc' \notin {"join", "finished"}
    BY <1>6 DEF Post, SPoll, recvVars
  <2> QED
    BY <1>0, <2>1 DEF DoneInv, RecvDone, SendDone
<1>7. CASE SJoin
  <2>1. /\ tcp' = tcp /\ spc = "join"
        /\ UNCHANGED <<delivered, rpc, recvNum, sendcnt, sq, scq>>
    BY <1>7 DEF SJoin, recvVars, nicVars
  <2> QED
    BY <1>0, <2>1 DEF DoneInv, RecvDone, SendDone, Acked, Outstanding
<1>8. CASE Network
  <2>1. UNCHANGED <<senderVars, recvVars, tcp>>
    BY <1>8 DEF Network, NicSend, NicLose, NicNotReady
  <2>2. Outstanding' = Outstanding
    <3>1. sq # <<>> => Len(Tail(sq)) = Len(sq) - 1
      BY <1>0, HeadTailProperties DEF NetworkTypes
    <3>2. Len(sq) \in Nat /\ scq \in Nat
      BY <1>0, LenProperties DEF NetworkTypes
    <3>3. \/ sq # <<>> /\ sq' = Tail(sq) /\ scq' = scq + 1
          \/ UNCHANGED <<sq, scq>>
      BY <1>8 DEF Network, NicSend, NicLose, NicNotReady
    <3> QED
      BY <3>1, <3>2, <3>3 DEF Outstanding
  <2> QED
    BY <1>0, <2>1, <2>2 DEF DoneInv, RecvDone, SendDone, Acked, senderVars, recvVars
<1>9. ASSUME Receiver PROVE SendDone' => delivered' = Blocks /\ Acked' >= NumBlocks
  <2>1. UNCHANGED <<senderVars, nicVars>>
    BY <1>9, ReceiverFrame
  <2>2. delivered \subseteq delivered'
    BY <1>9 DEF Receiver, RDuplicate, RInOrder, RFillFront, RFillInside, RAhead, RAssertFails, RCount,
       Take, REndBatch, RTimeout, RNoList, RSendList, RSendFails, ROverflow, RNext
  <2>3. delivered' \subseteq Blocks
    BY DEF WireInv, Posted
  <2>4. SendDone' => SendDone /\ Acked' = Acked
    BY <2>1 DEF SendDone, senderVars, nicVars, Acked, Outstanding
  <2> QED
    BY <1>0, <2>2, <2>3, <2>4 DEF DoneInv
<1>10. ASSUME NEW pc \in {"batch", "aborted"}, Take(pc), Receiver PROVE DoneInv'
  <2>1. UNCHANGED tcp /\ rpc' = pc /\ delivered \subseteq delivered'
    BY <1>10 DEF Take
  <2>2. delivered' \subseteq Blocks
    BY DEF WireInv, Posted
  <2> QED
    BY <1>0, <1>9, <1>10, <2>1, <2>2 DEF DoneInv, RecvDone
<1>11. ASSUME NEW t \in BOOLEAN, RSendList(t), Receiver PROVE DoneInv'
  <2>1. /\ NumBlocks - recvNum \in Nat
        /\ UNCHANGED <<delivered, recvNum>> /\ rpc' = LoopOrLeave
    BY <1>11, SentList DEF RSendList
  <2>2. PICK s \in Seq(Blocks) : Len(s) = NumBlocks - recvNum /\ tcp' = Append(tcp, ListMsg(s))
    BY <1>11, SentList
  <2>3. ListMsg(s) \in Messages
    <3>1. s \in Seq(Nat)
      BY SeqMonotonic DEF Blocks
    <3> QED
      BY <3>1 DEF ListMsg, Messages
  <2>4. ListMsg(s) = ListMsg(<<>>) => delivered = Blocks
    <3>1. ListMsg(s) = ListMsg(<<>>) => s = <<>>
      BY DEF ListMsg
    <3>2. s = <<>> => recvNum >= NumBlocks
      BY <1>0, <2>1, <2>2, EmptySeq DEF ReceiverTypes
    <3>3. recvNum >= NumBlocks => delivered = Blocks
      BY <1>0, CountedAll DEF ReceiverTypes
    <3> QED
      BY <3>1, <3>2, <3>3
  <2>5. \A k \in 1 .. Len(tcp') : tcp'[k] = ListMsg(<<>>) => delivered' = Blocks
    BY <1>0, <1>3, <2>1, <2>2, <2>3, <2>4 DEF DoneInv
  <2>6. RecvDone' => recvNum' >= NumBlocks
    BY <1>0, <2>1 DEF LoopOrLeave, RecvDone, ReceiverTypes
  <2> QED
    BY <1>9, <1>11, <2>5, <2>6 DEF DoneInv
<1>12. ASSUME NEW t \in BOOLEAN, RNoList(t) \/ RSendFails(t), Receiver PROVE DoneInv'
  <2>1. UNCHANGED <<tcp, delivered, recvNum>> /\ (rpc' = LoopOrLeave \/ rpc' = "failed")
    BY <1>12 DEF RNoList, RSendFails
  <2>2. RecvDone' => recvNum' >= NumBlocks
    BY <1>0, <2>1 DEF LoopOrLeave, RecvDone, ReceiverTypes
  <2> QED
    BY <1>0, <1>9, <1>12, <2>1, <2>2 DEF DoneInv
<1>13. CASE REndBatch \/ RTimeout
  BY <1>11, <1>12, <1>13 DEF REndBatch, RTimeout, Receiver
<1>14. CASE ROverflow
  <2>1. UNCHANGED <<tcp, delivered, recvNum>> /\ rpc' = "aborted" /\ Receiver
    BY <1>14 DEF ROverflow, Receiver
  <2> QED
    BY <1>0, <1>9, <2>1 DEF DoneInv, RecvDone
<1>15. CASE RNext
  <2>1. /\ UNCHANGED <<delivered, recvNum>> /\ rpc = "done" /\ Receiver
        /\ tcp' = Append(tcp, FileInfo)
    BY <1>15 DEF RNext, Receiver
  <2>2. FileInfo \in Messages /\ FileInfo # ListMsg(<<>>)
    BY EmptySeq DEF FileInfo, ListMsg, Messages
  <2>3. \A k \in 1 .. Len(tcp') : tcp'[k] = ListMsg(<<>>) => delivered' = Blocks
    BY <1>0, <1>3, <2>1, <2>2 DEF DoneInv
  <2> QED
    BY <1>0, <1>9, <2>1, <2>3 DEF DoneInv, RecvDone
<1>16. CASE UNCHANGED vars
  BY <1>0, <1>16 DEF vars, senderVars, nicVars, recvVars, DoneInv, RecvDone, SendDone, Acked, Outstanding
<1> QED
  BY <1>4, <1>5, <1>6, <1>7, <1>8, <1>10, <1>13, <1>14, <1>15, <1>16
  DEF Next, Sender, Receiver, RDuplicate, RInOrder, RFillFront, RFillInside, RAhead,
      RAssertFails, RCount, Take

-----------------------------------------------------------------------------
(* The theorems.                                                           *)

\* The inductive invariant holds in every reachable state.
THEOREM Inductive == Spec => []IInv
<1> USE NumBlocksAssumption, NumBuffersAssumption
<1>1. Init => IInv
  <2> SUFFICES ASSUME Init PROVE IInv
    OBVIOUS
  <2>1. TypeOK
    BY InitTypes
  <2>2. LoopInv
    BY DEF Init, LoopInv
  <2>3. WireInv
    BY DEF Init, WireInv
  <2>4. DequeInv
    BY FS_EmptySet DEF Init, DequeInv, Last
  <2>5. DoneInv
    BY DEF Init, DoneInv, RecvDone, SendDone
  <2> QED
    BY <2>1, <2>2, <2>3, <2>4, <2>5 DEF IInv
<1>2. IInv /\ [Next]_vars => IInv'
  <2> SUFFICES ASSUME IInv, [Next]_vars PROVE IInv'
    OBVIOUS
  <2>1. TypeOK'
    BY TypeStep DEF IInv
  <2>2. Sound' => Sound
    BY SoundBefore DEF IInv
  <2>3. Sound' => LoopInv' /\ WireInv'
    BY <2>1, <2>2, LoopStep, WireStep
  <2>4. Sound' /\ UseMessage => DequeInv' /\ DoneInv'
    BY <2>1, <2>2, <2>3, DequeStep, DoneStep
  <2> QED
    BY <2>1, <2>3, <2>4 DEF IInv
<1> QED
  BY <1>1, <1>2, PTL DEF Spec

\* The receiver leaves its loop with success only when every block of the file
\* has been in one of its buffers (recv_num reaching numOfBlocks, 379).
THEOREM CompleteFile == Spec => []Complete
<1>1. IInv => Complete
  <2> SUFFICES ASSUME IInv, UseMessage, Sound, RecvDone PROVE delivered = Blocks
    BY DEF Complete
  <2>1. DequeInv /\ DoneInv /\ maxSeq \in Int /\ delivered \subseteq Nat
    BY DEF IInv, TypeOK, ReceiverTypes
  <2> QED
    BY <2>1, CountedAll DEF DoneInv
<1> QED
  BY <1>1, Inductive, PTL

\* recv_num is the number of different blocks received: no duplicate is
\* counted and no block is dropped uncounted (417-466).
THEOREM CountedOnce == Spec => []RecvCount
<1>1. IInv => RecvCount
  BY DEF IInv, DequeInv, RecvCount
<1> QED
  BY <1>1, Inductive, PTL

\* The adapter never reads anything but the number of a block of the file out
\* of a buffer, although buffers are numbered before they are due (699-717).
THEOREM NumbersOfBlocks == Spec => []OnlyBlocks
<1>1. IInv => OnlyBlocks
  <2> SUFFICES ASSUME IInv, Sound, NEW k \in DOMAIN link PROVE link[k] \in Blocks
    BY DEF OnlyBlocks
  <2>1. DOMAIN link = 1 .. Len(link)
    BY LenProperties DEF IInv, TypeOK, NetworkTypes
  <2> QED
    BY <2>1 DEF IInv, WireInv, Posted
<1> QED
  BY <1>1, Inductive, PTL

\* The sender leaves its loop only when the receiver has the file, and with
\* enough completions polled for the statistic thread it joins (752-758).
THEOREM JustifiedFinish == Spec => []FinishJustified
<1>1. IInv => FinishJustified
  BY DEF IInv, DoneInv, FinishJustified
<1> QED
  BY <1>1, Inductive, PTL

-----------------------------------------------------------------------------
(* No list outgrows the space allocated for the first (647, 475).           *)

\* recv_num only grows, so each list is at most as long as those before it,
\* and restran_space is as long as the first.
ListInv ==
    /\ \A k \in 1 .. Len(tcp) : Len(tcp[k].seqs) >= NumBlocks - recvNum
    /\ \A j, k \in 1 .. Len(tcp) : j < k => Len(tcp[j].seqs) >= Len(tcp[k].seqs)
    /\ restranCap > 0 => /\ restranCap >= NumBlocks - recvNum
                         /\ \A k \in 1 .. Len(tcp) : restranCap >= Len(tcp[k].seqs)
    /\ Len(rlist) <= restranCap
    /\ RecvDone => recvNum >= NumBlocks

\* A message that asks for no less than what is missing keeps ListInv.
LEMMA ListAppend ==
    ASSUME TypeOK, ListInv, NEW m \in Messages, Len(m.seqs) = NumBlocks - recvNum \/ Len(m.seqs) = 0,
           Len(m.seqs) >= NumBlocks - recvNum, tcp' = Append(tcp, m), recvNum' = recvNum,
           UNCHANGED <<restranCap, rlist>>, RecvDone' => recvNum' >= NumBlocks
    PROVE  ListInv'
<1>1. /\ Len(tcp') = Len(tcp) + 1 /\ Len(tcp) \in Nat
      /\ \A k \in 1 .. Len(tcp) : tcp'[k] = tcp[k]
      /\ tcp'[Len(tcp) + 1] = m
  BY AppendProperties, LenProperties DEF TypeOK, NetworkTypes
<1>2. /\ \A k \in 1 .. Len(tcp) : Len(tcp[k].seqs) \in Nat
      /\ Len(m.seqs) \in Nat /\ restranCap \in Nat /\ recvNum \in Nat
  <2>1. \A k \in 1 .. Len(tcp) : tcp[k] \in Messages
    BY ElementOfSeq DEF TypeOK, NetworkTypes
  <2>2. \A x \in Messages : x.seqs \in Seq(Nat)
    BY DEF Messages
  <2> QED
    BY <2>1, <2>2, LenProperties DEF TypeOK, SenderTypes, ReceiverTypes
<1>3. \A k \in 1 .. Len(tcp) : Len(tcp[k].seqs) >= Len(m.seqs)
  BY <1>2 DEF ListInv
<1>4. restranCap > 0 => restranCap >= Len(m.seqs)
  BY <1>2 DEF ListInv
<1>5. \A j, k \in 1 .. Len(tcp') : j < k => Len(tcp'[j].seqs) >= Len(tcp'[k].seqs)
  <2> TAKE j, k \in 1 .. Len(tcp')
  <2> HAVE j < k
  <2>1. CASE k \in 1 .. Len(tcp)
    BY <1>1, <2>1 DEF ListInv
  <2>2. CASE k = Len(tcp) + 1
    <3>1. j \in 1 .. Len(tcp)
      BY <1>1, <2>2
    <3> QED
      BY <1>1, <1>3, <2>2, <3>1
  <2> QED
    BY <1>1, <2>1, <2>2
<1>6. \A k \in 1 .. Len(tcp') :
         /\ Len(tcp'[k].seqs) >= NumBlocks - recvNum
         /\ restranCap > 0 => restranCap >= Len(tcp'[k].seqs)
  BY <1>1, <1>4 DEF ListInv
<1> QED
  BY <1>5, <1>6 DEF ListInv

\* restran_space, allocated once, holds every list read into it, whatever was
\* lost and however often a list was asked for.
THEOREM ListsFit == Spec => []ListFits
<1> USE NumBlocksAssumption
<1>1. Init => ListInv
  BY DEF Init, ListInv, RecvDone
<1>2. TypeOK /\ ListInv /\ [Next]_vars /\ TypeOK' => ListInv'
  <2> SUFFICES ASSUME TypeOK, ListInv, [Next]_vars, TypeOK' PROVE ListInv'
    OBVIOUS
  <2>0. /\ tcp \in Seq(Messages) /\ Len(tcp) \in Nat /\ restranCap \in Nat
        /\ recvNum \in Nat /\ recvNum' \in Nat
    BY LenProperties DEF TypeOK, SenderTypes, NetworkTypes, ReceiverTypes
  <2>1. tcp # <<>> => /\ Len(Tail(tcp)) = Len(tcp) - 1 /\ Head(tcp) = tcp[1] /\ Len(tcp) # 0
                      /\ \A k \in 1 .. Len(tcp) - 1 : Tail(tcp)[k] = tcp[k + 1]
    BY <2>0, HeadTailProperties, EmptySeq
  <2>2. ASSUME tcp' = tcp \/ (tcp # <<>> /\ tcp' = Tail(tcp)),
               UNCHANGED <<restranCap, rlist, recvNum, rpc>>
        PROVE  ListInv'
    <3>1. CASE tcp' = tcp
      BY <2>0, <2>2, <3>1 DEF ListInv, RecvDone
    <3>2. CASE tcp # <<>> /\ tcp' = Tail(tcp)
      <4>1. /\ Len(tcp') = Len(tcp) - 1
            /\ \A k \in 1 .. Len(tcp') : tcp'[k] = tcp[k + 1] /\ k + 1 \in 1 .. Len(tcp)
        BY <2>0, <2>1, <3>2
      <4>2. \A j, k \in 1 .. Len(tcp') : j < k => j + 1 < k + 1
        OBVIOUS
      <4>3. /\ \A k \in 1 .. Len(tcp') : Len(tcp'[k].seqs) >= NumBlocks - recvNum
            /\ \A j, k \in 1 .. Len(tcp') : j < k => Len(tcp'[j].seqs) >= Len(tcp'[k].seqs)
            /\ restranCap > 0 => \A k \in 1 .. Len(tcp') : restranCap >= Len(tcp'[k].seqs)
        BY <4>1, <4>2 DEF ListInv
      <4> QED
        BY <2>2, <4>3 DEF ListInv, RecvDone
    <3> QED
      BY <2>2, <3>1, <3>2
  <2>3. CASE \/ SRecvFinish \/ SAssertFails \/ SRecvGarbage \/ SPeerGone \/ SWait \/ SJoin \/ Post
             \/ SPoll \/ Network \/ UNCHANGED vars
    BY <2>2, <2>3
    DEF SRecvFinish, SAssertFails, SRecvGarbage, SPeerGone, SWait, SJoin, Post, SPoll,
        Network, NicSend, NicLose, NicNotReady, vars, senderVars, recvVars
  <2>4. CASE SRecvList
    <3>1. /\ tcp # <<>> /\ tcp' = Tail(tcp) /\ rlist' = tcp[1].seqs /\ rlist' # <<>>
          /\ restranCap' = IF restranCap = 0 THEN Len(rlist') ELSE restranCap
          /\ UNCHANGED <<recvNum, rpc>>
      BY <2>1, <2>4 DEF SRecvList, recvVars
    <3>2. Len(rlist') \in Nat \ {0} /\ 1 \in 1 .. Len(tcp)
      BY <2>0, <2>1, <3>1, EmptySeq DEF TypeOK, SenderTypes
    <3>3. /\ Len(rlist') >= NumBlocks - recvNum
          /\ \A k \in 1 .. Len(tcp') : Len(rlist') >= Len(tcp'[k].seqs)
      BY <2>0, <2>1, <3>1, <3>2 DEF ListInv
    <3>4. restranCap > 0 => restranCap >= Len(rlist')
      BY <3>1, <3>2 DEF ListInv
    <3>5. /\ \A k \in 1 .. Len(tcp') : Len(tcp'[k].seqs) >= NumBlocks - recvNum
          /\ \A j, k \in 1 .. Len(tcp') : j < k => Len(tcp'[j].seqs) >= Len(tcp'[k].seqs)
      BY <2>0, <2>1, <3>1 DEF ListInv
    <3>6. restranCap > 0 => \A k \in 1 .. Len(tcp') : restranCap >= Len(tcp'[k].seqs)
      BY <2>0, <2>1, <3>1 DEF ListInv
    <3> QED
      BY <2>0, <3>1, <3>2, <3>3, <3>4, <3>5, <3>6 DEF ListInv, RecvDone
  <2>5. ASSUME NEW pc \in {"batch", "aborted"}, Take(pc), recvNum' >= recvNum PROVE ListInv'
    <3>1. UNCHANGED <<tcp, restranCap, rlist>> /\ rpc' = pc
      BY <2>5 DEF Take, senderVars
    <3>2. \A n \in Nat : n >= NumBlocks - recvNum => n >= NumBlocks - recvNum'
      <4>1. recvNum \in Nat /\ recvNum' \in Nat /\ recvNum' >= recvNum
        BY <2>0, <2>5
      <4>2. \A a, b, c, n \in Nat : b >= c /\ n >= a - c => n >= a - b
        OBVIOUS
      <4> QED
        BY <4>1, <4>2
    <3>3. \A k \in 1 .. Len(tcp) : Len(tcp[k].seqs) \in Nat
      <4>1. \A k \in 1 .. Len(tcp) : tcp[k] \in Messages
        BY <2>0, ElementOfSeq
      <4>2. \A x \in Messages : x.seqs \in Seq(Nat)
        BY DEF Messages
      <4> QED
        BY <4>1, <4>2, LenProperties
    <3> QED
      BY <2>0, <2>5, <3>1, <3>2, <3>3 DEF ListInv, RecvDone
  <2>6. ASSUME NEW t \in BOOLEAN, RSendList(t) PROVE ListInv'
    <3> DEFINE m == ListMsg(MissingList(deque', ListLength))
    <3>1. /\ NumBlocks - recvNum \in Nat /\ tcp' = Append(tcp, m) /\ rpc' = LoopOrLeave
          /\ UNCHANGED <<restranCap, rlist, recvNum>>
      BY <2>0, <2>6 DEF RSendList, senderVars
    <3>2. /\ MissingList(deque', ListLength) \in Seq(Nat)
          /\ Len(MissingList(deque', ListLength)) = NumBlocks - recvNum
      <4>1. deque' \in Seq(Items)
        BY DEF TypeOK, ReceiverTypes
      <4>2. \A j \in 1 .. Len(deque') : deque'[j].seq \in Nat
        <5>1. \A j \in 1 .. Len(deque') : deque'[j] \in Items
          BY <4>1, ElementOfSeq
        <5> QED
          BY <5>1 DEF Items
      <4> QED
        BY <3>1, <4>1, <4>2, MissingListType DEF ListLength
    <3>3. m \in Messages /\ Len(m.seqs) = NumBlocks - recvNum
      BY <3>2 DEF ListMsg, Messages
    <3>4. RecvDone' => recvNum' >= NumBlocks
      BY <2>0, <3>1 DEF RecvDone, LoopOrLeave
    <3> HIDE DEF m
    <3> QED
      BY <3>1, <3>3, <3>4, ListAppend
  <2>7. CASE REndBatch \/ RTimeout \/ ROverflow
    <3>1. \/ \E t \in BOOLEAN : RSendList(t)
          \/ /\ UNCHANGED <<tcp, restranCap, rlist, recvNum>>
             /\ rpc' = LoopOrLeave \/ rpc' \in {"failed", "aborted"}
      BY <2>7 DEF REndBatch, RTimeout, ROverflow, RNoList, RSendFails, senderVars
    <3>2. rpc' = LoopOrLeave /\ UNCHANGED recvNum /\ RecvDone' => recvNum' >= NumBlocks
      BY <2>0 DEF RecvDone, LoopOrLeave
    <3> QED
      BY <2>6, <3>1, <3>2 DEF ListInv, RecvDone
  <2>8. CASE RNext
    <3>1. /\ tcp' = Append(tcp, FileInfo) /\ UNCHANGED <<restranCap, rlist, recvNum>>
          /\ recvNum >= NumBlocks
      BY <2>8 DEF RNext, senderVars, ListInv, RecvDone
    <3>2. FileInfo \in Messages /\ Len(FileInfo.seqs) = 0 /\ 0 >= NumBlocks - recvNum
      BY <2>0, <3>1, EmptySeq DEF FileInfo, Messages
    <3> QED
      BY <3>1, <3>2, ListAppend
  <2>9. CASE RDuplicate \/ RInOrder \/ RFillFront \/ RFillInside \/ RAhead \/ RAssertFails \/ RCount
    <3>1. \E pc \in {"batch", "aborted"} : Take(pc) /\ recvNum' >= recvNum
      BY <2>0, <2>9 DEF RDuplicate, RInOrder, RFillFront, RFillInside, RAhead, RAssertFails, RCount
    <3> QED
      BY <2>5, <3>1
  <2> QED
    BY <2>3, <2>4, <2>7, <2>8, <2>9 DEF Next, Sender, Receiver
<1>3. ListInv => ListFits
  BY DEF ListInv, ListFits
<1> QED
  BY <1>1, <1>2, <1>3, TypeCorrect, PTL DEF Spec

-----------------------------------------------------------------------------
(* The reliable transport.                                                 *)

\* Without lists the sender makes one pass, and a block posted is in the send
\* queue, in the receiver's queue, or counted.
RcInv ==
    ~UseMessage =>
        /\ ~sRestran /\ blocksLeft = NumBlocks - sendcnt
        /\ ~wcError => recvNum + Len(link) + Len(sq) = sendcnt
        /\ SendDone => Len(sq) = 0 /\ blocksLeft = 0

\* RC: as long as the queue pair is not in error no block is lost or invented,
\* and a sender that is done has brought all of them across (695-753, 462).
THEOREM RcKeepsAll == Spec => []RcConserves
<1> USE NumBlocksAssumption, NumBuffersAssumption
<1>1. Init => RcInv
  BY DEF Init, RcInv, SendDone
<1>2. TypeOK /\ RcInv /\ [Next]_vars /\ TypeOK' => RcInv'
  <2> SUFFICES ASSUME TypeOK, RcInv, [Next]_vars, TypeOK', ~UseMessage PROVE RcInv'
    BY DEF RcInv
  <2>0. /\ sendcnt \in Nat /\ blocksLeft \in Int /\ scq \in Nat /\ recvNum \in Nat
        /\ sq \in Seq(0 .. NumBuffers - 1) /\ link \in Seq(Nat) /\ scq' \in Nat
        /\ Len(sq) \in Nat /\ Len(link) \in Nat /\ cur \in 0 .. NumBuffers - 1
    BY LenProperties DEF TypeOK, SenderTypes, NetworkTypes, ReceiverTypes
  <2>1. CASE Post
    <3>1. /\ sendcnt' = sendcnt + 1 /\ blocksLeft' = blocksLeft - 1 /\ sq' = Append(sq, cur)
          /\ spc' = "poll" /\ ~sRestran'
          /\ UNCHANGED <<wcError, recvNum, link>>
      BY <2>1 DEF Post, RcInv, recvVars
    <3>2. Len(sq') = Len(sq) + 1
      BY <2>0, <3>1, AppendProperties
    <3> QED
      <4>1. ~SendDone'
        BY <3>1 DEF SendDone
      <4>2. blocksLeft' = NumBlocks - sendcnt'
        BY <2>0, <3>1 DEF RcInv
      <4>3. ~wcError' => recvNum' + Len(link') + Len(sq') = sendcnt'
        <5>1. recvNum' = recvNum /\ link' = link /\ wcError' = wcError /\ sendcnt' = sendcnt + 1
          BY <3>1
        <5>2. ~wcError => recvNum + Len(link) + Len(sq) = sendcnt
          BY DEF RcInv
        <5>3. recvNum + Len(link) + (Len(sq) + 1) = (recvNum + Len(link) + Len(sq)) + 1
          BY <2>0
        <5> QED
          BY <3>2, <5>1, <5>2, <5>3
      <4> QED
        BY <3>1, <4>1, <4>2, <4>3 DEF RcInv
  <2>2. CASE SPoll
    <3>1. UNCHANGED <<sendcnt, blocksLeft, sRestran, sq, wcError, recvNum, link>>
      BY <2>2 DEF SPoll, recvVars
    <3>2. SendDone' => NothingLeft /\ ~PollAgain'
      <4>1. spc' \in {"join", "finished"} => spc' = "join"
        BY <2>2 DEF SPoll
      <4>2. spc' = "join" => NothingLeft /\ ~PollAgain'
        BY <2>2 DEF SPoll
      <4> QED
        BY <4>1, <4>2 DEF SendDone
    <3>3. SendDone' => Len(sq) = 0 /\ blocksLeft = 0
      BY <2>0, <3>1, <3>2 DEF PollAgain, NothingLeft, Outstanding
    <3> QED
      BY <3>1, <3>3 DEF RcInv
  <2>3. CASE SJoin
    BY <2>3 DEF SJoin, RcInv, SendDone, nicVars, recvVars
  <2>4. CASE NicSend
    <3>1. /\ Len(sq) # 0 /\ Len(sq') = Len(sq) - 1
      BY <2>0, <2>4, HeadTailProperties, EmptySeq DEF NicSend
    <3>2. Len(link') = Len(link) + 1
      <4>1. buf[Head(sq)] \in Nat
        BY <2>0, <2>4, HeadTailProperties DEF NicSend, TypeOK, NetworkTypes
      <4> QED
        BY <2>0, <2>4, <4>1, AppendProperties DEF NicSend
    <3>3. UNCHANGED <<spc, sendcnt, blocksLeft, sRestran, wcError, recvNum>>
      BY <2>4 DEF NicSend, senderVars, recvVars
    <3> QED
      BY SMTT(30), <2>0, <3>1, <3>2, <3>3 DEF RcInv, SendDone
  <2>5. CASE NicNotReady
    BY <2>5 DEF NicNotReady, RcInv, SendDone, senderVars
  <2>6. CASE RCount
    <3>1. /\ link # <<>> /\ link' = Tail(link) /\ recvNum' = recvNum + 1
          /\ UNCHANGED <<senderVars, nicVars>>
      BY <2>6 DEF RCount, Take
    <3>2. Len(link') = Len(link) - 1
      BY <2>0, <3>1, HeadTailProperties
    <3> QED
      BY SMTT(30), <2>0, <3>1, <3>2 DEF RcInv, SendDone, senderVars, nicVars
  <2>7. ASSUME UNCHANGED <<senderVars, nicVars, recvNum, link>> PROVE RcInv'
    BY <2>7 DEF RcInv, SendDone, senderVars, nicVars
  <2>8. CASE REndBatch \/ ROverflow \/ RNext \/ UNCHANGED vars
    BY <2>7, <2>8
    DEF REndBatch, RNoList, RSendList, RSendFails, ROverflow, RNext, vars, recvVars
  <2> QED
    BY <2>1, <2>2, <2>3, <2>4, <2>5, <2>6, <2>8
    DEF Next, Sender, Network, Receiver, SRecvFinish, SRecvList, SAssertFails, SRecvGarbage,
        SPeerGone, SWait, NicLose, RDuplicate, RInOrder, RFillFront, RFillInside, RAhead,
        RAssertFails, RTimeout
<1>3. TypeOK /\ RcInv => RcConserves
  BY LenProperties DEF RcInv, RcConserves, TypeOK, SenderTypes, NetworkTypes, ReceiverTypes
<1> QED
  BY <1>1, <1>2, <1>3, TypeCorrect, PTL DEF Spec

-----------------------------------------------------------------------------
(* Lists of missing blocks: what MissingList selects, and when it is sent.  *)

\* The members of a finite set of numbers, counted from the least one.
LEMMA Ranks ==
    ASSUME NEW U \in SUBSET Nat, IsFiniteSet(U)
    PROVE  LET rank == [j \in U |-> Cardinality({x \in U : x <= j})]
               k == Cardinality(U)
           IN  /\ k \in Nat /\ rank \in [U -> 1 .. k]
               /\ \A i, j \in U : i < j => rank[i] < rank[j]
               /\ \A m \in 1 .. k : \E j \in U : rank[j] = m
<1> DEFINE upTo(j) == {x \in U : x <= j}
           rank == [j \in U |-> Cardinality(upTo(j))]
           k == Cardinality(U)
<1>1. k \in Nat
  BY FS_CardinalityType
<1>2. ASSUME NEW j \in U
      PROVE  IsFiniteSet(upTo(j)) /\ rank[j] = Cardinality(upTo(j)) /\ rank[j] \in 1 .. k
  <2>1. IsFiniteSet(upTo(j)) /\ Cardinality(upTo(j)) <= k /\ Cardinality(upTo(j)) \in Nat
    BY FS_Subset, FS_CardinalityType
  <2>2. j \in upTo(j)
    BY <1>2
  <2>3. Cardinality(upTo(j)) # 0
    BY <2>1, <2>2, FS_EmptySet
  <2> QED
    BY <1>1, <2>1, <2>3
<1>3. ASSUME NEW i \in U, NEW j \in U, i < j
      PROVE  rank[i] < rank[j]
  <2>1. IsFiniteSet(upTo(i) \cup {j}) /\ Cardinality(upTo(i) \cup {j}) = Cardinality(upTo(i)) + 1
    <3>1. j \notin upTo(i)
      BY <1>3
    <3> QED
      BY <1>2, <3>1, FS_AddElement
  <2>2. ASSUME NEW x \in U, x <= i PROVE x <= j
    <3>1. x \in Nat /\ i \in Nat /\ j \in Nat
      OBVIOUS
    <3> QED
      BY <1>3, <2>2, <3>1
  <2>3. upTo(i) \cup {j} \subseteq upTo(j)
    <3>1. upTo(i) \subseteq upTo(j)
      BY <2>2
    <3>2. j \in upTo(j)
      BY <1>2
    <3> QED
      BY <3>1, <3>2
  <2>4. Cardinality(upTo(i) \cup {j}) <= Cardinality(upTo(j))
    BY <1>2, <2>3, FS_Subset
  <2> QED
    BY <1>1, <1>2, <2>1, <2>4
<1> HIDE DEF k
<1>4. rank \in [U -> 1 .. k]
  BY <1>2
<1> HIDE DEF rank
<1>5. rank \in Injection(U, 1 .. k)
  <2>1. ASSUME NEW i \in U, NEW j \in U, rank[i] = rank[j] PROVE i = j
    <3>1. i \in Nat /\ j \in Nat /\ rank[i] \in Nat /\ rank[j] \in Nat
      BY <1>1, <1>4
    <3> QED
      BY <1>3, <2>1, <3>1
  <2> QED
    BY <1>4, <2>1 DEF Injection, IsInjective
<1>6. IsFiniteSet(1 .. k) /\ Cardinality(1 .. k) = k
  BY <1>1, FS_Interval
<1>7. rank \in Surjection(U, 1 .. k)
  BY <1>5, <1>6, FS_Injection DEF k
<1>8. \A m \in 1 .. k : \E j \in U : rank[j] = m
  BY <1>7 DEF Surjection
<1> QED
  BY <1>1, <1>3, <1>4, <1>8 DEF rank, k

\* As long as all that is missing, MissingList names exactly that, in the order
\* of the deque.
LEMMA MissingListExact ==
    ASSUME NEW d \in Seq(Items), \A i, j \in 1 .. Len(d) : i < j => d[i].seq < d[j].seq,
           NEW k \in Nat, Cardinality(Unreceived(d)) = k
    PROVE  /\ DOMAIN MissingList(d, k) = 1 .. k
           /\ \A m \in 1 .. k : \E j \in Unreceived(d) : MissingList(d, k)[m] = d[j].seq
           /\ \A j \in Unreceived(d) : \E m \in 1 .. k : MissingList(d, k)[m] = d[j].seq
           /\ Ascending(MissingList(d, k))
<1> DEFINE U == Unreceived(d)
           rank == [j \in U |-> Cardinality({x \in U : x <= j})]
           nth(m) == {j \in U : Cardinality({x \in U : x <= j}) = m}
           e(m) == IF nth(m) = {} THEN 0 ELSE d[CHOOSE j \in nth(m) : TRUE].seq
           s == MissingList(d, k)
<1>1. U \subseteq 1 .. Len(d) /\ Len(d) \in Nat /\ IsFiniteSet(U) /\ U \in SUBSET Nat
  <2>1. U \subseteq 1 .. Len(d) /\ Len(d) \in Nat
    BY LenProperties DEF Unreceived
  <2>2. IsFiniteSet(1 .. Len(d)) /\ U \in SUBSET (1 .. Len(d))
    BY <2>1, FS_Interval
  <2>3. IsFiniteSet(U)
    BY <2>2, FS_Subset
  <2> QED
    BY <2>1, <2>3
<1>2. /\ k \in Nat /\ rank \in [U -> 1 .. k]
      /\ \A i, j \in U : i < j => rank[i] < rank[j]
      /\ \A m \in 1 .. k : \E j \in U : rank[j] = m
  <2> HIDE DEF U
  <2> QED
    BY <1>1, Ranks DEF U
<1>3. s = [m \in 1 .. k |-> e(m)]
  BY DEF MissingList
<1>4. ASSUME NEW m \in 1 .. k, NEW j \in U, rank[j] = m PROVE s[m] = d[j].seq
  <2>1. j \in nth(m)
    BY <1>4
  <2>2. ASSUME NEW i \in nth(m) PROVE i = j
    <3>1. i \in U /\ rank[i] = m
      OBVIOUS
    <3>2. i \in Nat /\ j \in Nat /\ rank[i] = rank[j] /\ rank[i] \in Nat
      BY <1>1, <1>4, <3>1
    <3> HIDE DEF rank, U
    <3>3. ~(i < j) /\ ~(j < i)
      BY <1>2, <1>4, <3>1, <3>2
    <3> QED
      BY <3>2, <3>3
  <2> HIDE DEF nth
  <2>3. (CHOOSE i \in nth(m) : TRUE) = j
    BY <2>1, <2>2
  <2>4. e(m) = d[j].seq
    BY <2>1, <2>3
  <2> HIDE DEF e
  <2> QED
    BY <1>3, <2>4
<1> HIDE DEF U, s, e, nth, rank
<1>5. DOMAIN s = 1 .. k
  BY <1>3
<1>6. \A m \in 1 .. k : \E j \in U : s[m] = d[j].seq
  BY <1>2, <1>4
<1>7. \A j \in U : \E m \in 1 .. k : s[m] = d[j].seq
  BY <1>2, <1>4
<1>8. ASSUME NEW m \in 1 .. k, NEW n \in 1 .. k, m < n PROVE s[m] < s[n]
  <2>1. PICK i \in U : rank[i] = m
    BY <1>2
  <2>2. PICK j \in U : rank[j] = n
    BY <1>2
  <2>3. i < j
    <3>1. i # j
      BY <1>2, <1>8, <2>1, <2>2
    <3>2. ~(j < i)
      BY <1>2, <1>8, <2>1, <2>2
    <3> QED
      BY <1>1, <3>1, <3>2
  <2> QED
    BY <1>1, <1>4, <2>1, <2>2, <2>3
<1> QED
  BY <1>2, <1>5, <1>6, <1>7, <1>8 DEF Ascending, U, s

\* The last block was seen before the first list, or the tail was appended with it.
FirstInv == Sound /\ UseMessage => first \/ maxSeq = Last

\* A list is sent only when the deque reaches to the end of the file.
LEMMA ListReachesEnd ==
    ASSUME IInv, FirstInv, Sound, Sound', NEW t \in BOOLEAN, RSendList(t)
    PROVE  maxSeq = Last
<1> USE NumBlocksAssumption
<1>1. UseMessage /\ ~FillsTail(t) /\ (FirstList(t) \/ t \/ expect = NumBlocks)
  BY DEF RSendList, SendsList, Sound
<1>2. DequeInv /\ expect \in Nat /\ maxSeq \in Int
  BY <1>1 DEF IInv, TypeOK, ReceiverTypes
<1>3. expect <= maxSeq + 1 /\ maxSeq <= Last
  BY <1>2 DEF DequeInv
<1>4. CASE expect = NumBlocks
  BY <1>2, <1>3, <1>4 DEF Last
<1>5. CASE FirstList(t)
  BY <1>1, <1>2, <1>3, <1>5 DEF FillsTail, Last
<1>6. CASE t /\ ~first
  BY <1>1, <1>6 DEF FirstInv
<1> QED
  BY <1>1, <1>4, <1>5, <1>6 DEF FirstList

\* FirstInv is preserved.
LEMMA FirstStep == IInv /\ FirstInv /\ [Next]_vars /\ IInv' => FirstInv'
<1> SUFFICES ASSUME IInv, FirstInv, [Next]_vars, IInv', Sound', UseMessage
             PROVE  first' \/ maxSeq' = Last
  BY DEF FirstInv
<1>0. /\ Sound /\ (first \/ maxSeq = Last)
      /\ maxSeq \in Int /\ maxSeq' \in Int /\ maxSeq' <= Last /\ Last \in Int
  BY SoundBefore, NumBlocksAssumption DEF FirstInv, IInv, TypeOK, ReceiverTypes, DequeInv, Last
<1>1. ASSUME UNCHANGED first, maxSeq' >= maxSeq PROVE first' \/ maxSeq' = Last
  BY <1>0, <1>1
<1>2. CASE Sender \/ Network \/ UNCHANGED vars
  <2>1. UNCHANGED recvVars
    BY <1>2 DEF Sender, Network, SRecvFinish, SRecvList, SAssertFails, SRecvGarbage, SPeerGone,
                SWait, Post, SPoll, SJoin, NicSend, NicLose, NicNotReady, vars
  <2> QED
    BY <1>0, <1>1, <2>1 DEF recvVars
<1>3. CASE RDuplicate \/ RFillFront \/ RFillInside \/ RAssertFails \/ RCount \/ ROverflow \/ RNext
  BY <1>0, <1>1, <1>3
  DEF RDuplicate, RFillFront, RFillInside, RAssertFails, RCount, Take, ROverflow, RNext
<1>4. CASE RInOrder \/ RAhead
  <2>1. link # <<>> /\ link \in Seq(Nat)
    BY <1>4 DEF RInOrder, RAhead, Take, IInv, TypeOK, NetworkTypes
  <2>2. Head(link) \in Nat
    BY <2>1, HeadTailProperties
  <2>3. expect \in Nat
    BY DEF IInv, TypeOK, ReceiverTypes
  <2> QED
    BY <1>0, <1>1, <1>4, <2>2, <2>3 DEF RInOrder, RAhead, Take
<1>5. ASSUME NEW t \in BOOLEAN, RNoList(t) \/ RSendFails(t) PROVE first' \/ maxSeq' = Last
  BY <1>0, <1>1, <1>5 DEF RNoList, RSendFails
<1>6. ASSUME NEW t \in BOOLEAN, RSendList(t) PROVE first' \/ maxSeq' = Last
  <2>1. maxSeq = Last /\ maxSeq' = maxSeq
    BY <1>0, <1>6, ListReachesEnd DEF RSendList
  <2> QED
    BY <1>0, <2>1
<1>7. CASE REndBatch \/ RTimeout
  BY <1>5, <1>6, <1>7 DEF REndBatch, RTimeout
<1> QED
  BY <1>2, <1>3, <1>4, <1>7 DEF Next, Receiver

\* The blocks not received are those the deque says are missing, as many as asked for.
LEMMA MissingBlocks ==
    ASSUME DequeInv, TypeOK, maxSeq = Last, delivered \subseteq Blocks
    PROVE  /\ {deque[j].seq : j \in Unreceived(deque)} = Blocks \ delivered
           /\ ListLength = Cardinality(Unreceived(deque))
           /\ \A i, j \in 1 .. Len(deque) : i < j => deque[i].seq < deque[j].seq
<1> USE NumBlocksAssumption
<1> DEFINE U == Unreceived(deque)
<1>0. /\ expect \in Nat /\ Last = NumBlocks - 1 /\ Len(deque) = NumBlocks - expect /\ Len(deque) \in Nat
      /\ DOMAIN deque = 1 .. Len(deque)
      /\ \A j \in 1 .. Len(deque) :
            deque[j].seq = expect + j - 1 /\ (deque[j].recved <=> expect + j - 1 \in delivered)
      /\ \A b \in Nat : b < expect => b \in delivered
      /\ recvNum = Cardinality(delivered)
  <2>1. Len(deque) \in Nat /\ DOMAIN deque = 1 .. Len(deque) /\ expect \in Nat
    BY LenProperties DEF TypeOK, ReceiverTypes
  <2>2. Len(deque) = maxSeq + 1 - expect /\ maxSeq = NumBlocks - 1
    BY DEF DequeInv, Last
  <2>3. Len(deque) = NumBlocks - expect
    BY <2>1, <2>2
  <2> QED
    BY <2>1, <2>2, <2>3 DEF DequeInv
<1>1. U = {j \in 1 .. Len(deque) : expect + j - 1 \notin delivered}
  BY <1>0 DEF Unreceived
<1>2. {deque[j].seq : j \in U} = Blocks \ delivered
  <2>1. ASSUME NEW j \in U PROVE deque[j].seq \in Blocks \ delivered
    BY <1>0, <1>1 DEF Blocks
  <2>2. ASSUME NEW b \in Blocks \ delivered PROVE b - expect + 1 \in U /\ deque[b - expect + 1].seq = b
    <3>1. b \in Nat /\ b >= expect /\ b <= NumBlocks - 1
      BY <1>0 DEF Blocks
    <3>2. b - expect + 1 \in 1 .. Len(deque) /\ expect + (b - expect + 1) - 1 = b
      BY <1>0, <3>1
    <3> QED
      BY <1>0, <1>1, <3>1, <3>2
  <2> HIDE DEF U
  <2> QED
    BY <2>1, <2>2
<1>3. IsFiniteSet(Blocks) /\ Cardinality(Blocks) = NumBlocks
  BY FS_Interval DEF Blocks
<1>4. /\ IsFiniteSet(Blocks \ delivered)
      /\ Cardinality(Blocks \ delivered) = NumBlocks - Cardinality(delivered)
  <2>1. Blocks \cap delivered = delivered
    OBVIOUS
  <2> QED
    BY <1>3, <2>1, FS_Difference
<1>5. Cardinality(U) = Cardinality(Blocks \ delivered)
  <2> DEFINE f == [b \in Blocks \ delivered |-> b - expect + 1]
  <2>1. f \in Bijection(Blocks \ delivered, U)
    <3>1. ASSUME NEW b \in Blocks \ delivered PROVE f[b] \in U /\ b \in Nat
      <4>1. b \in Nat /\ b >= expect /\ b <= NumBlocks - 1
        BY <1>0 DEF Blocks
      <4>2. b - expect + 1 \in 1 .. Len(deque) /\ expect + (b - expect + 1) - 1 = b
        BY <1>0, <4>1
      <4> QED
        BY <1>1, <4>1, <4>2
    <3>2. \A a, b \in Blocks \ delivered : f[a] = f[b] => a = b
      BY <1>0, <3>1
    <3>3. ASSUME NEW j \in U PROVE \E b \in Blocks \ delivered : f[b] = j
      <4>1. j \in 1 .. Len(deque) /\ expect + j - 1 \in Blocks \ delivered
        BY <1>0, <1>1 DEF Blocks
      <4> QED
        BY <1>0, <4>1
    <3> HIDE DEF U
    <3> QED
      BY <3>1, <3>2, <3>3 DEF Bijection, Injection, Surjection, IsInjective
  <2> HIDE DEF U, f
  <2>2. ExistsBijection(Blocks \ delivered, U)
    BY <2>1 DEF ExistsBijection
  <2> QED
    BY <1>4, <2>2, FS_Bijection
<1>6. \A i, j \in 1 .. Len(deque) : i < j => deque[i].seq < deque[j].seq
  BY <1>0
<1> QED
  BY <1>0, <1>2, <1>4, <1>5, <1>6 DEF ListLength

\* Every list the receiver sends asks for exactly the blocks it does not have, in
\* ascending order, as long as the tail was not appended (470-517).
THEOREM ListsAreExact == Spec => ListExact
<1> DEFINE Exact(m) == /\ {m.seqs[j] : j \in DOMAIN m.seqs} = Blocks \ delivered
                       /\ Ascending(m.seqs)
           Step == LET new == tcp'[Len(tcp')]
                   IN  Sound' /\ Len(tcp') > Len(tcp) /\ new.kind = "list" =>
                         /\ {new.seqs[j] : j \in DOMAIN new.seqs} = Blocks \ delivered
                         /\ Ascending(new.seqs)
<1>1. Init => FirstInv
  BY DEF Init, FirstInv
<1>2. IInv /\ FirstInv /\ [Next]_vars /\ IInv' => [Step]_vars
  <2> SUFFICES ASSUME IInv, FirstInv, Next, Sound', Len(tcp') > Len(tcp), tcp'[Len(tcp')].kind = "list"
               PROVE  Exact(tcp'[Len(tcp')])
    OBVIOUS
  <2>0. Sound /\ TypeOK /\ tcp \in Seq(Messages) /\ Len(tcp) \in Nat
    BY SoundBefore, LenProperties DEF IInv, TypeOK, NetworkTypes
  <2>1. tcp' # tcp
    BY <2>0
  <2>2. tcp # <<>> => Len(Tail(tcp)) = Len(tcp) - 1
    BY <2>0, HeadTailProperties
  <2>3. ASSUME NEW m, tcp' = Append(tcp, m) PROVE tcp'[Len(tcp')] = m
    BY <2>0, <2>3
  <2>4. ASSUME NEW t \in BOOLEAN, RSendList(t) PROVE Exact(tcp'[Len(tcp')])
    <3> DEFINE s == MissingList(deque, ListLength)
    <3>1. maxSeq = Last /\ UseMessage
      BY <2>0, <2>4, ListReachesEnd DEF RSendList, SendsList
    <3>2. deque' = deque /\ DequeInv /\ WireInv /\ deque \in Seq(Items) /\ ListLength \in Nat
      BY <2>0, <2>4, <3>1, SentList DEF IInv, TypeOK, ReceiverTypes, ListLength
    <3>3. delivered \subseteq Blocks
      BY <3>2 DEF WireInv, Posted
    <3>4. tcp' = Append(tcp, ListMsg(s))
      BY <2>4, <3>2 DEF RSendList
    <3>5. tcp'[Len(tcp')].seqs = s
      BY <2>3, <3>4 DEF ListMsg
    <3>6. /\ {deque[j].seq : j \in Unreceived(deque)} = Blocks \ delivered
          /\ ListLength = Cardinality(Unreceived(deque))
          /\ \A i, j \in 1 .. Len(deque) : i < j => deque[i].seq < deque[j].seq
      BY <2>0, <3>1, <3>2, <3>3, MissingBlocks
    <3>7. /\ DOMAIN s = 1 .. ListLength /\ Ascending(s)
          /\ {s[m] : m \in 1 .. ListLength} = Blocks \ delivered
      <4>1. PICK k : k = ListLength
        OBVIOUS
      <4>2. k \in Nat /\ Cardinality(Unreceived(deque)) = k
        BY <3>2, <3>6, <4>1
      <4>3. /\ DOMAIN MissingList(deque, k) = 1 .. k
            /\ \A m \in 1 .. k : \E j \in Unreceived(deque) : MissingList(deque, k)[m] = deque[j].seq
            /\ \A j \in Unreceived(deque) : \E m \in 1 .. k : MissingList(deque, k)[m] = deque[j].seq
            /\ Ascending(MissingList(deque, k))
        BY <3>2, <3>6, <4>2, MissingListExact
      <4>4. {MissingList(deque, k)[m] : m \in 1 .. k} = {deque[j].seq : j \in Unreceived(deque)}
        BY <4>3
      <4> QED
        BY <3>6, <4>1, <4>3, <4>4
    <3> HIDE DEF s
    <3> QED
      BY <3>5, <3>7
  <2>5. CASE RNext
    <3>1. tcp'[Len(tcp')] = FileInfo
      BY <2>3, <2>5 DEF RNext
    <3> QED
      BY <3>1 DEF FileInfo
  <2>6. CASE Sender \/ Network
    BY <2>0, <2>1, <2>2, <2>6
    DEF Sender, Network, SRecvFinish, SRecvList, SAssertFails, SRecvGarbage, SPeerGone,
        SWait, Post, SPoll, SJoin, NicSend, NicLose, NicNotReady
  <2>7. CASE RDuplicate \/ RInOrder \/ RFillFront \/ RFillInside \/ RAhead \/ RAssertFails \/ RCount \/ ROverflow
    BY <2>1, <2>7 DEF RDuplicate, RInOrder, RFillFront, RFillInside, RAhead, RAssertFails, RCount, Take, ROverflow
  <2>8. CASE REndBatch \/ RTimeout
    BY <2>1, <2>4, <2>8 DEF REndBatch, RTimeout, RNoList, RSendFails
  <2> QED
    BY <2>5, <2>6, <2>7, <2>8 DEF Next, Receiver
<1>3. IInv /\ FirstInv /\ [Next]_vars /\ IInv' => FirstInv'
  BY FirstStep
<1> QED
  BY <1>1, <1>2, <1>3, Inductive, PTL DEF Spec, ListExact

-----------------------------------------------------------------------------
(* A transfer implements FileCopy: its initial states are initial states of *)
(* a copy, and as long as it is Sound every step is a step of the copy or    *)
(* leaves it alone.                                                         *)

\* The empty list is in the connection, or was taken from it, only when the
\* receiver has left its loop.
EndInv ==
    Sound /\ UseMessage =>
        /\ \A k \in 1 .. Len(tcp) : tcp[k] = ListMsg(<<>>) => RecvDone
        /\ SendDone => RecvDone

\* What a step may do to the variables of the copy: the sender and the network do
\* not touch the receiver, a packet comes only while the receiver is in its loop,
\* and neither side returns into its loop.
LEMMA StepShape ==
    ASSUME UseMessage, [Next]_vars
    PROVE  \/ UNCHANGED <<delivered, rpc>> /\ (SendDone => SendDone')
           \/ /\ ~RecvDone /\ ~RecvDone' /\ UNCHANGED spc
              /\ link # <<>> /\ delivered' = delivered \cup {Head(link)}
           \/ UNCHANGED <<delivered, spc>> /\ (RecvDone => RecvDone')
<1> USE DEF RecvDone, SendDone
<1>1. CASE Sender \/ Network \/ UNCHANGED vars
  <2>1. UNCHANGED <<delivered, rpc>>
    BY <1>1 DEF Sender, Network, SRecvFinish, SRecvList, SAssertFails, SRecvGarbage, SPeerGone,
                SWait, Post, SPoll, SJoin, NicSend, NicLose, NicNotReady, recvVars, vars
  <2>2. SendDone => SendDone'
    BY <1>1 DEF Sender, Network, SRecvFinish, SRecvList, SAssertFails, SRecvGarbage, SPeerGone,
                SWait, Post, SPoll, SJoin, NicSend, NicLose, NicNotReady, senderVars, vars
  <2> QED
    BY <2>1, <2>2
<1>2. ASSUME NEW pc \in {"batch", "aborted"}, Take(pc)
      PROVE  /\ ~RecvDone /\ ~RecvDone' /\ UNCHANGED spc
             /\ link # <<>> /\ delivered' = delivered \cup {Head(link)}
  BY <1>2 DEF Take, senderVars
<1>3. ASSUME NEW t \in BOOLEAN, RNoList(t) \/ RSendList(t) \/ RSendFails(t), ~RecvDone
      PROVE  UNCHANGED <<delivered, spc>> /\ (RecvDone => RecvDone')
  BY <1>3 DEF RNoList, RSendList, RSendFails, senderVars
<1>4. CASE REndBatch \/ RTimeout
  BY <1>3, <1>4 DEF REndBatch, RTimeout
<1>5. CASE ROverflow \/ RNext
  BY <1>5 DEF ROverflow, RNext, senderVars
<1> QED
  BY <1>1, <1>2, <1>4, <1>5
  DEF Next, Receiver, RDuplicate, RInOrder, RFillFront, RFillInside, RAhead, RAssertFails, RCount

-----------------------------------------------------------------------------
\* EndInv is preserved.
LEMMA EndStep == IInv /\ EndInv /\ [Next]_vars /\ IInv' => EndInv'
<1> SUFFICES ASSUME IInv, EndInv, [Next]_vars, IInv', Sound', UseMessage
             PROVE  /\ \A k \in 1 .. Len(tcp') : tcp'[k] = ListMsg(<<>>) => RecvDone'
                    /\ SendDone' => RecvDone'
  BY DEF EndInv
<1> USE NumBlocksAssumption
<1>0. /\ Sound /\ TypeOK /\ tcp \in Seq(Messages) /\ Len(tcp) \in Nat /\ recvNum \in Nat
      /\ \A k \in 1 .. Len(tcp) : tcp[k] = ListMsg(<<>>) => RecvDone
      /\ SendDone => RecvDone
  BY SoundBefore, LenProperties DEF IInv, TypeOK, NetworkTypes, ReceiverTypes, EndInv
<1>1. tcp # <<>> => /\ Len(Tail(tcp)) = Len(tcp) - 1 /\ Head(tcp) = tcp[1] /\ 1 \in 1 .. Len(tcp)
                    /\ \A k \in 1 .. Len(tcp) - 1 : Tail(tcp)[k] = tcp[k + 1]
  BY <1>0, HeadTailProperties, EmptySeq
<1>2. ASSUME tcp' = tcp \/ (tcp # <<>> /\ tcp' = Tail(tcp)), RecvDone => RecvDone'
      PROVE  \A k \in 1 .. Len(tcp') : tcp'[k] = ListMsg(<<>>) => RecvDone'
  BY <1>0, <1>1, <1>2
<1>3. ASSUME NEW m \in Messages, tcp' = Append(tcp, m), m = ListMsg(<<>>) => RecvDone',
             RecvDone => RecvDone'
      PROVE  \A k \in 1 .. Len(tcp') : tcp'[k] = ListMsg(<<>>) => RecvDone'
  <2>1. /\ Len(tcp') = Len(tcp) + 1
        /\ \A k \in 1 .. Len(tcp) : tcp'[k] = tcp[k]
        /\ tcp'[Len(tcp) + 1] = m
    BY <1>0, <1>3, AppendProperties
  <2> QED
    BY <1>0, <1>3, <2>1
<1>4. CASE SRecvFinish
  <2>1. tcp # <<>> /\ Head(tcp) = ListMsg(<<>>) /\ tcp' = Tail(tcp) /\ rpc' = rpc
    BY <1>4 DEF SRecvFinish, recvVars
  <2>2. RecvDone /\ RecvDone'
    BY <1>0, <1>1, <2>1 DEF RecvDone
  <2> QED
    BY <1>2, <2>1, <2>2
<1>5. CASE SRecvList \/ SAssertFails \/ SRecvGarbage \/ SPeerGone \/ SWait \/ Post \/ SPoll
  <2>1. /\ tcp' = tcp \/ (tcp # <<>> /\ tcp' = Tail(tcp))
        /\ rpc' = rpc /\ spc' \notin {"join", "finished"}
    BY <1>5 DEF SRecvList, SAssertFails, SRecvGarbage, SPeerGone, SWait, Post, SPoll, recvVars
  <2> QED
    BY <1>2, <2>1 DEF RecvDone, SendDone
<1>6. CASE SJoin \/ Network \/ UNCHANGED vars
  <2>1. tcp' = tcp /\ rpc' = rpc /\ (SendDone' => SendDone)
    BY <1>6 DEF SJoin, Network, NicSend, NicLose, NicNotReady, vars, senderVars, recvVars, SendDone
  <2> QED
    BY <1>0, <1>2, <2>1 DEF RecvDone
<1>7. ASSUME NEW t \in BOOLEAN, RSendList(t), ~RecvDone
      PROVE  \A k \in 1 .. Len(tcp') : tcp'[k] = ListMsg(<<>>) => RecvDone'
  <2>1. PICK s \in Seq(Blocks) : Len(s) = NumBlocks - recvNum /\ tcp' = Append(tcp, ListMsg(s))
    BY <1>0, <1>7, SentList
  <2>2. ListMsg(s) \in Messages
    <3>1. s \in Seq(Nat)
      BY SeqMonotonic DEF Blocks
    <3> QED
      BY <3>1 DEF ListMsg, Messages
  <2>3. ListMsg(s) = ListMsg(<<>>) => RecvDone'
    <3>1. ListMsg(s) = ListMsg(<<>>) => s = <<>>
      BY DEF ListMsg
    <3>2. s = <<>> => recvNum >= NumBlocks
      BY <1>0, <2>1, EmptySeq
    <3>3. recvNum >= NumBlocks => rpc' = "done"
      BY <1>0, <1>7 DEF RSendList, LoopOrLeave
    <3> QED
      BY <3>1, <3>2, <3>3 DEF RecvDone
  <2> QED
    BY <1>3, <1>7, <2>1, <2>2, <2>3
<1>8. CASE Receiver
  <2>1. SendDone' => SendDone
    BY <1>8, ReceiverFrame DEF SendDone, senderVars
  <2>2. RecvDone => RecvDone'
    BY <1>8 DEF Receiver, RDuplicate, RInOrder, RFillFront, RFillInside, RAhead, RAssertFails,
       RCount, Take, REndBatch, RTimeout, ROverflow, RNext, RecvDone
  <2>3. CASE RNext
    <3>1. FileInfo \in Messages /\ FileInfo # ListMsg(<<>>)
      BY EmptySeq DEF FileInfo, ListMsg, Messages
    <3> QED
      BY <1>0, <1>3, <2>1, <2>2, <2>3, <3>1 DEF RNext
  <2>4. ASSUME NEW t \in BOOLEAN, RSendList(t), rpc \in {"poll", "batch"}
        PROVE  \A k \in 1 .. Len(tcp') : tcp'[k] = ListMsg(<<>>) => RecvDone'
    BY <1>7, <2>4 DEF RecvDone
  <2>5. CASE \E t \in BOOLEAN : RSendList(t) /\ rpc \in {"poll", "batch"}
    BY <1>0, <2>1, <2>2, <2>4, <2>5
  <2>6. CASE tcp' = tcp
    BY <1>0, <1>2, <2>1, <2>2, <2>6
  <2> QED
    BY <1>8, <2>3, <2>5, <2>6
    DEF Receiver, RDuplicate, RInOrder, RFillFront, RFillInside, RAhead, RAssertFails, RCount, Take,
        REndBatch, RTimeout, RNoList, RSendFails, ROverflow
<1> QED
  BY <1>4, <1>5, <1>6, <1>8 DEF Next, Sender

\* Neither side is told that the copy is complete before it is.
THEOREM ToldInTime == Spec => []EndInv
<1>1. Init => EndInv
  BY EmptySeq DEF Init, EndInv, SendDone
<1> QED
  BY <1>1, EndStep, Inductive, PTL DEF Spec

-----------------------------------------------------------------------------
\* One step of a transfer is one of the copy: a block delivered for the first time, the
\* receiver leaving its loop with all of them, or the sender leaving its own after that.
LEMMA StepMaps ==
    IInv /\ Complete /\ EndInv /\ [Next]_vars /\ IInv' /\ Complete' /\ EndInv'
        => (UseMessage /\ Sound' => [Copy!Next]_<<delivered, RecvDone, SendDone>>)
<1> SUFFICES ASSUME IInv, [Next]_vars, IInv', Complete', EndInv', UseMessage, Sound'
             PROVE  [Copy!Next]_<<delivered, RecvDone, SendDone>>
  OBVIOUS
<1> USE DEF Copy!Next, Copy!Deliver, Copy!RFinish, Copy!SFinish, Copy!Blocks
<1>0. RecvDone \in BOOLEAN /\ SendDone \in BOOLEAN
  BY DEF RecvDone, SendDone
<1>1. CASE UNCHANGED <<delivered, rpc>> /\ (SendDone => SendDone')
  <2>1. RecvDone' = RecvDone /\ delivered' = delivered
    BY <1>1 DEF RecvDone
  <2>2. SendDone' => RecvDone'
    BY DEF EndInv
  <2> QED
    BY <1>0, <1>1, <2>1, <2>2 DEF SendDone
<1>2. CASE /\ ~RecvDone /\ ~RecvDone' /\ UNCHANGED spc
           /\ link # <<>> /\ delivered' = delivered \cup {Head(link)}
  <2>1. delivered' \subseteq Blocks
    BY DEF IInv, WireInv, Posted
  <2>2. Head(link) \in 0 .. NumBlocks - 1
    BY <1>2, <2>1 DEF Blocks
  <2>3. RecvDone' = RecvDone /\ SendDone' = SendDone
    BY <1>2 DEF SendDone, RecvDone
  <2>4. CASE Head(link) \in delivered
    BY <1>2, <2>3, <2>4
  <2>5. CASE Head(link) \notin delivered
    BY <1>2, <2>2, <2>3, <2>5
  <2> QED
    BY <2>4, <2>5
<1>3. CASE UNCHANGED <<delivered, spc>> /\ (RecvDone => RecvDone')
  <2>1. SendDone' = SendDone
    BY <1>3 DEF SendDone
  <2>2. RecvDone' => delivered = 0 .. NumBlocks - 1
    BY <1>3 DEF Complete, Blocks
  <2> QED
    BY <1>0, <1>3, <2>1, <2>2 DEF RecvDone
<1> QED
  BY StepShape, <1>1, <1>2, <1>3

\* The detailed transfer implements the copy, as far as safety goes: see CopySpec, whose
\* fairness the runs check.
THEOREM ImplementsCopy ==
    Spec => Copy!Init /\ [][UseMessage /\ Sound' => [Copy!Next]_<<delivered, RecvDone, SendDone>>]_vars
<1>1. Init => Copy!Init
  BY DEF Init, Copy!Init, RecvDone, SendDone
<1> QED
  BY <1>1, StepMaps, Inductive, CompleteFile, ToldInTime, PTL DEF Spec

-----------------------------------------------------------------------------
(* No assert of the two loops fails, and no message is misread: what each    *)
(* side may assume of the other.  It rests on the receiver's second: a list   *)
(* sent while the last one is still being answered would break it.           *)

\* A list that asks for blocks.
Asks(m) == m.kind = "list" /\ m.seqs # <<>>

\* The sender has been told that the receiver has everything, or will be.
EndTold == SendDone \/ \E j \in 1 .. Len(tcp) : tcp[j] = ListMsg(<<>>)

NoneFails ==
    /\ rpc \notin {"failed", "aborted"} /\ spc \notin {"aborted", "blocked"}
    /\ ~wcError

\* There is one list at a time, and the sender has nothing to do while it waits; a
\* FileInfo comes after the empty list.
TalkInv ==
    UseMessage /\ Sound =>
        /\ NoneFails
        /\ rpc = "poll" => recvNum < NumBlocks
        /\ first => rpc \in {"poll", "batch"} /\ tcp = <<>> /\ ~sRestran
        /\ \A k \in 1 .. Len(tcp) : Asks(tcp[k]) => k = 1 /\ ~sRestran /\ blocksLeft = 0
        /\ \A k \in 1 .. Len(tcp) : tcp[k] = FileInfo =>
              SendDone \/ \E j \in 1 .. k - 1 : tcp[j] = ListMsg(<<>>)
        /\ RecvDone => EndTold
        /\ spc = "loop" /\ blocksLeft = 0 => Outstanding = 0

\* With every block delivered the deque is empty, and the receiver sends its last list.
LEMMA AllExpected ==
    ASSUME IInv, Sound, UseMessage, recvNum >= NumBlocks
    PROVE  expect = NumBlocks /\ recvNum = NumBlocks /\ SendsList(FALSE)
<1> USE NumBlocksAssumption
<1>1. /\ DequeInv /\ maxSeq \in Int /\ expect \in Nat /\ delivered \subseteq Nat
  BY DEF IInv, TypeOK, ReceiverTypes
<1>2. delivered = Blocks /\ recvNum = NumBlocks
  BY <1>1, CountedAll
<1>3. expect <= NumBlocks
  BY <1>1 DEF DequeInv, Last
<1>4. ~(expect < NumBlocks)
  <2> SUFFICES ASSUME expect < NumBlocks PROVE FALSE
    OBVIOUS
  <2>1. expect \in delivered /\ Last \in delivered /\ Last \in Int /\ expect <= Last
    BY <1>1, <1>2 DEF Blocks, Last
  <2>2. Last <= maxSeq
    BY <2>1, <1>1 DEF DequeInv
  <2> QED
    BY <1>1, <2>1, <2>2 DEF DequeInv
<1> QED
  BY <1>1, <1>2, <1>3, <1>4 DEF SendsList, FirstList

\* The converse: nothing before expect_seq is missing.
LEMMA ExpectsEnd ==
    ASSUME IInv, Sound, UseMessage, expect = NumBlocks
    PROVE  recvNum = NumBlocks
<1> USE NumBlocksAssumption
<1>1. DequeInv /\ WireInv
  BY DEF IInv
<1>2. Blocks \subseteq delivered
  BY <1>1 DEF DequeInv, Blocks
<1>3. delivered \subseteq Blocks
  BY <1>1 DEF WireInv, Posted
<1>4. delivered = Blocks
  BY <1>2, <1>3
<1>5. Cardinality(Blocks) = NumBlocks
  BY FS_Interval DEF Blocks
<1> QED
  BY <1>1, <1>4, <1>5 DEF DequeInv

\* A list goes out only when the sender has nothing left to send: the first after the
\* last block came, the others when nothing is under way or nothing is missing.
LEMMA ListFindsIdle ==
    ASSUME IInv, EndInv, FirstInv, TalkInv, Sound, UseMessage, Sound',
           NEW t \in BOOLEAN, RSendList(t), rpc \in {"poll", "batch"}, t => Quiet,
           recvNum < NumBlocks
    PROVE  tcp = <<>> /\ ~sRestran /\ blocksLeft = 0
<1> USE NumBlocksAssumption
<1>0. /\ LoopInv /\ WireInv /\ DequeInv /\ SenderTypes /\ ReceiverTypes
      /\ spc \in {"loop", "poll"} /\ rlist \in Seq(Nat) /\ Len(rlist) \in Nat
  BY LenProperties DEF IInv, EndInv, TalkInv, NoneFails, TypeOK, SenderTypes, SendDone, RecvDone
<1>1. CASE t
  <2>1. tcp = <<>> /\ blocksLeft = 0
    BY <1>0, <1>1 DEF Quiet, NothingLeft
  <2>2. ~sRestran
    BY <1>0, <2>1 DEF LoopInv, SenderTypes
  <2> QED
    BY <2>1, <2>2
<1>2. CASE ~t
  <2>1. expect # NumBlocks
    BY ExpectsEnd, <1>0 DEF ReceiverTypes
  <2>2. first /\ maxSeq = Last
    BY <1>2, <2>1 DEF RSendList, SendsList, FirstList
  <2>3. tcp = <<>> /\ ~sRestran
    BY <2>2 DEF TalkInv
  <2>4. Last \in delivered
    BY <1>0, <2>2 DEF DequeInv, ReceiverTypes, Last
  <2>5. sendcnt > NumBlocks - 1 /\ sendcnt \in Nat
    BY <1>0, <2>4 DEF WireInv, Posted, Last, SenderTypes
  <2>6. blocksLeft = 0
    BY <1>0, <2>3, <2>5 DEF LoopInv
  <2> QED
    BY <2>3, <2>6
<1> QED
  BY <1>1, <1>2

\* A step of a transfer in which the receiver's second is long enough.
PromptNext ==
    \/ Sender \/ Network
    \/ RDuplicate \/ RInOrder \/ RFillFront \/ RFillInside \/ RAhead
    \/ RAssertFails \/ RCount \/ REndBatch \/ ROverflow \/ RNext
    \/ RTimeout /\ Quiet

\* It preserves TalkInv.
LEMMA TalkStep ==
    ASSUME IInv, EndInv, FirstInv, TalkInv, [PromptNext]_vars, IInv'
    PROVE  TalkInv'
<1> DEFINE AsksIdle == \A k \in 1 .. Len(tcp) : Asks(tcp[k]) => k = 1 /\ ~sRestran /\ blocksLeft = 0
           InfoLast == \A k \in 1 .. Len(tcp) : tcp[k] = FileInfo =>
                          SendDone \/ \E j \in 1 .. k - 1 : tcp[j] = ListMsg(<<>>)
           NoFirst  == first => rpc \in {"poll", "batch"} /\ tcp = <<>> /\ ~sRestran
           AllBack  == spc = "loop" /\ blocksLeft = 0 => Outstanding = 0
           Wanting  == rpc = "poll" => recvNum < NumBlocks
           Told     == RecvDone => EndTold
<1> SUFFICES ASSUME Sound', UseMessage
             PROVE  NoneFails' /\ Wanting' /\ NoFirst' /\ AsksIdle' /\ InfoLast' /\ Told' /\ AllBack'
  BY DEF TalkInv
<1> USE NumBlocksAssumption
<1>0. /\ Sound /\ ExactSize /\ TypeOK /\ LoopInv /\ WireInv /\ DequeInv
      /\ NoneFails /\ Wanting /\ NoFirst /\ AsksIdle /\ InfoLast /\ Told /\ AllBack
      /\ SenderTypes /\ NetworkTypes /\ ReceiverTypes
      /\ SenderTypes' /\ NetworkTypes' /\ ReceiverTypes'
      /\ tcp \in Seq(Messages) /\ Len(tcp) \in Nat
  <2>1. [Next]_vars
    BY DEF PromptNext, Next, Receiver
  <2> QED
    BY <2>1, SoundBefore, LenProperties DEF IInv, TypeOK, TalkInv, Sound, NetworkTypes
<1>1. tcp # <<>> => /\ Len(Tail(tcp)) = Len(tcp) - 1 /\ Head(tcp) = tcp[1] /\ 1 \in 1 .. Len(tcp)
                    /\ \A k \in 1 .. Len(tcp) - 1 : Tail(tcp)[k] = tcp[k + 1]
  BY <1>0, HeadTailProperties, EmptySeq
<1>2. \A m \in Messages : /\ Len(Append(tcp, m)) = Len(tcp) + 1
                          /\ \A k \in 1 .. Len(tcp) : Append(tcp, m)[k] = tcp[k]
                          /\ Append(tcp, m)[Len(tcp) + 1] = m
  BY <1>0, AppendProperties
<1>3. /\ FileInfo \in Messages /\ ListMsg(<<>>) \in Messages /\ FileInfo # ListMsg(<<>>)
      /\ ~Asks(FileInfo) /\ ~Asks(ListMsg(<<>>))
      /\ \A s : ListMsg(s) # FileInfo
  BY EmptySeq DEF FileInfo, ListMsg, Messages, Asks
<1> HIDE DEF AsksIdle, InfoLast, NoFirst, AllBack, Wanting, Told
\* What a message taken from the connection leaves there.
<1>4. ASSUME tcp # <<>>, tcp' = Tail(tcp), Head(tcp) # ListMsg(<<>>) \/ SendDone', SendDone => SendDone'
      PROVE  AsksIdle' /\ InfoLast' /\ (EndTold => EndTold')
  <2>0. /\ Len(tcp') = Len(tcp) - 1
        /\ \A k \in 1 .. Len(tcp') : k + 1 \in 1 .. Len(tcp) /\ tcp'[k] = tcp[k + 1]
        /\ \A k \in 1 .. Len(tcp) : tcp[k] = ListMsg(<<>>) => (k = 1 /\ SendDone') \/ k > 1
    BY <1>0, <1>1, <1>4
  <2>1. AsksIdle'
    BY <1>0, <2>0 DEF AsksIdle
  <2>2. ASSUME NEW j \in 1 .. Len(tcp), tcp[j] = ListMsg(<<>>), ~SendDone'
        PROVE  j - 1 \in 1 .. Len(tcp') /\ tcp'[j - 1] = ListMsg(<<>>)
    BY <1>0, <1>1, <1>4, <2>0, <2>2
  <2>3. InfoLast'
    <3> SUFFICES ASSUME NEW k \in 1 .. Len(tcp'), tcp'[k] = FileInfo, ~SendDone'
                 PROVE  \E j \in 1 .. k - 1 : tcp'[j] = ListMsg(<<>>)
      BY DEF InfoLast
    <3>1. PICK j \in 1 .. (k + 1) - 1 : tcp[j] = ListMsg(<<>>)
      BY <1>0, <1>4, <2>0 DEF InfoLast
    <3>2. j \in 1 .. Len(tcp) /\ k \in Nat
      BY <1>0, <2>0
    <3>3. j - 1 \in 1 .. Len(tcp') /\ tcp'[j - 1] = ListMsg(<<>>)
      BY <2>2, <3>1, <3>2
    <3> QED
      BY <3>2, <3>3
  <2>4. EndTold => EndTold'
    BY <1>4, <2>2 DEF EndTold
  <2> QED
    BY <2>1, <2>3, <2>4
\* What a message added to it does.
<1>5. ASSUME NEW m \in Messages, tcp' = Append(tcp, m), UNCHANGED senderVars,
             Asks(m) => tcp = <<>> /\ ~sRestran /\ blocksLeft = 0,
             m = FileInfo => EndTold
      PROVE  AsksIdle' /\ InfoLast' /\ (EndTold \/ m = ListMsg(<<>>) => EndTold')
  <2>0. /\ Len(tcp') = Len(tcp) + 1 /\ tcp'[Len(tcp) + 1] = m
        /\ \A k \in 1 .. Len(tcp) : tcp'[k] = tcp[k]
        /\ Len(tcp) + 1 \in 1 .. Len(tcp')
        /\ \A k \in 1 .. Len(tcp') : k \in 1 .. Len(tcp) \/ k = Len(tcp) + 1
        /\ \A k \in 1 .. Len(tcp) : k \in 1 .. Len(tcp')
    BY <1>0, <1>2, <1>5
  <2>1. sRestran' = sRestran /\ blocksLeft' = blocksLeft /\ spc' = spc /\ SendDone' = SendDone
    BY <1>5 DEF senderVars, SendDone
  <2>2. AsksIdle'
    <3> SUFFICES ASSUME NEW k \in 1 .. Len(tcp'), Asks(tcp'[k])
                 PROVE  k = 1 /\ ~sRestran /\ blocksLeft = 0
      BY <2>1 DEF AsksIdle
    <3>1. CASE k \in 1 .. Len(tcp)
      BY <1>0, <2>0, <3>1 DEF AsksIdle
    <3>2. CASE k = Len(tcp) + 1
      <4>1. tcp = <<>> /\ ~sRestran /\ blocksLeft = 0
        BY <1>5, <2>0, <3>2
      <4> QED
        BY <3>2, <4>1
    <3> QED
      BY <2>0, <3>1, <3>2
  <2>3. InfoLast'
    <3> SUFFICES ASSUME NEW k \in 1 .. Len(tcp'), tcp'[k] = FileInfo, ~SendDone
                 PROVE  \E j \in 1 .. k - 1 : tcp'[j] = ListMsg(<<>>)
      BY <2>1 DEF InfoLast
    <3>1. PICK j \in 1 .. k - 1 : j \in 1 .. Len(tcp) /\ tcp[j] = ListMsg(<<>>)
      <4>1. CASE k \in 1 .. Len(tcp)
        BY <1>0, <2>0, <4>1 DEF InfoLast
      <4>2. CASE k = Len(tcp) + 1
        BY <1>0, <1>5, <2>0, <4>2 DEF EndTold
      <4> QED
        BY <2>0, <4>1, <4>2
    <3> QED
      BY <2>0, <3>1
  <2>4. EndTold \/ m = ListMsg(<<>>) => EndTold'
    BY <2>0, <2>1 DEF EndTold
  <2> QED
    BY <2>2, <2>3, <2>4
\* A step that leaves the connection alone.
<1>6. ASSUME tcp' = tcp, SendDone => SendDone',
             UNCHANGED <<sRestran, blocksLeft>> \/ \A k \in 1 .. Len(tcp) : ~Asks(tcp[k])
      PROVE  AsksIdle' /\ InfoLast' /\ (EndTold => EndTold')
  <2>1. AsksIdle'
    BY <1>0, <1>6 DEF AsksIdle
  <2>2. InfoLast'
    BY <1>0, <1>6 DEF InfoLast
  <2> QED
    BY <1>6, <2>1, <2>2 DEF EndTold
<1>7. CASE SRecvFinish
  <2>1. /\ tcp # <<>> /\ tcp' = Tail(tcp) /\ spc' = "join" /\ Head(tcp) = ListMsg(<<>>)
        /\ UNCHANGED <<rpc, recvNum, first, wcError, sRestran, blocksLeft>>
    BY <1>7 DEF SRecvFinish, recvVars, nicVars
  <2>2. AsksIdle' /\ InfoLast'
    BY <1>4, <2>1 DEF SendDone
  <2>3. NoneFails' /\ Wanting' /\ NoFirst' /\ AllBack' /\ Told'
    BY <1>0, <2>1 DEF NoneFails, Wanting, NoFirst, AllBack, Told, EndTold, SendDone
  <2> QED
    BY <2>2, <2>3
<1>8. CASE SRecvList
  <2>1. /\ tcp # <<>> /\ tcp' = Tail(tcp) /\ spc' = spc /\ Head(tcp) # ListMsg(<<>>)
        /\ UNCHANGED <<rpc, recvNum, first, wcError>>
        /\ spc = "loop"
    BY <1>8 DEF SRecvList, recvVars, nicVars, ListMsg
  <2>2. AsksIdle' /\ InfoLast' /\ (EndTold => EndTold')
    BY <1>4, <2>1 DEF SendDone
  <2>3. blocksLeft' > 0
    <3>1. rlist' # <<>> /\ rlist' \in Seq(Nat) /\ blocksLeft' = blocksLeft + Len(rlist')
      BY <1>0, <1>8 DEF SRecvList, SenderTypes
    <3> QED
      BY <1>0, <3>1, EmptySeq DEF LoopInv
  <2>4. NoneFails' /\ Wanting' /\ NoFirst' /\ AllBack' /\ Told'
    BY <1>0, <2>1, <2>2, <2>3 DEF NoneFails, Wanting, NoFirst, AllBack, Told, RecvDone
  <2> QED
    BY <2>2, <2>4
<1>9. ~(SAssertFails \/ SRecvGarbage \/ SPeerGone)
  <2>1. ~SAssertFails
    BY <1>0, <1>1 DEF SAssertFails, AsksIdle, Asks, NothingLeft
  <2>2. ~SRecvGarbage
    BY <1>0, <1>1 DEF SRecvGarbage, InfoLast, SendDone
  <2>3. ~SPeerGone
    BY <1>0 DEF SPeerGone, NoneFails
  <2> QED
    BY <2>1, <2>2, <2>3
\* The steps of the sender and the network that leave the connection alone.
<1>10. ASSUME tcp' = tcp, UNCHANGED recvVars, NoneFails', SendDone => SendDone', AllBack',
              \/ UNCHANGED <<sRestran, blocksLeft>>
              \/ (sRestran' => sRestran) /\ \A k \in 1 .. Len(tcp) : ~Asks(tcp[k])
       PROVE  Wanting' /\ NoFirst' /\ AsksIdle' /\ InfoLast' /\ Told' /\ AllBack'
  <2>1. AsksIdle' /\ InfoLast' /\ (EndTold => EndTold')
    BY <1>6, <1>10
  <2>2. Wanting' /\ NoFirst' /\ Told'
    BY <1>0, <1>10, <2>1 DEF Wanting, NoFirst, Told, RecvDone, recvVars
  <2> QED
    BY <1>10, <2>1, <2>2
<1>11. CASE SWait \/ SJoin \/ SPoll
  <2>1. /\ tcp' = tcp /\ UNCHANGED recvVars
        /\ UNCHANGED <<sRestran, blocksLeft>> /\ UNCHANGED wcError
        /\ SendDone => SendDone'
    BY <1>11 DEF SWait, SJoin, SPoll, nicVars, SendDone
  <2>2. NoneFails'
    BY <1>0, <1>11, <2>1 DEF NoneFails, SWait, SJoin, SPoll, recvVars
  <2>3. AllBack'
    <3>1. CASE SWait \/ SJoin
      BY <3>1 DEF SWait, SJoin, AllBack
    <3>2. CASE SPoll /\ spc' = "loop"
      <4>1. ~PollAgain' /\ Outstanding' \in Nat
        BY <1>0, <3>2, LenProperties DEF SPoll, NoneFails, Outstanding, NetworkTypes
      <4> QED
        BY <1>0, <4>1 DEF PollAgain, NothingLeft, AllBack
    <3> QED
      BY <1>11, <3>1, <3>2 DEF AllBack
  <2> QED
    BY <1>10, <2>1, <2>2, <2>3
<1>12. CASE Post
  <2>1. /\ tcp' = tcp /\ UNCHANGED recvVars /\ UNCHANGED wcError
        /\ spc = "loop" /\ spc' = "poll"
        /\ sRestran \/ ~NothingLeft
        /\ sRestran' => sRestran
    BY <1>0, <1>12 DEF Post, SenderTypes
  <2>2. \A k \in 1 .. Len(tcp) : ~Asks(tcp[k])
    BY <1>0, <2>1 DEF AsksIdle, NothingLeft
  <2>3. NoneFails' /\ AllBack' /\ (SendDone => SendDone')
    BY <1>0, <2>1 DEF NoneFails, AllBack, SendDone, recvVars
  <2> QED
    BY <1>10, <2>1, <2>2, <2>3
<1>13. CASE Network \/ UNCHANGED vars
  <2>1. /\ tcp' = tcp /\ UNCHANGED recvVars /\ UNCHANGED <<sRestran, blocksLeft>>
        /\ spc' = spc /\ wcError' = wcError
    BY <1>13 DEF Network, NicSend, NicLose, NicNotReady, vars, senderVars, nicVars
  <2>2. Outstanding' = Outstanding
    <3>1. CASE NicSend \/ NicLose
      <4>1. sq # <<>> /\ sq' = Tail(sq) /\ scq' = scq + 1
        BY <3>1 DEF NicSend, NicLose
      <4>2. Len(sq') = Len(sq) - 1 /\ Len(sq) \in Nat /\ scq \in Nat
        BY <1>0, <4>1, HeadTailProperties, LenProperties DEF NetworkTypes
      <4> QED
        BY <4>1, <4>2 DEF Outstanding
    <3>2. CASE UNCHANGED vars
      BY <3>2 DEF vars, nicVars, Outstanding
    <3>3. ~NicNotReady
      BY DEF NicNotReady
    <3> QED
      BY <1>13, <3>1, <3>2, <3>3 DEF Network
  <2>3. NoneFails' /\ AllBack' /\ (SendDone => SendDone')
    BY <1>0, <2>1, <2>2 DEF NoneFails, AllBack, SendDone, recvVars
  <2> QED
    BY <1>10, <2>1, <2>2, <2>3
\* The steps of the receiver.
<1>14. ASSUME UNCHANGED senderVars, UNCHANGED nicVars
       PROVE  AllBack' /\ (SendDone => SendDone') /\ UNCHANGED <<sRestran, blocksLeft>>
              /\ (rpc' \notin {"failed", "aborted"} => NoneFails')
  <2>1. Outstanding' = Outstanding
    BY <1>14 DEF nicVars, Outstanding
  <2> QED
    BY <1>0, <1>14, <2>1 DEF senderVars, nicVars, AllBack, SendDone, NoneFails
<1>15. ASSUME Take("batch")
       PROVE  NoneFails' /\ Wanting' /\ NoFirst' /\ AsksIdle' /\ InfoLast' /\ Told' /\ AllBack'
  <2>1. tcp' = tcp /\ rpc' = "batch" /\ first' = first /\ UNCHANGED senderVars /\ UNCHANGED nicVars
    BY <1>15 DEF Take
  <2>2. NoneFails' /\ AllBack' /\ AsksIdle' /\ InfoLast'
    BY <1>6, <1>14, <2>1
  <2>3. Wanting' /\ NoFirst' /\ Told'
    BY <1>0, <1>14, <2>1 DEF Wanting, NoFirst, Told, RecvDone
  <2> QED
    BY <2>2, <2>3
<1>16. ~RAssertFails
  <2> SUFFICES ASSUME RAssertFails PROVE FALSE
    OBVIOUS
  <2>1. link # <<>> /\ Head(link) \in Nat
    BY <1>0, HeadTailProperties DEF RAssertFails, Take, NetworkTypes
  <2>2. expect \in Nat /\ maxSeq \in Int /\ deque \in Seq(Items) /\ Len(deque) \in Nat
    BY <1>0, LenProperties DEF ReceiverTypes
  <2>3. DOMAIN deque = 1 .. Len(deque)
    BY <2>2, LenProperties
  <2>4. CASE Head(link) = expect /\ expect <= maxSeq
    <3>1. Len(deque) > 0 /\ deque[1].seq = expect /\ deque # <<>>
      BY <1>0, <2>2, <2>4, EmptySeq DEF DequeInv
    <3>2. expect # maxSeq
      BY <1>0, <2>2, <2>4 DEF DequeInv
    <3> QED
      BY <2>2, <2>4, <3>1, <3>2 DEF RAssertFails, FrontAsserts
  <2>5. CASE Head(link) > expect /\ Head(link) < maxSeq
    BY <1>0, <2>1, <2>2, <2>3, <2>5 DEF RAssertFails, Slot, DequeInv
  <2> QED
    BY <2>1, <2>2, <2>4, <2>5 DEF RAssertFails
<1>17. ASSUME NEW t \in BOOLEAN, rpc \in {"poll", "batch"}
       PROVE  ~RSendFails(t)
  BY <1>0, <1>17 DEF RSendFails, NoneFails, SenderAlive
<1>18. ~ROverflow
  <2> SUFFICES ASSUME ROverflow PROVE FALSE
    OBVIOUS
  <2>1. recvNum >= NumBlocks /\ recvNum # NumBlocks
    BY <1>0 DEF ROverflow, ReceiverTypes
  <2> QED
    BY <1>0, <2>1, AllExpected
<1>19. ASSUME RNoList(FALSE), rpc \in {"poll", "batch"}
       PROVE  NoneFails' /\ Wanting' /\ NoFirst' /\ AsksIdle' /\ InfoLast' /\ Told' /\ AllBack'
  <2>1. recvNum < NumBlocks
    <3>1. ~SendsList(FALSE)
      BY <1>19 DEF RNoList
    <3>2. recvNum \in Nat
      BY <1>0 DEF ReceiverTypes
    <3>3. Sound
      BY <1>0
    <3>4. ~(recvNum >= NumBlocks)
      BY Zenon, <3>1, <3>3, AllExpected
    <3> QED
      BY <3>2, <3>4
  <2>2. /\ tcp' = tcp /\ rpc' = "poll" /\ first' = first /\ recvNum' = recvNum
        /\ UNCHANGED senderVars /\ UNCHANGED nicVars
    BY <1>19, <2>1 DEF RNoList, LoopOrLeave
  <2>3. NoneFails' /\ AllBack' /\ AsksIdle' /\ InfoLast'
    BY <1>6, <1>14, <2>2
  <2>4. Wanting' /\ NoFirst' /\ Told'
    BY <1>0, <1>14, <2>1, <2>2 DEF Wanting, NoFirst, Told, RecvDone
  <2> QED
    BY <2>3, <2>4
<1>20. ASSUME NEW t \in BOOLEAN, RSendList(t), rpc \in {"poll", "batch"}, t => Quiet
       PROVE  NoneFails' /\ Wanting' /\ NoFirst' /\ AsksIdle' /\ InfoLast' /\ Told' /\ AllBack'
  <2>1. PICK s \in Seq(Blocks) : Len(s) = NumBlocks - recvNum /\ tcp' = Append(tcp, ListMsg(s))
    BY <1>0, <1>20, SentList
  <2>2. /\ first' = FALSE /\ recvNum' = recvNum /\ rpc' = LoopOrLeave
        /\ UNCHANGED senderVars /\ UNCHANGED nicVars
    BY <1>20 DEF RSendList
  <2>3. ListMsg(s) \in Messages
    <3>1. s \in Seq(Nat)
      BY SeqMonotonic DEF Blocks
    <3> QED
      BY <3>1 DEF ListMsg, Messages
  <2>4. Asks(ListMsg(s)) => tcp = <<>> /\ ~sRestran /\ blocksLeft = 0
    <3>1. Asks(ListMsg(s)) => Len(s) # 0
      BY EmptySeq DEF Asks, ListMsg
    <3>2. Len(s) # 0 => recvNum < NumBlocks
      BY <1>0, <1>20, <2>1 DEF RSendList, ReceiverTypes
    <3> QED
      BY <1>0, <1>20, <3>1, <3>2, ListFindsIdle
  <2>5. ListMsg(s) # FileInfo
    BY <1>3
  <2>6. AsksIdle' /\ InfoLast' /\ (ListMsg(s) = ListMsg(<<>>) => EndTold')
    BY <1>5, <2>1, <2>2, <2>3, <2>4, <2>5
  <2>7. \/ rpc' = "poll" /\ recvNum < NumBlocks
        \/ rpc' = "done" /\ ~(recvNum < NumBlocks)
    BY <2>2 DEF LoopOrLeave
  <2>8. NoneFails' /\ AllBack'
    BY <1>14, <2>2, <2>7
  <2>9. Wanting' /\ NoFirst'
    BY <2>2, <2>7 DEF Wanting, NoFirst
  <2>10. Told'
    <3>1. CASE rpc' = "done" /\ ~(recvNum < NumBlocks)
      <4>1. s = <<>>
        BY <1>0, <2>1, <3>1, EmptySeq DEF ReceiverTypes
      <4> QED
        BY <2>6, <4>1 DEF Told
    <3> QED
      BY <2>7, <3>1 DEF Told, RecvDone
  <2> QED
    BY <2>6, <2>8, <2>9, <2>10
<1>21. CASE RNext
  <2>1. /\ rpc = "done" /\ rpc' = "sync" /\ tcp' = Append(tcp, FileInfo)
        /\ first' = first /\ UNCHANGED senderVars /\ UNCHANGED nicVars
    BY <1>21 DEF RNext
  <2>2. EndTold /\ ~first
    BY <1>0, <2>1 DEF Told, RecvDone, NoFirst
  <2>3. AsksIdle' /\ InfoLast' /\ EndTold'
    BY <1>3, <1>5, <2>1, <2>2
  <2>4. NoneFails' /\ AllBack'
    BY <1>14, <2>1
  <2>5. Wanting' /\ NoFirst' /\ Told'
    BY <2>1, <2>2, <2>3 DEF Wanting, NoFirst, Told
  <2> QED
    BY <2>3, <2>4, <2>5
<1>22. CASE REndBatch
  BY <1>17, <1>19, <1>20, <1>22 DEF REndBatch
<1>23. CASE RTimeout /\ Quiet
  <2>1. Quiet /\ rpc \in {"poll", "batch"} /\ RSendList(TRUE)
    BY <1>17, <1>23 DEF RTimeout
  <2> QED
    BY <1>20, <2>1
<1>24. CASE RDuplicate \/ RInOrder \/ RFillFront \/ RFillInside \/ RAhead \/ RCount
  BY <1>15, <1>24 DEF RDuplicate, RInOrder, RFillFront, RFillInside, RAhead, RCount
<1> QED
  BY <1>7, <1>8, <1>9, <1>11, <1>12, <1>13, <1>16, <1>18, <1>21, <1>22, <1>23, <1>24
  DEF PromptNext, Sender

\* Nothing has been said at the start.
LEMMA TalkInit == Init => EndInv /\ FirstInv /\ TalkInv
<1> USE NumBlocksAssumption, NumBuffersAssumption
<1> SUFFICES ASSUME Init PROVE EndInv /\ FirstInv /\ TalkInv
  OBVIOUS
<1>1. Len(tcp) = 0
  BY EmptySeq DEF Init
<1> QED
  BY <1>1 DEF Init, EndInv, FirstInv, TalkInv, NoneFails, SendDone, RecvDone

\* Nothing fails and no message is misread, if the receiver's second
\* only expires when all is quiet: PacedProofs shows how long it has to be for that.
THEOREM NothingFails == ASSUME Prompt PROVE Spec => []NoAssertFails
<1>1. Init => EndInv /\ FirstInv /\ TalkInv
  BY TalkInit
<1>2. [Next]_vars => [PromptNext]_vars
  BY DEF RTimeout, Next, Receiver, PromptNext
<1>3. IInv /\ EndInv /\ FirstInv /\ TalkInv /\ [Next]_vars /\ IInv' => EndInv' /\ FirstInv' /\ TalkInv'
  BY <1>2, EndStep, FirstStep, TalkStep
<1>4. TalkInv => NoAssertFails
  BY DEF TalkInv, NoneFails, NoAssertFails
<1> QED
  BY <1>1, <1>3, <1>4, Inductive, PTL DEF Spec

-----------------------------------------------------------------------------
(* A transfer of fewer blocks than there are buffers stays Sound: what the   *)
(* environment has to grant is that the last block comes and that the         *)
(* second is long enough.                                                    *)

\* Quotient and remainder.
LEMMA Division ==
    ASSUME NEW n \in Nat \ {0}, NEW x \in Nat
    PROVE  x = n * (x \div n) + (x % n) /\ x \div n \in Int /\ x % n \in 0 .. n - 1
<1>1. x = n * (x \div n) + (x % n)
  OBVIOUS
<1>2. x \div n \in Int /\ x % n \in 0 .. n - 1
  OBVIOUS
<1> QED
  BY <1>1, <1>2

\* Numbers closer than n have different remainders.
LEMMA DifferentRemainders ==
    ASSUME NEW n \in Nat \ {0}, NEW x \in Nat, NEW y \in Nat, y < x, x < y + n
    PROVE  x % n # y % n
<1> DEFINE p == x \div n
           q == y \div n
<1>1. /\ p \in Int /\ q \in Int
      /\ x = n * p + (x % n) /\ y = n * q + (y % n)
      /\ x % n \in 0 .. n - 1 /\ y % n \in 0 .. n - 1
  BY Division
<1> HIDE DEF p, q
<1> SUFFICES ASSUME x % n = y % n PROVE FALSE
  OBVIOUS
<1>2. PICK d \in Int : d = p - q
  BY <1>1
<1>3. n * p = n * q + n * d
  BY <1>1, <1>2
<1>4. n * d \in Int /\ n * d = x - y
  <2> DEFINE u == n * p
             v == n * q
             w == n * d
  <2>1. u \in Int /\ v \in Int /\ w \in Int /\ u = v + w
    BY <1>1, <1>3
  <2>2. x = u + (x % n) /\ y = v + (x % n)
    BY <1>1
  <2> HIDE DEF u, v, w
  <2>3. w = x - y
    BY <1>1, <2>1, <2>2
  <2> QED
    BY <2>1, <2>3 DEF w
<1>5. CASE d <= 0
  <2>1. n * d <= 0
    BY <1>5
  <2> QED
    BY <1>4, <2>1
<1>6. CASE d >= 1
  <2>1. PICK e \in Nat : d = e + 1
    <3>1. d - 1 \in Nat /\ d = (d - 1) + 1
      BY <1>6
    <3> QED
      BY <3>1
  <2>2. n * d = n * e + n /\ n * e \in Nat
    BY <2>1
  <2> DEFINE z == n * e
             w == n * d
  <2>3. w = z + n /\ z \in Nat /\ w = x - y
    BY <1>4, <2>2
  <2> HIDE DEF z, w
  <2> QED
    BY <2>3
<1> QED
  BY <1>5, <1>6

\* The last block came, is on the link or waits in a buffer.
LastKept ==
    \/ Last \in delivered
    \/ \E k \in 1 .. Len(link) : link[k] = Last
    \/ \E k \in 1 .. Len(sq) : buf[sq[k]] = Last

\* Buffers are used in turn, those not read yet are the last ones posted, and fewer than
\* were posted of the list being served.  What was posted of the last block is not lost.
WindowInv ==
    /\ cur = sendcnt % NumBuffers
    /\ Len(sq) <= sendcnt
    /\ \A k \in 1 .. Len(sq) : sq[k] = (sendcnt - Len(sq) + k - 1) % NumBuffers
    /\ sRestran => Outstanding <= restraned
    /\ Len(rlist) <= NumBlocks
    /\ \A k \in 1 .. Len(tcp) : Len(tcp[k].seqs) <= NumBlocks
    /\ sendcnt >= NumBlocks => LastKept

\* No buffer is written before it was read: fewer are waiting than there are.
LEMMA PostKeepsBuffers ==
    ASSUME UseMessage, NumBuffers > NumBlocks, IInv, Sound, WindowInv, Post
    PROVE  /\ clobbered' = FALSE
           /\ buf' = buf \/ \A k \in 1 .. Len(sq') : sq'[k] # cur'
<1> USE NumBlocksAssumption, NumBuffersAssumption
<1>0. /\ SenderTypes /\ NetworkTypes /\ LoopInv /\ clobbered = FALSE /\ ExactSize
  BY DEF IInv, TypeOK, Sound, NetworkTypes
<1> DEFINE next == (sendcnt + 1) % NumBuffers
           n == Len(sq)
<1>1. /\ sq \in Seq(0 .. NumBuffers - 1) /\ n \in Nat /\ sendcnt \in Nat /\ n <= sendcnt
      /\ restraned \in Nat /\ scq \in Nat /\ rlist \in Seq(Nat) /\ Len(rlist) \in Nat
      /\ cur \in 0 .. NumBuffers - 1
  BY <1>0, LenProperties DEF SenderTypes, NetworkTypes, WindowInv
<1>2. /\ sq' = Append(sq, cur) /\ cur' = next
      /\ clobbered' = (clobbered \/ (buf' # buf /\ \E k \in 1 .. Len(sq') : sq'[k] = next))
      /\ sRestran => buf' = buf \/ restraned + 1 < Len(rlist)
      /\ sRestran \/ ~NothingLeft
  BY DEF Post, NextBuffer
<1>3. Len(sq') = n + 1 /\ \A k \in 1 .. n + 1 : sq'[k] = (sendcnt - n + k - 1) % NumBuffers
  <2>1. Len(sq') = n + 1 /\ sq'[n + 1] = cur /\ \A k \in 1 .. n : sq'[k] = sq[k]
    BY <1>1, <1>2, AppendProperties
  <2>2. cur = (sendcnt - n + (n + 1) - 1) % NumBuffers
    <3>1. sendcnt - n + (n + 1) - 1 = sendcnt
      BY <1>1
    <3> QED
      BY <3>1 DEF WindowInv
  <2>3. \A k \in 1 .. n : sq[k] = (sendcnt - n + k - 1) % NumBuffers
    BY DEF WindowInv
  <2>4. \A k \in 1 .. n + 1 : k \in 1 .. n \/ k = n + 1
    BY <1>1
  <2> QED
    BY <2>1, <2>2, <2>3, <2>4
<1>4. buf' # buf => n + 1 < NumBuffers
  <2>1. CASE sRestran
    <3>1. n + scq <= restraned /\ Len(rlist) <= NumBlocks
      BY <2>1 DEF WindowInv, Outstanding
    <3> QED
      BY <1>1, <1>2, <2>1, <3>1
  <2>2. CASE ~sRestran
    <3>1. sendcnt < NumBlocks
      BY <1>0, <1>1, <1>2, <2>2 DEF LoopInv, NothingLeft
    <3> QED
      BY <1>1, <3>1
  <2> QED
    BY <1>0, <2>1, <2>2 DEF SenderTypes
<1>5. ASSUME n + 1 < NumBuffers, NEW k \in 1 .. n + 1
      PROVE  sq'[k] # next
  <2> DEFINE y == sendcnt - n + k - 1
  <2>1. y \in Nat /\ y < sendcnt + 1 /\ sendcnt + 1 < y + NumBuffers /\ sendcnt + 1 \in Nat
    BY <1>1, <1>5
  <2>2. sq'[k] = y % NumBuffers
    BY <1>3
  <2> HIDE DEF y
  <2> QED
    BY <2>1, <2>2, DifferentRemainders
<1> QED
  BY <1>0, <1>2, <1>3, <1>4, <1>5


\* When all is quiet the last block has come: the tail is never asked for unseen.
LEMMA QuietHasLast ==
    ASSUME UseMessage, IInv, Sound, TalkInv, WindowInv, Quiet, link = <<>>
    PROVE  maxSeq = Last
<1> USE NumBlocksAssumption
<1>0. /\ TypeOK /\ DequeInv /\ DoneInv /\ LoopInv /\ maxSeq \in Int /\ Last \in Blocks /\ Last \in Int
      /\ Len(sq) = 0 /\ Len(link) = 0
  BY EmptySeq DEF IInv, TypeOK, ReceiverTypes, Blocks, Last, Quiet
<1>1. CASE SendDone
  BY <1>0, <1>1 DEF DoneInv, DequeInv
<1>2. CASE ~SendDone
  <2>1. spc \in {"loop", "poll"}
    BY <1>0, <1>2 DEF TypeOK, SenderTypes, SendDone, TalkInv, NoneFails
  <2>2. sendcnt >= NumBlocks
    BY <1>0, <2>1 DEF Quiet, NothingLeft, LoopInv
  <2>3. Last \in delivered
    BY <1>0, <2>2 DEF WindowInv, LastKept
  <2> QED
    BY <1>0, <2>3 DEF DequeInv
<1> QED
  BY <1>1, <1>2

\* A transfer that was Sound stays so.
LEMMA SoundStep ==
    ASSUME UseMessage, NumBuffers > NumBlocks, IInv, Sound, TalkInv, WindowInv, [PromptNext]_vars
    PROVE  Sound'
<1> USE DEF Sound
<1>1. ASSUME UNCHANGED <<clobbered, tailFilled>> PROVE Sound'
  BY <1>1
<1>2. CASE Post
  BY <1>2, PostKeepsBuffers DEF Post, recvVars
<1>3. ASSUME NEW t \in BOOLEAN, RSendList(t), t => Quiet /\ link = <<>>
      PROVE  Sound'
  <2>1. ~FillsTail(t)
    <3> SUFFICES ASSUME FillsTail(t) PROVE FALSE
      OBVIOUS
    <3>1. maxSeq \in Int /\ Last \in Int /\ maxSeq < Last /\ (maxSeq = Last \/ t)
      BY NumBlocksAssumption DEF FillsTail, FirstList, IInv, TypeOK, ReceiverTypes, Last
    <3>2. maxSeq # Last /\ t
      BY <3>1
    <3>3. maxSeq = Last
      BY <1>3, <3>2, QuietHasLast
    <3> QED
      BY <3>2, <3>3
  <2>2. ~tailFilled' /\ ~clobbered'
    BY <1>3, <2>1 DEF RSendList, nicVars
  <2> QED
    BY <2>2
<1>4. CASE \/ Sender /\ ~Post
           \/ Network \/ UNCHANGED vars
  BY <1>1, <1>4
  DEF Sender, SRecvFinish, SRecvList, SAssertFails, SRecvGarbage, SPeerGone, SWait, SPoll, SJoin,
      Network, NicSend, NicLose, NicNotReady, vars, nicVars, recvVars
<1>5. CASE RDuplicate \/ RInOrder \/ RFillFront \/ RFillInside \/ RAhead \/ RAssertFails \/ RCount
  BY <1>1, <1>5
  DEF RDuplicate, RInOrder, RFillFront, RFillInside, RAhead, RAssertFails, RCount, Take, nicVars
<1>6. CASE ROverflow \/ RNext
  BY <1>1, <1>6 DEF ROverflow, RNext, nicVars
<1>7. ASSUME NEW t \in BOOLEAN, RNoList(t) \/ RSendFails(t) PROVE Sound'
  BY <1>1, <1>7 DEF RNoList, RSendFails, nicVars
<1>8. CASE REndBatch
  <2>1. CASE RSendList(FALSE)
    BY <1>3, <2>1
  <2> QED
    BY <1>7, <1>8, <2>1 DEF REndBatch
<1>9. CASE RTimeout /\ Quiet
  <2>1. CASE RSendList(TRUE)
    BY <1>3, <1>9, <2>1 DEF RTimeout
  <2> QED
    BY <1>7, <1>9, <2>1 DEF RTimeout
<1> QED
  BY <1>2, <1>4, <1>5, <1>6, <1>8, <1>9 DEF PromptNext

\* WindowInv is preserved.
LEMMA WindowStep ==
    ASSUME UseMessage, KeepLast, NumBuffers > NumBlocks,
           IInv, Sound, TalkInv, WindowInv, [PromptNext]_vars, IInv', Sound'
    PROVE  WindowInv'
<1> USE NumBlocksAssumption, NumBuffersAssumption
<1> DEFINE Turn == /\ cur = sendcnt % NumBuffers
                   /\ Len(sq) <= sendcnt
                   /\ \A k \in 1 .. Len(sq) : sq[k] = (sendcnt - Len(sq) + k - 1) % NumBuffers
           Few == (sRestran => Outstanding <= restraned) /\ Len(rlist) <= NumBlocks
           Short == \A k \in 1 .. Len(tcp) : Len(tcp[k].seqs) <= NumBlocks
           Kept == sendcnt >= NumBlocks => LastKept
<1> SUFFICES Turn' /\ Few' /\ Short' /\ Kept'
  BY DEF WindowInv
<1>0. /\ Turn /\ Few /\ Short /\ Kept
      /\ SenderTypes /\ NetworkTypes /\ SenderTypes' /\ NetworkTypes' /\ ReceiverTypes
      /\ LoopInv /\ WireInv /\ DequeInv
      /\ sq \in Seq(0 .. NumBuffers - 1) /\ Len(sq) \in Nat /\ scq \in Nat /\ sendcnt \in Nat
      /\ tcp \in Seq(Messages) /\ Len(tcp) \in Nat /\ link \in Seq(Nat) /\ Len(link) \in Nat
      /\ rlist \in Seq(Nat) /\ Len(rlist) \in Nat /\ restraned \in Nat
      /\ cur \in 0 .. NumBuffers - 1
  BY LenProperties DEF IInv, TypeOK, WindowInv, NetworkTypes, SenderTypes
<1>1. sq # <<>> => /\ Len(Tail(sq)) = Len(sq) - 1 /\ Head(sq) = sq[1] /\ Len(sq) > 0
                   /\ \A k \in 1 .. Len(sq) - 1 : Tail(sq)[k] = sq[k + 1]
  BY <1>0, HeadTailProperties, EmptySeq
<1>2. tcp # <<>> => /\ Len(Tail(tcp)) = Len(tcp) - 1 /\ Head(tcp) = tcp[1] /\ 1 \in 1 .. Len(tcp)
                    /\ \A k \in 1 .. Len(tcp) - 1 : Tail(tcp)[k] = tcp[k + 1]
  BY <1>0, HeadTailProperties, EmptySeq
<1>3. ASSUME tcp' = tcp \/ (tcp # <<>> /\ tcp' = Tail(tcp)) PROVE Short'
  <2>1. CASE tcp' = tcp
    BY <1>0, <2>1
  <2>2. CASE tcp # <<>> /\ tcp' = Tail(tcp)
    <3> SUFFICES ASSUME NEW k \in 1 .. Len(tcp') PROVE Len(tcp'[k].seqs) <= NumBlocks
      OBVIOUS
    <3>1. k + 1 \in 1 .. Len(tcp) /\ tcp'[k] = tcp[k + 1]
      BY <1>0, <1>2, <2>2
    <3> QED
      BY <1>0, <3>1
  <2> QED
    BY <1>3, <2>1, <2>2
<1>4. UNCHANGED <<cur, sendcnt, sq>> => Turn'
  BY <1>0
<1>5. UNCHANGED <<sendcnt, delivered, link, sq, buf>> => Kept'
  BY <1>0 DEF LastKept
<1>6. ASSUME UNCHANGED <<sRestran, restraned, rlist>>, Outstanding' <= Outstanding, Outstanding \in Int,
             Outstanding' \in Int
      PROVE  Few'
  BY <1>0, <1>6
<1>7. Outstanding \in Nat /\ Outstanding' \in Nat
  <2>1. Len(sq') \in Nat /\ scq' \in Nat
    BY <1>0, LenProperties DEF NetworkTypes
  <2> QED
    BY <1>0, <2>1 DEF Outstanding
<1> HIDE DEF Turn, Few, Short, Kept
<1>8. CASE SRecvFinish \/ SAssertFails \/ SRecvGarbage \/ SPeerGone \/ SWait \/ SJoin \/ UNCHANGED vars
  <2>1. /\ tcp' = tcp \/ (tcp # <<>> /\ tcp' = Tail(tcp))
        /\ UNCHANGED <<cur, sendcnt, sq, scq, delivered, link, buf, sRestran, restraned, rlist>>
    BY <1>8 DEF SRecvFinish, SAssertFails, SRecvGarbage, SPeerGone, SWait, SJoin, vars, senderVars,
       nicVars, recvVars
  <2>2. Outstanding' = Outstanding
    BY <2>1 DEF Outstanding
  <2> QED
    BY <1>3, <1>4, <1>5, <1>6, <1>7, <2>1, <2>2
<1>9. CASE SPoll
  <2>1. /\ tcp' = tcp
        /\ UNCHANGED <<cur, sendcnt, sq, delivered, link, buf, sRestran, restraned, rlist>>
        /\ scq' = scq - (IF scq < PollBatch THEN scq ELSE PollBatch)
    BY <1>9 DEF SPoll, recvVars
  <2>2. scq' <= scq
    BY <1>0, <2>1, BoundsAssumption
  <2>3. Outstanding' <= Outstanding
    BY <1>0, <2>1, <2>2 DEF Outstanding, NetworkTypes
  <2> QED
    BY <1>3, <1>4, <1>5, <1>6, <1>7, <2>1, <2>3
\* A list comes when nothing is outstanding.
<1>10. CASE SRecvList
  <2>1. /\ tcp # <<>> /\ tcp' = Tail(tcp) /\ rlist' = Head(tcp).seqs
        /\ spc = "loop" /\ NothingLeft /\ restraned' = 0
        /\ UNCHANGED <<cur, sendcnt, sq, scq, delivered, link>>
    BY <1>10 DEF SRecvList, recvVars
  <2>2. Outstanding = 0 /\ Outstanding' = 0 /\ Len(sq) = 0
    <3>1. Outstanding = 0
      BY <2>1 DEF TalkInv, NothingLeft
    <3> QED
      BY <1>0, <2>1, <3>1 DEF Outstanding
  <2>3. Few'
    BY <1>0, <1>2, <2>1, <2>2 DEF Few, Short
  <2>4. Kept'
    BY <1>0, <2>1, <2>2 DEF Kept, LastKept
  <2> QED
    BY <1>3, <1>4, <2>1, <2>3, <2>4
\* The first pass posts the last block as its last.
<1>11. CASE Post
  <2>1. /\ sq' = Append(sq, cur) /\ sendcnt' = sendcnt + 1 /\ cur' = (sendcnt + 1) % NumBuffers
        /\ UNCHANGED <<scq, delivered, link, tcp, rlist>>
        /\ sRestran => restraned' = restraned + 1
        /\ ~sRestran => sRestran' = sRestran
        /\ sRestran \/ ~NothingLeft
    BY <1>11 DEF Post, NextBuffer, recvVars
  <2>2. Len(sq') = Len(sq) + 1 /\ sq'[Len(sq) + 1] = cur /\ \A k \in 1 .. Len(sq) : sq'[k] = sq[k]
    BY <1>0, <2>1, AppendProperties
  <2>3. Turn'
    <3>1. cur' = sendcnt' % NumBuffers /\ Len(sq') <= sendcnt'
      BY <1>0, <2>1, <2>2 DEF Turn
    <3>2. ASSUME NEW k \in 1 .. Len(sq') PROVE sq'[k] = (sendcnt' - Len(sq') + k - 1) % NumBuffers
      <4>1. sendcnt' - Len(sq') + k - 1 = sendcnt - Len(sq) + k - 1
        BY <1>0, <2>1, <2>2
      <4>2. CASE k \in 1 .. Len(sq)
        BY <1>0, <2>2, <4>1, <4>2 DEF Turn
      <4>3. CASE k = Len(sq) + 1
        <5>1. sendcnt - Len(sq) + k - 1 = sendcnt
          BY <1>0, <4>3
        <5> QED
          BY <1>0, <2>2, <4>1, <4>3, <5>1 DEF Turn
      <4> QED
        BY <1>0, <2>2, <4>2, <4>3
    <3> QED
      BY <3>1, <3>2 DEF Turn
  <2>4. Few'
    <3>1. Outstanding' = Outstanding + 1
      BY <1>0, <2>1, <2>2 DEF Outstanding
    <3> QED
      BY <1>0, <1>7, <2>1, <3>1 DEF Few
  <2>5. buf' = buf \/ \A k \in 1 .. Len(sq') : sq'[k] # cur'
    BY <1>11, PostKeepsBuffers
  <2>6. \A k \in 1 .. Len(sq') : buf'[sq'[k]] = buf[sq'[k]]
    <3>1. ASSUME NEW v, buf' = [buf EXCEPT ![cur'] = v], NEW k \in 1 .. Len(sq'), sq'[k] # cur'
          PROVE  buf'[sq'[k]] = buf[sq'[k]]
      <4>1. sq'[k] \in 0 .. NumBuffers - 1 /\ DOMAIN buf = 0 .. NumBuffers - 1
        BY <1>0, ElementOfSeq DEF NetworkTypes
      <4> QED
        BY <3>1, <4>1
    <3>2. buf' = buf \/ \E v : buf' = [buf EXCEPT ![cur'] = v]
      BY <1>11 DEF Post
    <3> QED
      BY <2>5, <3>1, <3>2
  <2>7. Kept'
    <3> SUFFICES ASSUME sendcnt' >= NumBlocks PROVE LastKept'
      BY DEF Kept
    <3>1. CASE sendcnt >= NumBlocks
      <4>1. LastKept
        BY <1>0, <3>1 DEF Kept
      <4>2. \A k \in 1 .. Len(sq) : k \in 1 .. Len(sq') /\ buf'[sq'[k]] = buf[sq[k]]
        BY <1>0, <2>2, <2>6
      <4> QED
        BY <2>1, <4>1, <4>2 DEF LastKept
    <3>2. CASE sendcnt = NumBlocks - 1
      <4>1. ~sRestran /\ blocksLeft > 0
        BY <1>0, <3>2 DEF LoopInv
      <4>2. buf[cur] = Last
        BY <1>0, <3>2, <4>1 DEF LoopInv, Last
      <4>3. Len(sq) + 1 \in 1 .. Len(sq') /\ buf'[sq'[Len(sq) + 1]] = Last
        <5>1. Len(sq) + 1 \in 1 .. Len(sq')
          BY <1>0, <2>2
        <5>2. buf'[sq'[Len(sq) + 1]] = buf[sq'[Len(sq) + 1]]
          BY <2>6, <5>1
        <5> QED
          BY <2>2, <4>2, <5>1, <5>2
      <4> QED
        BY <4>3 DEF LastKept
    <3> QED
      BY <1>0, <2>1, <3>1, <3>2
  <2> QED
    BY <1>3, <2>1, <2>3, <2>4, <2>7
\* A packet leaves its buffer, and if it is lost it is not that of the last block.
<1>12. ASSUME sq # <<>>, sq' = Tail(sq), scq' = scq + 1,
              UNCHANGED <<cur, sendcnt, sRestran, restraned, rlist, tcp, delivered, buf>>,
              \/ link' = Append(link, buf[Head(sq)])
              \/ link' = link /\ buf[Head(sq)] # Last
       PROVE  Turn' /\ Few' /\ Short' /\ Kept'
  <2>1. /\ Len(sq') = Len(sq) - 1 /\ Len(sq) > 0 /\ Head(sq) = sq[1]
        /\ \A k \in 1 .. Len(sq) - 1 : sq'[k] = sq[k + 1]
    BY <1>1, <1>12
  <2>2. Turn'
    <3>1. ASSUME NEW k \in 1 .. Len(sq) - 1 PROVE sq'[k] = (sendcnt - (Len(sq) - 1) + k - 1) % NumBuffers
      <4>1. k + 1 \in 1 .. Len(sq) /\ sendcnt - (Len(sq) - 1) + k - 1 = sendcnt - Len(sq) + (k + 1) - 1
        BY <1>0
      <4>2. sq[k + 1] = (sendcnt - Len(sq) + (k + 1) - 1) % NumBuffers
        BY <1>0, <4>1 DEF Turn
      <4> QED
        BY <2>1, <4>1, <4>2
    <3>2. cur = sendcnt % NumBuffers /\ Len(sq) - 1 <= sendcnt
      BY <1>0 DEF Turn
    <3> QED
      BY <1>12, <2>1, <3>1, <3>2 DEF Turn
  <2>3. Outstanding' = Outstanding
    BY <1>0, <1>12, <2>1 DEF Outstanding
  <2>4. Few' /\ Short'
    BY <1>3, <1>6, <1>7, <1>12, <2>3
  <2>5. Kept'
    <3> SUFFICES ASSUME sendcnt >= NumBlocks, ~LastKept' PROVE FALSE
      BY <1>12 DEF Kept
    <3>1. LastKept
      BY <1>0 DEF Kept
    <3>2. \A k \in 1 .. Len(link) : k \in 1 .. Len(link') /\ link'[k] = link[k]
      <4>1. PICK v : v = buf[Head(sq)]
        OBVIOUS
      <4>2. v \in Nat
        <5>1. sq[1] \in 0 .. NumBuffers - 1
          BY <1>0, <2>1, ElementOfSeq
        <5> QED
          BY <1>0, <2>1, <4>1, <5>1 DEF NetworkTypes
      <4>3. CASE link' = Append(link, v)
        BY <1>0, <4>2, <4>3, AppendProperties
      <4> QED
        BY <1>12, <4>1, <4>3
    <3>3. PICK k \in 1 .. Len(sq) : buf[sq[k]] = Last
      BY <1>12, <3>1, <3>2 DEF LastKept
    <3>4. CASE k = 1
      <4>1. link' = Append(link, Last)
        BY <1>12, <2>1, <3>3, <3>4
      <4>2. Len(link) + 1 \in 1 .. Len(link') /\ link'[Len(link) + 1] = Last
        BY <1>0, <4>1, AppendProperties
      <4> QED
        BY <4>2 DEF LastKept
    <3>5. CASE k > 1
      <4>1. k - 1 \in 1 .. Len(sq') /\ sq'[k - 1] = sq[k]
        BY <1>0, <2>1, <3>5
      <4> QED
        BY <1>12, <3>3, <4>1 DEF LastKept
    <3> QED
      BY <3>4, <3>5
  <2> QED
    BY <2>2, <2>4, <2>5
<1>13. CASE Network
  <2>1. CASE NicSend
    BY <1>12, <2>1 DEF NicSend, senderVars, recvVars
  <2>2. CASE NicLose
    BY <1>12, <2>2 DEF NicLose, senderVars, recvVars
  <2>3. ~NicNotReady
    BY DEF NicNotReady
  <2> QED
    BY <1>13, <2>1, <2>2, <2>3 DEF Network
\* The receiver does not touch the buffers; a packet taken is a block delivered.
<1>14. ASSUME UNCHANGED senderVars, UNCHANGED nicVars PROVE Turn' /\ Few'
  <2>1. UNCHANGED <<cur, sendcnt, sq, scq, sRestran, restraned, rlist>>
    BY <1>14 DEF senderVars, nicVars
  <2>2. Outstanding' = Outstanding
    BY <2>1 DEF Outstanding
  <2> QED
    BY <1>4, <1>6, <1>7, <2>1, <2>2
<1>15. ASSUME NEW pc, Take(pc) PROVE Turn' /\ Few' /\ Short' /\ Kept'
  <2>1. /\ UNCHANGED senderVars /\ UNCHANGED nicVars /\ UNCHANGED tcp
        /\ link # <<>> /\ link' = Tail(link) /\ delivered' = delivered \cup {Head(link)}
        /\ UNCHANGED <<sendcnt, sq, buf>>
    BY <1>15 DEF Take, senderVars, nicVars
  <2>2. /\ Len(link') = Len(link) - 1 /\ Head(link) = link[1]
        /\ \A k \in 1 .. Len(link) - 1 : link'[k] = link[k + 1]
    BY <1>0, <2>1, HeadTailProperties
  <2>3. Kept'
    <3> SUFFICES ASSUME sendcnt >= NumBlocks PROVE LastKept'
      BY <2>1 DEF Kept
    <3>1. LastKept
      BY <1>0 DEF Kept
    <3>2. ASSUME NEW k \in 1 .. Len(link), link[k] = Last PROVE LastKept'
      <4>1. CASE k = 1
        BY <2>1, <2>2, <3>2, <4>1 DEF LastKept
      <4>2. CASE k > 1
        <5>1. k - 1 \in 1 .. Len(link') /\ link'[k - 1] = link[k]
          BY <1>0, <2>2, <4>2
        <5> QED
          BY <3>2, <5>1 DEF LastKept
      <4> QED
        BY <4>1, <4>2
    <3> QED
      BY <2>1, <3>1, <3>2 DEF LastKept
  <2> QED
    BY <1>3, <1>14, <2>1, <2>3
<1>16. ASSUME NEW m \in Messages, tcp' = Append(tcp, m), Len(m.seqs) <= NumBlocks
       PROVE  Short'
  <2>1. /\ Len(tcp') = Len(tcp) + 1 /\ tcp'[Len(tcp) + 1] = m
        /\ \A k \in 1 .. Len(tcp) : tcp'[k] = tcp[k]
    BY <1>0, <1>16, AppendProperties
  <2> SUFFICES ASSUME NEW k \in 1 .. Len(tcp') PROVE Len(tcp'[k].seqs) <= NumBlocks
    BY DEF Short
  <2>2. k \in 1 .. Len(tcp) \/ k = Len(tcp) + 1
    BY <1>0, <2>1
  <2> QED
    BY <1>0, <1>16, <2>1, <2>2 DEF Short
<1>17. ASSUME NEW t \in BOOLEAN, RNoList(t) \/ RSendList(t) \/ RSendFails(t)
       PROVE  Turn' /\ Few' /\ Short' /\ Kept'
  <2>1. UNCHANGED senderVars /\ UNCHANGED nicVars /\ UNCHANGED <<link, delivered, sendcnt, sq, buf>>
    BY <1>17 DEF RNoList, RSendList, RSendFails, senderVars, nicVars
  <2>2. Short'
    <3>1. CASE RSendList(t)
      <4>1. PICK s \in Seq(Blocks) : Len(s) = NumBlocks - recvNum /\ tcp' = Append(tcp, ListMsg(s))
        BY <1>0, <3>1, SentList
      <4>2. ListMsg(s) \in Messages /\ ListMsg(s).seqs = s
        <5>1. s \in Seq(Nat)
          BY SeqMonotonic DEF Blocks
        <5> QED
          BY <5>1 DEF ListMsg, Messages
      <4>3. NumBlocks - recvNum <= NumBlocks
        BY <1>0 DEF ReceiverTypes
      <4> QED
        BY <1>16, <4>1, <4>2, <4>3
    <3>2. CASE tcp' = tcp
      BY <1>3, <3>2
    <3> QED
      BY <1>17, <3>1, <3>2 DEF RNoList, RSendFails
  <2> QED
    BY <1>5, <1>14, <2>1, <2>2
<1>18. CASE ROverflow \/ RNext
  <2>1. UNCHANGED senderVars /\ UNCHANGED nicVars /\ UNCHANGED <<link, delivered, sendcnt, sq, buf>>
    BY <1>18 DEF ROverflow, RNext, senderVars, nicVars
  <2>2. FileInfo \in Messages /\ Len(FileInfo.seqs) <= NumBlocks
    BY EmptySeq DEF FileInfo, Messages
  <2>3. Short'
    BY <1>3, <1>16, <1>18, <2>2 DEF ROverflow, RNext
  <2> QED
    BY <1>5, <1>14, <2>1, <2>3
<1>19. CASE RDuplicate \/ RInOrder \/ RFillFront \/ RFillInside \/ RAhead \/ RAssertFails \/ RCount
  BY <1>15, <1>19 DEF RDuplicate, RInOrder, RFillFront, RFillInside, RAhead, RAssertFails, RCount
<1>20. CASE REndBatch \/ RTimeout
  BY <1>17, <1>20 DEF REndBatch, RTimeout
<1> QED
  BY <1>8, <1>9, <1>10, <1>11, <1>13, <1>18, <1>19, <1>20 DEF PromptNext, Sender

\* No buffer is in use at the start.
LEMMA WindowInit == Init => WindowInv
<1> SUFFICES ASSUME Init PROVE WindowInv
  OBVIOUS
<1>1. /\ sendcnt = 0 /\ cur = 0 /\ sRestran = FALSE
      /\ Len(sq) = 0 /\ Len(rlist) = 0 /\ Len(tcp) = 0
  BY EmptySeq DEF Init
<1>2. 0 % NumBuffers = 0
  BY NumBuffersAssumption
<1> QED
  BY <1>1, <1>2, NumBlocksAssumption DEF WindowInv

\* What a step from a Sound transfer may do, whoever is responsible for the second.
LEMMA SoundInductive ==
    ASSUME UseMessage, KeepLast, NumBuffers > NumBlocks,
           IInv, TalkInv, WindowInv, Sound, [PromptNext]_vars, IInv'
    PROVE  WindowInv' /\ Sound'
  BY SoundStep, WindowStep

\* A transfer of full blocks that fit into the sender's buffers stays Sound, as long as the
\* last block is not lost and the second is long enough: no list is asked for before the last
\* block was seen, and no buffer written before it was read (699-717).
THEOREM StaysSound ==
    ASSUME Prompt, UseMessage, ExactSize, KeepLast, NumBuffers > NumBlocks
    PROVE  Spec => []Sound
<1>1. Init => EndInv /\ FirstInv /\ TalkInv /\ WindowInv /\ Sound
  BY TalkInit, WindowInit DEF Init, Sound
<1>2. [Next]_vars => [PromptNext]_vars
  BY DEF RTimeout, Next, Receiver, PromptNext
<1>3. IInv /\ EndInv /\ FirstInv /\ TalkInv /\ WindowInv /\ Sound /\ [Next]_vars /\ IInv'
        => EndInv' /\ FirstInv' /\ TalkInv' /\ WindowInv' /\ Sound'
  BY <1>2, EndStep, FirstStep, TalkStep, SoundInductive
<1> QED
  BY <1>1, <1>3, Inductive, PTL DEF Spec

\* Such a transfer is a copy in every step.
THEOREM CopiesSafely ==
    ASSUME Prompt, UseMessage, ExactSize, KeepLast, NumBuffers > NumBlocks
    PROVE  Spec => Copy!Init /\ [][Copy!Next]_<<delivered, RecvDone, SendDone>>
<1>1. [UseMessage /\ Sound' => [Copy!Next]_<<delivered, RecvDone, SendDone>>]_vars /\ Sound'
        => [Copy!Next]_<<delivered, RecvDone, SendDone>>
  BY DEF vars, senderVars, recvVars, RecvDone, SendDone
<1> QED
  BY <1>1, ImplementsCopy, StaysSound, PTL
=============================================================================
