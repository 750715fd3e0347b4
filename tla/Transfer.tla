------------------------------ MODULE Transfer ------------------------------
(***************************************************************************)
(* One file transfer between StreamControl::postSendFile (the sender) and  *)
(* StreamControl::postRecvFile (the receiver), from the moment both have    *)
(* synchronised until both have left their loops.                           *)
(*                                                                         *)
(* Data goes over an RDMA queue pair: unreliable (UC) with UseMessage, in   *)
(* which case the receiver asks over TCP for the blocks it misses; reliable *)
(* (RC) otherwise.  A block is its sequence number, which the sender writes *)
(* into the first word of a registered buffer; the adapter reads that       *)
(* buffer later, when it transmits.                                         *)
(***************************************************************************)
EXTENDS Integers, Sequences, FiniteSets

CONSTANTS
    NumBlocks,    \* numOfBlocks, 553-613: the blocks of the file
    NumBuffers,   \* buffers.size(): the sender's registered buffers
    RecvBuffers,  \* receive work requests the receiver keeps posted
    PollBatch,    \* completions one ibv_poll_cq returns at most (16)
    UseMessage,   \* use_message: UC with retransmission lists, or RC
    ExactSize,    \* the file size is a multiple of the block size
    KeepLast,     \* environment: the link never loses the last block
    Prompt,       \* environment: a second without packets means all is quiet
    MaxLoss,      \* bound: packets the link loses
    MaxPosts,     \* bound: blocks the sender posts in all
    MaxLists      \* bound: messages waiting in the TCP connection

ASSUME NumBlocksAssumption == NumBlocks \in Nat \ {0}
\* With a single buffer the next number is written over the block being posted.
ASSUME NumBuffersAssumption == NumBuffers \in Nat \ {0, 1}
ASSUME BoundsAssumption ==
    /\ RecvBuffers \in Nat \ {0}
    /\ PollBatch \in Nat \ {0}
    /\ MaxLoss \in Nat
    /\ MaxPosts \in Nat
    /\ MaxLists \in Nat
ASSUME FlagsAssumption == {UseMessage, ExactSize, KeepLast, Prompt} \subseteq BOOLEAN

VARIABLES
    spc,         \* sender: "loop", "poll", "join", "finished", "blocked", "aborted"
    blocksLeft,  \* bytes_left, in blocks (rounded up)
    sendcnt,     \* sendcnt, which also is i: blocks posted
    rlist,       \* restran_num and restran_space: the list being served
    restraned,   \* restraned_num
    sRestran,    \* the sender's start_restran
    restranCap,  \* numbers allocated for restran_space, 0 before the first list
    buf,         \* the number in the first word of each buffer
    cur,         \* wr.wr_id: the buffer the next post uses
    sq,          \* buffers posted and not yet read by the adapter
    scq,         \* successful send completions not yet polled
    wcError,     \* a send completed with an error (RC only)
    link,        \* packets that arrived and were not yet taken by the receiver
    losses,      \* packets lost so far
    tcp,         \* messages from the receiver to the sender
    rpc,         \* receiver: "poll", "batch", "done", "sync", "failed", "aborted"
    recvNum,     \* recv_num
    expect,      \* expect_seq
    maxSeq,      \* recv_max_seq
    deque,       \* unrecv_packet_seqs
    first,       \* the receiver's first_restran
    delivered,   \* history: the blocks the receiver has had in a buffer
    tailFilled,  \* history: line 481-487 appended the tail to the deque
    clobbered    \* history: a posted buffer was written before it was read

senderVars == <<spc, blocksLeft, sendcnt, rlist, restraned, sRestran, restranCap, cur>>
nicVars    == <<buf, sq, scq, wcError, losses, clobbered>>
recvVars   == <<rpc, recvNum, expect, maxSeq, deque, first, delivered, tailFilled>>
vars       == <<senderVars, nicVars, recvVars, link, tcp>>

Blocks == 0 .. NumBlocks - 1
Last   == NumBlocks - 1

\* A list of missing blocks (an empty one says "finished"), or the FileInfo
\* with which the receiver asks for the next file.
ListMsg(s) == [kind |-> "list", seqs |-> s]
FileInfo   == [kind |-> "fileinfo", seqs |-> <<>>]

Init ==
    /\ spc = "loop" /\ blocksLeft = NumBlocks /\ sendcnt = 0
    /\ rlist = <<>> /\ restraned = 0 /\ sRestran = FALSE /\ restranCap = 0
    /\ buf = [b \in 0 .. NumBuffers - 1 |-> 0] /\ cur = 0
    /\ sq = <<>> /\ scq = 0 /\ wcError = FALSE /\ losses = 0 /\ clobbered = FALSE
    /\ link = <<>> /\ tcp = <<>>
    /\ rpc = "poll" /\ recvNum = 0 /\ expect = 0 /\ maxSeq = -1
    /\ deque = <<>> /\ first = TRUE
    /\ delivered = {} /\ tailFilled = FALSE

-----------------------------------------------------------------------------
(* The sender.                                                             *)

Outstanding == Len(sq) + scq

\* bytes_left == 0.  It goes down by whole blocks, so it passes zero and wraps
\* round when the last block is not a full one.
NothingLeft_OneMore == ExactSize /\ blocksLeft < 0   \* mutant
NothingLeft == ExactSize /\ blocksLeft = 0

\* The statistic thread, which the sender joins, runs while ack_bytes < total.
Acked == sendcnt - Outstanding

\* recv(restran_num) returns 0: the receiver has everything.
SRecvFinish ==
    /\ UseMessage /\ spc = "loop"
    /\ tcp # <<>> /\ Head(tcp) = ListMsg(<<>>)
    /\ tcp' = Tail(tcp)
    /\ spc' = "join"
    /\ UNCHANGED <<blocksLeft, sendcnt, rlist, restraned, sRestran, restranCap, cur,
                   nicVars, recvVars, link>>

\* recv(restran_num) returns the length of a list, which is read to its end.
SRecvList ==
    /\ UseMessage /\ spc = "loop"
    /\ tcp # <<>> /\ Head(tcp).kind = "list" /\ Head(tcp).seqs # <<>>
    /\ ~sRestran /\ NothingLeft                     \* the asserts at 646 and 669
    /\ tcp' = Tail(tcp)
    /\ rlist' = Head(tcp).seqs
    /\ restranCap' = IF restranCap = 0 THEN Len(rlist') ELSE restranCap
    /\ buf' = [buf EXCEPT ![cur] = rlist'[1]]
    /\ blocksLeft' = blocksLeft + Len(rlist')
    /\ restraned' = 0 /\ sRestran' = TRUE
    /\ UNCHANGED <<spc, sendcnt, cur, sq, scq, wcError, losses, clobbered, recvVars, link>>

\* A list that comes while blocks are still to be sent fails an assert.
SAssertFails ==
    /\ UseMessage /\ spc = "loop"
    /\ tcp # <<>> /\ Head(tcp).kind = "list" /\ Head(tcp).seqs # <<>>
    /\ sRestran \/ ~NothingLeft
    /\ spc' = "aborted"
    /\ tcp' = Tail(tcp)
    /\ UNCHANGED <<blocksLeft, sendcnt, rlist, restraned, sRestran, restranCap, cur,
                   nicVars, recvVars, link>>

\* The first word of a FileInfo is taken for the length of a list, and the
\* sender waits for more bytes than will ever come.
SRecvGarbage ==
    /\ UseMessage /\ spc = "loop"
    /\ tcp # <<>> /\ Head(tcp) = FileInfo
    /\ spc' = "blocked"
    /\ tcp' = Tail(tcp)
    /\ UNCHANGED <<blocksLeft, sendcnt, rlist, restraned, sRestran, restranCap, cur,
                   nicVars, recvVars, link>>

\* The receiver is gone: recv fails and postSendFile returns with the statistic
\* thread still joinable, which ends the process.
SPeerGone ==
    /\ UseMessage /\ spc = "loop"
    /\ tcp = <<>> /\ rpc \in {"failed", "aborted"}
    /\ spc' = "aborted"
    /\ UNCHANGED <<blocksLeft, sendcnt, rlist, restraned, sRestran, restranCap, cur,
                   nicVars, recvVars, link, tcp>>

\* Not yet timeToSend(): straight to the completion queue.
SWait ==
    /\ UseMessage /\ spc = "loop"
    /\ spc' = "poll"
    /\ UNCHANGED <<blocksLeft, sendcnt, rlist, restraned, sRestran, restranCap, cur,
                   nicVars, recvVars, link, tcp>>

\* i % buffers.size(): the buffer after the one just posted.
NextBuffer_NoWrap == sendcnt + 1   \* mutant
NextBuffer == (sendcnt + 1) % NumBuffers

\* ibv_post_send of buffer cur; the next buffer gets its number at once, be it
\* still outstanding or not.
Post ==
    LET next   == NextBuffer
        served == restraned + 1
    IN  /\ spc = "loop" /\ sendcnt < MaxPosts
        /\ UseMessage => sRestran \/ ~NothingLeft
        /\ sq' = Append(sq, cur)
        /\ blocksLeft' = blocksLeft - 1
        /\ sendcnt' = sendcnt + 1
        /\ cur' = next
        /\ IF sRestran
           THEN /\ restraned' = served
                /\ sRestran' = (served < Len(rlist))
                /\ buf' = IF served < Len(rlist)
                          THEN [buf EXCEPT ![next] = rlist[served + 1]]
                          ELSE buf
           ELSE /\ buf' = [buf EXCEPT ![next] = sendcnt + 1]
                /\ UNCHANGED <<restraned, sRestran>>
        /\ clobbered' = (clobbered \/ (buf' # buf /\ \E k \in 1 .. Len(sq') : sq'[k] = next))
        /\ spc' = "poll"
        /\ UNCHANGED <<rlist, restranCap, scq, wcError, losses, recvVars, link, tcp>>

\* The do-while at 721-752 goes round while all buffers are outstanding, or
\* all is sent and something is outstanding.
PollAgain_NotAtEnd == Outstanding >= NumBuffers   \* mutant
PollAgain == Outstanding >= NumBuffers \/ (NothingLeft /\ Outstanding > 0)

\* One ibv_poll_cq of the sender.
SPoll ==
    LET n == IF scq < PollBatch THEN scq ELSE PollBatch
    IN  /\ spc = "poll"
        /\ scq' = scq - n
        /\ UNCHANGED <<blocksLeft, sendcnt, rlist, restraned, sRestran, restranCap, cur,
                       buf, sq, wcError, losses, clobbered, recvVars, link, tcp>>
        /\ IF wcError /\ n < PollBatch
           THEN spc' = "aborted"
           ELSE spc' = CASE PollAgain' -> "poll"
                         [] ~PollAgain' /\ ~UseMessage /\ NothingLeft -> "join"
                         [] OTHER -> "loop"

\* statistic_thread.join()
SJoin ==
    /\ spc = "join" /\ Acked >= NumBlocks
    /\ spc' = "finished"
    /\ UNCHANGED <<blocksLeft, sendcnt, rlist, restraned, sRestran, restranCap, cur,
                   nicVars, recvVars, link, tcp>>

-----------------------------------------------------------------------------
(* The adapters and the network between them.                              *)

SenderAlive == spc # "aborted"

\* The adapter reads the oldest posted buffer and the packet gets through.
NicSend ==
    /\ SenderAlive /\ sq # <<>> /\ ~wcError
    /\ Len(link) < RecvBuffers
    /\ link' = Append(link, buf[Head(sq)])
    /\ sq' = Tail(sq) /\ scq' = scq + 1
    /\ UNCHANGED <<senderVars, buf, wcError, losses, clobbered, recvVars, tcp>>

\* UC: the packet is lost, on the way or for want of a posted receive; the
\* sender's completion is a success all the same.
NicLose ==
    /\ UseMessage /\ SenderAlive /\ sq # <<>>
    /\ losses < MaxLoss
    /\ KeepLast => buf[Head(sq)] # Last
    /\ losses' = losses + 1
    /\ sq' = Tail(sq) /\ scq' = scq + 1
    /\ UNCHANGED <<senderVars, buf, wcError, clobbered, recvVars, link, tcp>>

\* RC with rnr_retry 0: no posted receive, the queue pair goes to error.
NicNotReady ==
    /\ ~UseMessage /\ SenderAlive /\ sq # <<>> /\ ~wcError
    /\ Len(link) >= RecvBuffers
    /\ wcError' = TRUE
    /\ UNCHANGED <<senderVars, buf, sq, scq, losses, clobbered, recvVars, link, tcp>>

-----------------------------------------------------------------------------
(* The receiver: one action per way of handling a packet (400-466).        *)

ReceiverAlive == rpc \notin {"failed", "aborted"}

\* Every packet is taken from the completion queue, its number is read and its
\* buffer is posted again before anything is decided.
Take(pc) ==
    /\ rpc \in {"poll", "batch"} /\ link # <<>>
    /\ link' = Tail(link)
    /\ delivered' = delivered \cup {Head(link)}
    /\ rpc' = pc
    /\ UNCHANGED <<senderVars, nicVars, tcp, first, tailFilled>>

\* Where unrecv_packet_seqs[recv_id - expect_seq] is, counting from 1.
Slot(id) == id - expect + 1
Known_Never(id) == FALSE   \* mutant
Known(id) == Slot(id) \in DOMAIN deque /\ deque[Slot(id)].recved

\* A block already counted.
RDuplicate ==
    LET id == Head(link)
    IN  /\ Take("batch") /\ UseMessage
        /\ \/ id < expect
           \/ id > expect /\ id < maxSeq /\ Known(id)
           \/ id > expect /\ id = maxSeq
        /\ UNCHANGED <<recvNum, expect, maxSeq, deque>>

\* The next block, and none beyond it was seen.
RInOrder ==
    LET id == Head(link)
    IN  /\ Take("batch") /\ UseMessage
        /\ id = expect /\ expect > maxSeq
        /\ expect' = expect + 1 /\ maxSeq' = id
        /\ recvNum' = recvNum + 1
        /\ UNCHANGED deque

FrontAsserts(id) == expect # maxSeq /\ deque # <<>> /\ deque[1].seq = id

\* The block at the front of the deque: everything received behind it is popped.
RFillFront ==
    LET id == Head(link)
    IN  /\ Take("batch") /\ UseMessage
        /\ id = expect /\ expect <= maxSeq /\ FrontAsserts(id)
        /\ \E p \in 1 .. Len(deque) :
              /\ \A j \in 2 .. p : deque[j].recved
              /\ p < Len(deque) => ~deque[p + 1].recved
              /\ deque' = SubSeq(deque, p + 1, Len(deque))
              /\ expect' = expect + p
        /\ recvNum' = recvNum + 1
        /\ UNCHANGED maxSeq

\* A missing block in the middle of the deque.
RFillInside ==
    LET id == Head(link)
    IN  /\ Take("batch") /\ UseMessage
        /\ id > expect /\ id < maxSeq
        /\ Slot(id) \in DOMAIN deque /\ ~Known(id)
        /\ deque' = [deque EXCEPT ![Slot(id)].recved = TRUE]
        /\ recvNum' = recvNum + 1
        /\ UNCHANGED <<expect, maxSeq>>

\* The blocks lo .. hi, none of them received, as deque entries.
Gap(lo, hi) == [j \in 1 .. hi - lo + 1 |-> [seq |-> lo + j - 1, recved |-> FALSE]]

\* A block beyond all seen so far: those skipped are missing.
RAhead ==
    LET id == Head(link)
    IN  /\ Take("batch") /\ UseMessage
        /\ id > expect /\ id > maxSeq
        /\ deque' = (deque \o Gap(maxSeq + 1, id - 1)) \o <<[seq |-> id, recved |-> TRUE]>>
        /\ maxSeq' = id
        /\ recvNum' = recvNum + 1
        /\ UNCHANGED expect

\* One of the asserts at 429-431 and 444 fails, or the index is out of range.
RAssertFails ==
    LET id == Head(link)
    IN  /\ Take("aborted") /\ UseMessage
        /\ \/ id = expect /\ expect <= maxSeq /\ ~FrontAsserts(id)
           \/ id > expect /\ id < maxSeq /\ Slot(id) \notin DOMAIN deque
        /\ UNCHANGED <<recvNum, expect, maxSeq, deque>>

\* RC: the number is not looked at.
RCount ==
    /\ Take("batch") /\ ~UseMessage
    /\ recvNum' = recvNum + 1
    /\ UNCHANGED <<expect, maxSeq, deque>>

-----------------------------------------------------------------------------
(* The receiver: what it does at the end of a batch (470-538).             *)

Unreceived_All(d) == DOMAIN d   \* mutant
Unreceived(d) == {j \in DOMAIN d : ~d[j].recved}

\* The first k missing blocks of deque d, in order.  Were there fewer, the rest
\* of restran_space would be sent with whatever it holds.
MissingList(d, k) ==
    LET nth(m) == {j \in Unreceived(d) : Cardinality({x \in Unreceived(d) : x <= j}) = m}
    IN  [m \in 1 .. k |-> IF nth(m) = {} THEN 0 ELSE d[CHOOSE j \in nth(m) : TRUE].seq]

\* The loop test at 379.
LoopOrLeave_Early == IF recvNum + 1 < NumBlocks THEN "poll" ELSE "done"   \* mutant
LoopOrLeave == IF recvNum < NumBlocks THEN "poll" ELSE "done"

FirstList_Always(timeout) == maxSeq = Last \/ timeout   \* mutant
FirstList(timeout) == first /\ (maxSeq = Last \/ timeout)
SendsList_NoEnd(timeout) == UseMessage /\ (FirstList(timeout) \/ timeout)   \* mutant
SendsList(timeout) == UseMessage /\ (FirstList(timeout) \/ timeout \/ expect = NumBlocks)

\* The deque the list is made from: the first list takes in the tail that was
\* never seen, without moving recv_max_seq.
FillsTail(timeout) == FirstList(timeout) /\ maxSeq < Last
ListedDeque(timeout) ==
    IF FillsTail(timeout) THEN deque \o Gap(maxSeq + 1, Last) ELSE deque

\* unrecv_num: how many blocks a list asks for.
ListLength_Deque == Cardinality(Unreceived(deque))   \* mutant
ListLength == NumBlocks - recvNum

\* Nothing to ask for yet.
RNoList(timeout) ==
    /\ ~SendsList(timeout)
    /\ rpc' = LoopOrLeave
    /\ UNCHANGED <<senderVars, nicVars, link, tcp, recvNum, expect, maxSeq, deque,
                   first, delivered, tailFilled>>

\* The list goes out on TCP.
RSendList(timeout) ==
    /\ SendsList(timeout) /\ recvNum <= NumBlocks
    /\ Len(tcp) < MaxLists
    /\ deque' = ListedDeque(timeout)
    /\ tcp' = Append(tcp, ListMsg(MissingList(deque', ListLength)))
    /\ first' = FALSE
    /\ tailFilled' = (tailFilled \/ FillsTail(timeout))
    /\ rpc' = LoopOrLeave
    /\ UNCHANGED <<senderVars, nicVars, link, recvNum, expect, maxSeq, delivered>>

\* The send fails because the sender is gone.
RSendFails(timeout) ==
    /\ SendsList(timeout) /\ ~SenderAlive
    /\ rpc' = "failed"
    /\ UNCHANGED <<senderVars, nicVars, link, tcp, recvNum, expect, maxSeq, deque,
                   first, delivered, tailFilled>>

\* numOfBlocks - recv_num, which is unsigned, wraps round: the memory behind
\* restran_space is written to.
ROverflow ==
    /\ rpc \in {"poll", "batch"} /\ SendsList(FALSE) /\ recvNum > NumBlocks
    /\ rpc' = "aborted"
    /\ UNCHANGED <<senderVars, nicVars, link, tcp, recvNum, expect, maxSeq, deque,
                   first, delivered, tailFilled>>

\* The batch is handled; with nothing to take the same tests are made again.
REndBatch ==
    /\ rpc \in {"poll", "batch"}
    /\ RNoList(FALSE) \/ RSendList(FALSE) \/ RSendFails(FALSE)

\* Nothing is under way: the packet the receiver waits for is lost.
Quiet ==
    /\ tcp = <<>> /\ sq = <<>> /\ scq = 0
    /\ spc \in {"loop", "poll"} => NothingLeft

\* ibv_poll_cq returns 0 and the last packet or list is more than a second old.
RTimeout ==
    /\ UseMessage /\ rpc = "poll" /\ link = <<>>
    /\ Prompt => Quiet
    /\ RSendList(TRUE) \/ RSendFails(TRUE)

\* postRecvFile returns 0 and is called again: it offers to take another file.
RNext ==
    /\ rpc = "done"
    /\ rpc' = "sync"
    /\ tcp' = Append(tcp, FileInfo)
    /\ UNCHANGED <<senderVars, nicVars, link, recvNum, expect, maxSeq, deque,
                   first, delivered, tailFilled>>

-----------------------------------------------------------------------------
Sender   == \/ SRecvFinish \/ SRecvList \/ SAssertFails \/ SRecvGarbage \/ SPeerGone
            \/ SWait \/ Post \/ SPoll \/ SJoin
Network  == NicSend \/ NicLose \/ NicNotReady
Receiver == \/ RDuplicate \/ RInOrder \/ RFillFront \/ RFillInside \/ RAhead
            \/ RAssertFails \/ RCount \/ REndBatch \/ ROverflow \/ RTimeout \/ RNext

Next == Sender \/ Network \/ Receiver

Spec == Init /\ [][Next]_vars

-----------------------------------------------------------------------------
(* Correctness.                                                            *)

Messages == [kind : {"list", "fileinfo"}, seqs : Seq(Nat)]
Items    == [seq : Nat, recved : BOOLEAN]

SenderTypes ==
    /\ spc \in {"loop", "poll", "join", "finished", "blocked", "aborted"}
    /\ blocksLeft \in Int /\ sendcnt \in Nat
    /\ rlist \in Seq(Nat) /\ restraned \in Nat /\ sRestran \in BOOLEAN
    /\ restranCap \in Nat /\ cur \in 0 .. NumBuffers - 1

NetworkTypes ==
    /\ buf \in [0 .. NumBuffers - 1 -> Nat]
    /\ sq \in Seq(0 .. NumBuffers - 1) /\ scq \in Nat /\ wcError \in BOOLEAN
    /\ losses \in Nat /\ clobbered \in BOOLEAN
    /\ link \in Seq(Nat) /\ tcp \in Seq(Messages)

ReceiverTypes ==
    /\ rpc \in {"poll", "batch", "done", "sync", "failed", "aborted"}
    /\ recvNum \in Nat /\ expect \in Nat /\ maxSeq \in Nat \cup {-1}
    /\ deque \in Seq(Items) /\ first \in BOOLEAN
    /\ delivered \in SUBSET Nat /\ tailFilled \in BOOLEAN

\* Type invariant of the loops' variables.
TypeOK == SenderTypes /\ NetworkTypes /\ ReceiverTypes

\* What the code needs of its surroundings: full blocks only, no list asked for
\* before the last block was seen, no buffer reused before it was read.
Sound == ExactSize /\ ~tailFilled /\ ~clobbered

RecvDone == rpc \in {"done", "sync"}
SendDone == spc \in {"join", "finished"}

\* The receiver leaves its loop with success only when every block of the file
\* has been in one of its buffers, whatever was lost, repeated or reordered by
\* retransmission (recv_num is the only thing the loop looks at, 379).
Complete == UseMessage /\ Sound /\ RecvDone => delivered = Blocks

\* The loss of the last packets is provided for (the comment at 469): the
\* receiver does not go on to the next file while the sender still waits for a
\* list.
TailLossHandled == spc # "blocked"

\* recv_num counts each block once: duplicates are never counted, and no block
\* is dropped without being counted.
RecvCount == UseMessage /\ Sound => recvNum = Cardinality(delivered)

\* Every list the receiver sends names exactly the blocks it has not had, each
\* once and in order, so nothing is retransmitted in vain or forgotten.
Ascending(s) == \A j, k \in DOMAIN s : j < k => s[j] < s[k]
ListExact ==
    [][LET new == tcp'[Len(tcp')]
       IN  Sound' /\ Len(tcp') > Len(tcp) /\ new.kind = "list" =>
             /\ {new.seqs[j] : j \in DOMAIN new.seqs} = Blocks \ delivered
             /\ Ascending(new.seqs)]_vars

\* The sender leaves its loop only when the receiver has the whole file, and
\* then enough completions were polled for the statistic thread to have ended:
\* nobody polls the completion queue any more, so the join would last forever.
FinishJustified ==
    UseMessage /\ Sound /\ SendDone => delivered = Blocks /\ Acked >= NumBlocks

\* None of the asserts of the two loops fails, and the sender never takes a FileInfo for a list.
NoAssertFails ==
    Sound /\ UseMessage => rpc \notin {"failed", "aborted"}
                                     /\ spc \notin {"aborted", "blocked"}

\* The sender allocates restran_space for the first list only (647-651), and
\* reads every later list into it, and the receiver does the same (475-497): no
\* list may be longer than the first.
ListFits == Len(rlist) <= restranCap

\* Whatever the adapter reads is the number of a block of the file.
OnlyBlocks == Sound => \A k \in DOMAIN link : link[k] \in Blocks

\* The asserts at 646 and 669: a list comes only when all is sent.
ListWhenIdle ==
    spc = "loop" /\ tcp # <<>> /\ Head(tcp).kind = "list" /\ Head(tcp).seqs # <<>>
        => ~sRestran /\ NothingLeft

\* RC: unless the queue pair failed, every block posted is somewhere, and the
\* sender leaves with all of them in the receiver's queue or counted.
RcConserves ==
    ~UseMessage /\ ~wcError =>
        /\ recvNum + Len(link) + Len(sq) = sendcnt
        /\ SendDone => recvNum + Len(link) = NumBlocks

\* The transfer ends on both sides.
Finishes == <>(spc = "finished") /\ <>(rpc = "sync")

\* Under Sound this is what a file transfer promises: see FileCopy.
Copy == INSTANCE FileCopy WITH
            got <- delivered, rdone <- RecvDone, sdone <- SendDone
CopySpec == Copy!Spec
=============================================================================
