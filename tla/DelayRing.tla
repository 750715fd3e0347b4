----------------------------- MODULE DelayRing -----------------------------
(***************************************************************************)
(* The delay ring of switch1.cpp.  The sniffing thread receives every       *)
(* packet straight into the place at the head of the ring, forwards some at *)
(* once, and queues the others by moving the head on, under a mutex.  The   *)
(* delaying thread sends what has been in the ring for DELAY_MS, under the  *)
(* same mutex, and between two rounds waits on a condition variable that    *)
(* nobody notifies: it wakes by its time limit, which is again DELAY_MS.    *)
(*                                                                          *)
(* Time is kept as ages: a place carries how long ago its packet arrived,   *)
(* so that "now >= send_time" is "age >= Delay".                            *)
(***************************************************************************)
EXTENDS Naturals, Sequences

CONSTANTS
    Size,     \* DELAY_BUF_SIZE
    Delay,    \* DELAY_MS, in ticks
    MaxPkts   \* bound: packets received in all

ASSUME ConstantsAssumption ==
    Size \in Nat \ {0, 1} /\ Delay \in Nat \ {0} /\ MaxPkts \in Nat

Places  == 0 .. Size - 1
Packets == 1 .. MaxPkts
None    == 0
Old     == 2 * Delay       \* ages are not told apart from here on

VARIABLES
    head, tail,  \* _head and _tail
    ring,        \* delay_buf: [pkt, age, valid]
    arrived,     \* packets received so far: they are numbered in order
    spc,         \* sniffing thread: "loop", "receive", "put", "ended"
    held,        \* age of the packet in hand, its now_time being read
    dpc,         \* delaying thread: "loop", "send" (holding the mutex), "wait", "ended"
    waited,      \* how long it has waited
    sent,        \* the delayed packets sent: [pkt, age]
    stop,        \* stop_event
    late         \* history: time went by while a thread had something to do

vars == <<head, tail, ring, arrived, spc, held, dpc, waited, sent, stop, late>>

Init ==
    /\ head = 0 /\ tail = 0
    /\ ring = [p \in Places |-> [pkt |-> None, age |-> 0, valid |-> FALSE]]
    /\ arrived = 0 /\ spc = "loop" /\ held = 0
    /\ dpc = "loop" /\ waited = 0
    /\ sent = <<>> /\ stop = FALSE /\ late = FALSE

After_NoWrap(p) == p + 1   \* mutant
After(p) == (p + 1) % Size

-----------------------------------------------------------------------------
(* The sniffing thread.                                                    *)

MutexFree == dpc # "send"

\* It reads the head, which nobody else writes, under the mutex.
SLoop ==
    /\ spc = "loop" /\ ~stop /\ MutexFree
    /\ spc' = "receive"
    /\ UNCHANGED <<head, tail, ring, arrived, held, dpc, waited, sent, stop, late>>

\* recvfrom(MSG_DONTWAIT) has nothing.
SNothing ==
    /\ spc = "receive"
    /\ spc' = "loop"
    /\ UNCHANGED <<head, tail, ring, arrived, held, dpc, waited, sent, stop, late>>

\* recvfrom writes into the place at the head, without the mutex.
Receive ==
    /\ spc = "receive" /\ arrived < MaxPkts
    /\ arrived' = arrived + 1
    /\ ring' = [ring EXCEPT ![head].pkt = arrived']
    /\ UNCHANGED <<head, tail, dpc, waited, sent, stop, late>>

\* A UDP packet or a reply is to be queued.
SDelayed ==
    /\ Receive
    /\ spc' = "put" /\ held' = 0

\* A request is forwarded at once, another packet dropped: the place is used again.
SAtOnce ==
    /\ Receive
    /\ spc' = "loop" /\ held' = held

\* recvfrom returns 0: the thread leaves and stops the others.
SClosed ==
    /\ spc = "receive"
    /\ spc' = "ended" /\ stop' = TRUE
    /\ UNCHANGED <<head, tail, ring, arrived, held, dpc, waited, sent, late>>

\* The packet is queued.  There is no test for a full ring.
SPut ==
    /\ spc = "put" /\ MutexFree
    /\ ring' = [ring EXCEPT ![head].age = held, ![head].valid = TRUE]
    /\ head' = After(head)
    /\ spc' = "loop" /\ held' = 0
    /\ UNCHANGED <<tail, arrived, dpc, waited, sent, stop, late>>

\* The loop is left because of stop_event.
SLeave ==
    /\ spc = "loop" /\ stop
    /\ spc' = "ended"
    /\ UNCHANGED <<head, tail, ring, arrived, held, dpc, waited, sent, stop, late>>

Sniffer == SLoop \/ SNothing \/ SDelayed \/ SAtOnce \/ SClosed \/ SPut \/ SLeave

-----------------------------------------------------------------------------
(* The delaying thread.                                                    *)

\* _tail != _head
Queued_Valid == ring[tail].valid   \* mutant
Queued == tail # head

\* now >= send_time
Aged_Soon(age) == age + 1 >= Delay   \* mutant
Aged(age) == age >= Delay

Due_Anywhere == \E p \in Places : ring[p].valid /\ Aged(ring[p].age)   \* mutant
Due == Queued /\ ring[tail].valid /\ Aged(ring[tail].age)

\* It takes the mutex at the top of its loop.
DLoop ==
    /\ dpc = "loop" /\ ~stop
    /\ dpc' = "send"
    /\ UNCHANGED <<head, tail, ring, arrived, spc, held, waited, sent, stop, late>>

DSend ==
    /\ dpc = "send" /\ Due
    /\ sent' = Append(sent, [pkt |-> ring[tail].pkt, age |-> ring[tail].age])
    /\ ring' = [ring EXCEPT ![tail].valid = FALSE, ![tail].age = 0]
    /\ tail' = After(tail)
    /\ UNCHANGED <<head, arrived, spc, held, dpc, waited, stop, late>>

\* Nothing more is due: wait_for gives the mutex up.
DWait ==
    /\ dpc = "send" /\ ~Due
    /\ dpc' = "wait" /\ waited' = 0
    /\ UNCHANGED <<head, tail, ring, arrived, spc, held, sent, stop, late>>

\* The wait ends by its time limit.
Expired_Never == FALSE   \* mutant
Expired == waited >= Delay
DWake ==
    /\ dpc = "wait" /\ Expired
    /\ dpc' = "loop" /\ waited' = 0
    /\ UNCHANGED <<head, tail, ring, arrived, spc, held, sent, stop, late>>

\* Or it is woken without cause and finds its condition true.
DSpurious ==
    /\ dpc = "wait" /\ (stop \/ Due)
    /\ dpc' = "loop" /\ waited' = 0
    /\ UNCHANGED <<head, tail, ring, arrived, spc, held, sent, stop, late>>

\* It leaves with whatever is still in the ring.
DLeave ==
    /\ dpc = "loop" /\ stop
    /\ dpc' = "ended"
    /\ UNCHANGED <<head, tail, ring, arrived, spc, held, waited, sent, stop, late>>

Delayer == DLoop \/ DSend \/ DWait \/ DWake \/ DLeave

-----------------------------------------------------------------------------
(* A signal, and time.                                                     *)

StopHandler ==
    /\ ~stop /\ stop' = TRUE
    /\ UNCHANGED <<head, tail, ring, arrived, spc, held, dpc, waited, sent, late>>

Older(age) == IF age < Old THEN age + 1 ELSE age
OlderIf(counts, age) == IF counts THEN Older(age) ELSE age

\* A thread that could go on: a queued packet in hand, a round to make, a wait over.
Overdue == spc = "put" \/ dpc \in {"loop", "send"} \/ (dpc = "wait" /\ Expired)

\* Only the clocks that are read again go on.
Tick ==
    /\ ring' = [p \in Places |-> [ring[p] EXCEPT !.age = OlderIf(ring[p].valid, @)]]
    /\ held' = OlderIf(spc = "put", held)
    /\ waited' = OlderIf(dpc = "wait", waited)
    /\ late' = (late \/ Overdue)
    /\ UNCHANGED <<head, tail, arrived, spc, dpc, sent, stop>>

Next == Sniffer \/ Delayer \/ DSpurious \/ StopHandler \/ Tick

Fairness == WF_vars(Sniffer) /\ WF_vars(Delayer) /\ WF_vars(Tick)

Spec == Init /\ [][Next]_vars /\ Fairness

-----------------------------------------------------------------------------
(* Correctness.                                                            *)

\* Type invariant: both ends stay within the ring, and what is sent is a packet
\* that arrived, never what a place held before any did.
TypeOK ==
    /\ {head, tail} \subseteq Places
    /\ ring \in [Places -> [pkt : Packets \cup {None}, age : 0 .. Old, valid : BOOLEAN]]
    /\ arrived \in 0 .. MaxPkts
    /\ spc \in {"loop", "receive", "put", "ended"} /\ held \in 0 .. Old
    /\ dpc \in {"loop", "send", "wait", "ended"} /\ waited \in 0 .. Old
    /\ sent \in Seq([pkt : Packets, age : 0 .. Old])
    /\ stop \in BOOLEAN /\ late \in BOOLEAN

\* Delayed packets leave in the order they arrived and none leaves twice, even
\* when the head has run over the tail and places are in use again.
SentInOrder == \A j, k \in DOMAIN sent : j < k => sent[j].pkt < sent[k].pkt

\* No packet leaves before its delay is over, and as long as the two threads are
\* never held up none takes twice the delay, although the delaying thread sleeps
\* a whole delay between two rounds and is never notified.
OnTime ==
    \A j \in DOMAIN sent :
        /\ sent[j].age >= Delay
        /\ sent[j].age >= 2 * Delay => late

\* What is in the ring, in the order it will be sent.
Waiting == [i \in 1 .. (head + Size - tail) % Size |-> ring[(tail + i - 1) % Size].pkt]
SentPkts == [i \in DOMAIN sent |-> sent[i].pkt]

\* The ring is a DelayLine: receiving into the head's place and reusing a place
\* disturb no packet that waits, and the one thing that loses packets is a line
\* that is full.
Line == INSTANCE DelayLine WITH Places <- Size, line <- Waiting, gone <- SentPkts
LineSpec == Line!Spec

\* Every packet in the ring leaves it, unless the switch is stopped; and once
\* stop_event is set both threads end, wherever they are.
InLine(p) == \E i \in DOMAIN Waiting : Waiting[i] = p
Drains ==
    /\ \A p \in Packets : InLine(p) ~> (~InLine(p) \/ stop)
    /\ stop ~> (spc = "ended" /\ dpc = "ended")
=============================================================================
