--------------------------- MODULE RateCollector ---------------------------
(***************************************************************************)
(* The master's gathering of transmission rates: one collector thread per   *)
(* client (collect_rate_info) fills the elements of rate_queue, one element *)
(* per interval of time, and the checker thread (check_and_send_thread)     *)
(* publishes them in order.  The threads share the RateCollector, under     *)
(* queue_mutex but for the flags read and written outside it.               *)
(*                                                                         *)
(* A client's reports are numbered 0, 1, ..., the last one carrying the     *)
(* rate -1.  Two programs share the code: in master.cpp client i starts     *)
(* Offset intervals after client i-1, in test-case.cpp each has a delay of  *)
(* its own; they differ in when an element is complete, in which last       *)
(* reports are noticed, and in the figures of the last record.              *)
(***************************************************************************)
EXTENDS Integers, Sequences, FiniteSets

CONSTANTS
    NumClients,   \* client_num
    Offset,       \* master: intervals between the starts of two clients (100)
    Delays,       \* test-case: delays of a client, in intervals
    MinReports,   \* a last report numbered at most this is not noticed (5)
    MinLast,      \* environment: the least number of a last report
    MaxLast,      \* bound: the greatest number of a last report
    MayDrop       \* environment: a client's connection may be lost

ASSUME ConstantsAssumption ==
    /\ NumClients \in Nat \ {0}
    /\ {Offset, MinReports, MinLast, MaxLast} \subseteq Nat /\ Delays \subseteq Nat
    /\ 0 < MinLast /\ MinLast <= MaxLast
    /\ MayDrop \in BOOLEAN

Clients == 0 .. NumClients - 1

VARIABLES
    program,    \* "master" or "test-case"
    start,      \* the interval in which a client starts
    last,       \* the number of the report with rate -1, per client
    next,       \* the number of the next report to be received, per client
    cpc,        \* collector: "recv", "left" the loop, "notify", "ended"
    queue,      \* rate_queue
    waitSeq,    \* wait_seq_num
    finArr,     \* finished_arr
    finCount,   \* finished_count
    finished,   \* finished
    kpc,        \* checker: "test", "locked", "falling" asleep, "asleep", "done"
    published,  \* history: the records sent
    missed      \* history: a notification came while the checker fell asleep

setting       == <<program, start, last>>
collectorVars == <<setting, next, cpc>>
queueVars     == <<queue, waitSeq, finArr, finCount>>
vars == <<collectorVars, queueVars, finished, kpc, published, missed>>

\* A RateQueueElem: which kind of report of each client it holds.
NewElem(s) == [seq |-> s, rates |-> [i \in Clients |-> "none"], ready |-> FALSE]

Init ==
    /\ \/ program = "master" /\ start = [i \in Clients |-> i * Offset]
       \/ program = "test-case" /\ start \in [Clients -> Delays]
    /\ last \in [Clients -> MinLast .. MaxLast]
    /\ next = [i \in Clients |-> 0]
    /\ cpc = [i \in Clients |-> "recv"]
    /\ queue = <<>> /\ waitSeq = 0
    /\ finArr = [i \in Clients |-> FALSE] /\ finCount = 0 /\ finished = FALSE
    /\ kpc = "test" /\ published = <<>> /\ missed = FALSE

-----------------------------------------------------------------------------
(* The collectors.                                                         *)

TrueSeq(i) == next[i] + start[i]

\* The mutex is held by the checker from its test until it sleeps.
MutexFree == kpc # "falling"

\* rate_queue after the elements up to number t were made (at least one).
Grown(t) ==
    LET newest == IF waitSeq <= t THEN t
                  ELSE IF queue = <<>> THEN waitSeq ELSE waitSeq - 1
    IN  queue \o [k \in 1 .. newest + 1 - waitSeq |-> NewElem(waitSeq + k - 1)]

\* Who is asked whether an element is complete: the master leaves out the client
\* whose report this is, and those that start later.
Asked_Late(elem, i) == {j \in Clients \ {i} : elem.seq > start[j]}   \* mutant
Asked_All(elem, i) == Clients   \* mutant
Asked(elem, i) ==
    IF program = "master" THEN {j \in Clients \ {i} : elem.seq >= start[j]} ELSE Clients

AllReady(elem, i) ==
    \A j \in Asked(elem, i) : elem.rates[j] # "none" \/ finArr[j]

\* Whether report n of client i, if it is the last, makes it a finished one.
Noticed(n) == IF program = "master" THEN n > MinReports ELSE n > 0

\* notify_one, notify_all: there is one thread that waits.
Notified_Nobody == kpc   \* mutant
Notified == IF kpc = "asleep" THEN "locked" ELSE kpc

\* One report is received and handled.
Report(i) ==
    LET t     == TrueSeq(i)
        final == next[i] = last[i]
        grown == Grown(t)
        at    == t - grown[1].seq + 1
        elem  == [grown[at] EXCEPT !.rates[i] = IF final THEN "end" ELSE "rate"]
        ready == AllReady(elem, i)
    IN  /\ cpc[i] = "recv" /\ next[i] <= last[i] /\ MutexFree
        /\ next' = [next EXCEPT ![i] = @ + 1]
        /\ queue' = [grown EXCEPT ![at] = [elem EXCEPT !.ready = @ \/ ready]]
        /\ waitSeq' = waitSeq + Len(grown) - Len(queue)
        /\ kpc' = IF ready THEN Notified ELSE kpc
        /\ IF final /\ Noticed(next[i])
           THEN finCount' = finCount + 1 /\ finArr' = [finArr EXCEPT ![i] = TRUE]
           ELSE UNCHANGED <<finCount, finArr>>
        /\ UNCHANGED <<setting, cpc, finished, published, missed>>

\* recv returns 0 or less: the client closed after its last report, or was lost.
Closed(i) ==
    /\ cpc[i] = "recv"
    /\ next[i] > last[i] \/ MayDrop
    /\ cpc' = [cpc EXCEPT ![i] = "left"]
    /\ UNCHANGED <<setting, next, queueVars, finished, kpc, published, missed>>

\* Behind the loop, without the mutex: the last collector sets the flag ...
SetFinished(i) ==
    /\ cpc[i] = "left"
    /\ finished' = (finished \/ finCount = NumClients)
    /\ cpc' = [cpc EXCEPT ![i] = IF finCount = NumClients THEN "notify" ELSE "ended"]
    /\ UNCHANGED <<setting, next, queueVars, kpc, published, missed>>

\* ... and notifies the checker, which may be between its test and its sleep.
NotifyFinished(i) ==
    /\ cpc[i] = "notify"
    /\ kpc' = Notified
    /\ missed' = (missed \/ kpc = "falling")
    /\ cpc' = [cpc EXCEPT ![i] = "ended"]
    /\ UNCHANGED <<setting, next, queueVars, finished, published>>

-----------------------------------------------------------------------------
(* The checker.                                                            *)

\* The predicate of the wait.
MayPublish_AnyFront == queue # <<>>   \* mutant
MayPublish == finished \/ (queue # <<>> /\ queue[1].ready)

\* The loop test, without the mutex.
KTest ==
    /\ kpc = "test"
    /\ kpc' = IF finished /\ queue = <<>> THEN "done" ELSE "locked"
    /\ UNCHANGED <<collectorVars, queueVars, finished, published, missed>>

\* The predicate of the wait is false.
KFall ==
    /\ kpc = "locked" /\ ~MayPublish
    /\ kpc' = "falling"
    /\ UNCHANGED <<collectorVars, queueVars, finished, published, missed>>

\* The wait lets the mutex go.
KSleep ==
    /\ kpc = "falling"
    /\ kpc' = "asleep"
    /\ UNCHANGED <<collectorVars, queueVars, finished, published, missed>>

\* A wait may return for no reason.
KSpurious ==
    /\ kpc = "asleep"
    /\ kpc' = "locked"
    /\ UNCHANGED <<collectorVars, queueVars, finished, published, missed>>

\* Nothing is left when the wait is over.
KBreak ==
    /\ kpc = "locked" /\ finished /\ queue = <<>>
    /\ kpc' = "done"
    /\ UNCHANGED <<collectorVars, queueVars, finished, published, missed>>

\* The test for the last record of the job.
LastRecord_AllFinished == program = "master" /\ finCount = NumClients   \* mutant
LastRecord == program = "master" /\ finCount = NumClients /\ Len(queue) = 1

\* The front element is made a record and popped; the last record of the master's
\* job also carries fairness and stability.
KPublish ==
    /\ kpc = "locked" /\ MayPublish /\ queue # <<>>
    /\ published' = Append(published,
            [seq |-> queue[1].seq, rates |-> queue[1].rates,
             fairness |-> LastRecord])
    /\ queue' = Tail(queue)
    /\ kpc' = "test"
    /\ UNCHANGED <<collectorVars, waitSeq, finArr, finCount, finished, missed>>

-----------------------------------------------------------------------------
Collector(i) == Report(i) \/ Closed(i) \/ SetFinished(i) \/ NotifyFinished(i)
Checker      == KTest \/ KFall \/ KSleep \/ KBreak \/ KPublish

Next == (\E i \in Clients : Collector(i)) \/ Checker \/ KSpurious

Spec == Init /\ [][Next]_vars

\* Every thread runs, and the mutex is fair enough for a collector to get it
\* between two rounds of the checker.
Fairness ==
    /\ \A i \in Clients : /\ SF_vars(Report(i))
                          /\ WF_vars(Closed(i) /\ next[i] > last[i])
                          /\ WF_vars(SetFinished(i) \/ NotifyFinished(i))
    /\ WF_vars(Checker)

FairSpec == Spec /\ Fairness

-----------------------------------------------------------------------------
(* Correctness.                                                            *)

\* The index true_seq_num - front_seq_num, a difference of unsigned numbers, is
\* never negative: no element is popped before all who report on it have.
NoUnderflow ==
    \A i \in Clients :
        cpc[i] = "recv" /\ next[i] <= last[i] /\ TrueSeq(i) < waitSeq
            => queue # <<>> /\ queue[1].seq <= TrueSeq(i)

\* Interval s of client i in the job's time, or not at all.
Expected(i, s) ==
    CASE s - start[i] \in 0 .. last[i] - 1 -> "rate"
      [] s - start[i] = last[i] -> "end"
      [] OTHER -> "none"

\* The records go out without gap or repetition, and each has the report of
\* every client that was transferring at the time, though the clients' reports
\* come in any order and the checker does not wait for those that finished.
InOrderComplete ==
    \A k \in DOMAIN published :
        /\ published[k].seq = k - 1
        /\ \A i \in Clients : published[k].rates[i] = Expected(i, k - 1)

\* The publication is not late: an element is ready as soon as all clients that are in the
\* middle of their transfer have reported on it, whatever the order.  In test-case.cpp
\* those that have not started count as missing: there the element must have all.
NotLate ==
    \A k \in DOMAIN queue :
        LET elem == queue[k]
            due  == {i \in Clients : elem.seq >= start[i]}
        IN  /\ due = Clients \/ (due # {} /\ program = "master")
            /\ \A i \in due : elem.seq <= start[i] + last[i] /\ elem.rates[i] # "none"
            => elem.ready

\* When every client sends its last report and none is too short to be noticed, the
\* checker ends, as the main thread that joins it needs, unless the only
\* notification fell between its test and its sleep.
CheckerEnds ==
    (\A i \in Clients : Noticed(last[i]) /\ <>(next[i] > last[i]))
        => <>(kpc = "done" \/ missed)

\* Seen from outside, both programs do what Publication says and nothing else: no record is
\* left out, repeated or incomplete, none comes after the last report of all is out, the
\* figures go out once, with the last record, and the checker ends only when all is out.
Public == INSTANCE Publication WITH
            records <- published, over <- kpc = "done", figures <- program = "master"
PublishSpec == Public!Spec
=============================================================================
