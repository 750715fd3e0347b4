-------------------------------- MODULE Job --------------------------------
(***************************************************************************)
(* How the master runs its jobs.  For each job it starts a thread per       *)
(* client, which sends the client's daemon a command and then collects what *)
(* the transfer reports over the same connection until it is closed; the    *)
(* daemon detaches a transfer thread per command.  A job is over when all   *)
(* these threads and the checker have been joined, and the checker ends     *)
(* when every client has been counted (its details are in RateCollector).   *)
(*                                                                         *)
(* A transfer meets its server as in Handshake; what it does then is in     *)
(* Transfer, and here only its last report and its end.                     *)
(***************************************************************************)
EXTENDS Handshake

CONSTANTS
    Clients,     \* the clients of master.conf, each on a host of its own
    MaxJobs,     \* bound: jobs asked for
    MaxFailures  \* bound: things that go wrong

Jobs == 1 .. MaxJobs
Conn(j, c) == <<j, c>>

ASSUME JobAssumption ==
    MaxJobs \in Nat /\ MaxFailures \in Nat /\ Conns = Jobs \X Clients

VARIABLES
    job,      \* the number of the latest job
    mpc,      \* master: "idle" (in consume), "running" a job, "gone"
    thread,   \* its thread for each client: "none", "connect", "collect", "done"
    counted,  \* finished_arr
    checker,  \* what it knows of the end: "waits"; "told", so that it ends; "lost", if
              \* the notification came between its test of finished and its sleep
    daemon,   \* each client's daemon: "up", "down"
    xfer,     \* each transfer: "none", "command", "setup", "meet", "sending", "tail",
              \* "ended"; "failed": returned early; "dead": with its process
    rate,     \* its connection to the master: "none", "open", "cut", or closed by
              \* the transfer, after a last report that counts ("last") or not ("short")
    failures  \* in which job things went wrong, as often as they did

jobVars == <<job, mpc, thread, counted, checker, daemon, xfer, rate, failures>>
vars == <<jobVars, meeting>>

Init ==
    /\ HandshakeInit
    /\ job = 0 /\ mpc = "idle"
    /\ thread = [c \in Clients |-> "none"] /\ counted = [c \in Clients |-> FALSE]
    /\ checker = "waits"
    /\ daemon \in [Clients -> {"up", "down"}]   \* as earlier jobs left them
    /\ xfer = [x \in Conns |-> "none"] /\ rate = [x \in Conns |-> "none"]
    /\ failures = <<>>

\* Something goes wrong with a transfer that the program has to live with.
Wrong(x) == Len(failures) < MaxFailures /\ failures' = Append(failures, x[1])

-----------------------------------------------------------------------------
(* The master.                                                             *)

\* A message asks for a job.
TakeMessage ==
    /\ mpc = "idle" /\ job < MaxJobs
    /\ job' = job + 1 /\ mpc' = "running"
    /\ thread' = [c \in Clients |-> "connect"]
    /\ counted' = [c \in Clients |-> FALSE] /\ checker' = "waits"
    /\ UNCHANGED <<daemon, xfer, rate, failures, meeting>>

\* The script that switches DCQCN fails: consume returns, and the master with it.
ScriptFails ==
    /\ mpc = "idle" /\ job < MaxJobs
    /\ mpc' = "gone"
    /\ UNCHANGED <<job, thread, counted, checker, daemon, xfer, rate, failures, meeting>>

SendCommand(c) ==
    LET x == Conn(job, c)
    IN  /\ thread[c] = "connect" /\ daemon[c] = "up"
        /\ thread' = [thread EXCEPT ![c] = "collect"]
        /\ xfer' = [xfer EXCEPT ![x] = "command"]
        /\ rate' = [rate EXCEPT ![x] = "open"]
        /\ UNCHANGED <<job, mpc, counted, checker, daemon, failures, meeting>>

\* The daemon is not there: the thread ends, and its client is never counted.
ConnectFails(c) ==
    /\ thread[c] = "connect" /\ daemon[c] = "down"
    /\ thread' = [thread EXCEPT ![c] = "done"]
    /\ UNCHANGED <<job, mpc, counted, checker, daemon, xfer, rate, failures, meeting>>

\* The last report is received.
Count(c) ==
    /\ thread[c] = "collect" /\ rate[Conn(job, c)] = "last" /\ ~counted[c]
    /\ counted' = [counted EXCEPT ![c] = TRUE]
    /\ UNCHANGED <<job, mpc, thread, checker, daemon, xfer, rate, failures, meeting>>

\* finished, and the checker notified, by a thread that finds every client counted.
\* It does not lock: a checker about to sleep misses it, one that knows keeps it.
Finished_Some == \E c \in Clients : counted[c]   \* mutant
Finished == \A c \in Clients : counted[c]
NotifyChecker ==
    IF Finished
    THEN checker' \in IF checker = "told" THEN {"told"} ELSE {"told", "lost"}
    ELSE UNCHANGED checker

\* recv returns 0 or an error.
CollectEnds(c) ==
    /\ thread[c] = "collect" /\ rate[Conn(job, c)] \notin {"none", "open"}
    /\ rate[Conn(job, c)] = "last" => counted[c]
    /\ thread' = [thread EXCEPT ![c] = "done"]
    /\ NotifyChecker
    /\ UNCHANGED <<job, mpc, counted, daemon, xfer, rate, failures, meeting>>

\* A condition variable may wake up for nothing.
SpuriousWakeUp ==
    /\ checker = "lost"
    /\ checker' = "told"
    /\ UNCHANGED <<job, mpc, thread, counted, daemon, xfer, rate, failures, meeting>>

\* The threads are joined, then the checker.
JobOver ==
    /\ mpc = "running" /\ \A c \in Clients : thread[c] = "done"
    /\ checker = "told"
    /\ mpc' = "idle"
    /\ UNCHANGED <<job, thread, counted, checker, daemon, xfer, rate, failures, meeting>>

-----------------------------------------------------------------------------
(* A client's daemon.                                                      *)

\* It has read the whole command and detaches handle_transfer.
ReadCommand(x) ==
    /\ xfer[x] = "command" /\ daemon[x[2]] = "up"
    /\ xfer' = [xfer EXCEPT ![x] = "setup"]
    /\ UNCHANGED <<job, mpc, thread, counted, checker, daemon, rate, failures, meeting>>

\* What the end of a client's process leaves of its transfers and connections.
Active == {"command", "setup", "meet", "sending", "tail"}
Left(c, state) == [x \in Conns |-> IF x[2] = c /\ state[x] \in Active THEN "dead" ELSE state[x]]
Closed(c, state) == [x \in Conns |-> IF x[2] = c /\ state[x] = "open" THEN "cut" ELSE state[x]]

ProcessEnds(c) ==
    /\ daemon' = [daemon EXCEPT ![c] = "down"]
    /\ xfer' = Left(c, xfer) /\ rate' = Closed(c, rate)
    /\ side' = [x \in Conns |->
                  IF x[2] = c /\ xfer[x] \in Active
                  THEN [side[x] EXCEPT !["client"].pc = "failed"] ELSE side[x]]
    /\ UNCHANGED <<wire, split>>

\* The connection breaks before all of the command came, and is closed.  If the type
\* came a transfer is started with what else there is; if not, zero means CMD_END.
CutCommand(x) ==
    /\ xfer[x] = "command" /\ Wrong(x)
    /\ \/ /\ xfer' = [xfer EXCEPT ![x] = "setup"]
          /\ rate' = [rate EXCEPT ![x] = "cut"]
          /\ UNCHANGED <<daemon, meeting>>
       \/ ProcessEnds(x[2])
    /\ UNCHANGED <<job, mpc, thread, counted, checker>>

-----------------------------------------------------------------------------
(* A transfer.                                                             *)

\* handle_transfer returns early.  Nobody closes the connection to the master.
Return(x) ==
    /\ xfer' = [xfer EXCEPT ![x] = "failed"]
    /\ UNCHANGED <<job, mpc, thread, counted, checker, daemon, rate>>

\* Configuration, adapter, or connection to the server.
NoConnection(x) ==
    /\ xfer[x] = "setup" /\ Wrong(x) /\ Return(x)
    /\ UNCHANGED meeting

Dial(x) ==
    /\ xfer[x] = "setup" /\ Open(x)
    /\ xfer' = [xfer EXCEPT ![x] = "meet"]
    /\ UNCHANGED <<job, mpc, thread, counted, checker, daemon, rate, failures>>

\* Either side goes on with its handshake.
Exchanges(x) ==
    /\ \/ xfer[x] = "meet" /\ Meet(x, "client")
       \/ Meet(x, "server")
    /\ UNCHANGED jobVars

\* One of them gives up, for a reason of its own or after the other.
GivesUp(x) ==
    \E s \in Sides :
        /\ HandshakeFails(x, s)
        /\ IF Gone(x, Other(s)) THEN UNCHANGED failures ELSE Wrong(x)
        /\ IF s = "client" THEN xfer[x] = "meet" /\ Return(x)
           ELSE UNCHANGED <<job, mpc, thread, counted, checker, daemon, xfer, rate>>

\* postSendFile starts sending, and the statistic thread reporting.
Start(x) ==
    /\ xfer[x] = "meet" /\ side[x]["client"].pc = "through"
    /\ xfer' = [xfer EXCEPT ![x] = "sending"]
    /\ UNCHANGED <<job, mpc, thread, counted, checker, daemon, rate, failures, meeting>>

\* All blocks are sent: the last report goes out, and the connection is closed.
ClosedAs_Open(state) == state   \* mutant
ClosedAs(state) == IF state = "open" THEN "last" ELSE state
LastReport(x) ==
    /\ xfer[x] = "sending"
    /\ xfer' = [xfer EXCEPT ![x] = "tail"]
    /\ rate' = [rate EXCEPT ![x] = ClosedAs(@)]
    /\ UNCHANGED <<job, mpc, thread, counted, checker, daemon, failures, meeting>>

\* The same with a last report numbered 5 or less.
ShortReport(x) ==
    /\ xfer[x] = "sending" /\ rate[x] = "open" /\ Wrong(x)
    /\ xfer' = [xfer EXCEPT ![x] = "tail"]
    /\ rate' = [rate EXCEPT ![x] = "short"]
    /\ UNCHANGED <<job, mpc, thread, counted, checker, daemon, meeting>>

\* The receiver has all blocks, some of which it asked for again.
End(x) ==
    /\ xfer[x] = "tail"
    /\ xfer' = [xfer EXCEPT ![x] = "ended"]
    /\ UNCHANGED <<job, mpc, thread, counted, checker, daemon, rate, failures, meeting>>

\* An assert or an early return of postSendFile ends the whole process.
Abort(x) ==
    /\ xfer[x] \in {"sending", "tail"} /\ Wrong(x)
    /\ ProcessEnds(x[2])
    /\ UNCHANGED <<job, mpc, thread, counted, checker>>

\* The connection to the master is lost.
DropRate(x) ==
    /\ rate[x] = "open" /\ xfer[x] # "command" /\ Wrong(x)
    /\ rate' = [rate EXCEPT ![x] = "cut"]
    /\ UNCHANGED <<job, mpc, thread, counted, checker, daemon, xfer, meeting>>

-----------------------------------------------------------------------------

Master == TakeMessage \/ ScriptFails \/ SpuriousWakeUp \/ JobOver
Thread(c) == SendCommand(c) \/ ConnectFails(c) \/ Count(c) \/ CollectEnds(c)
Goes(x) == ReadCommand(x) \/ Dial(x) \/ Exchanges(x) \/ Start(x) \/ LastReport(x)
Fails(x) == CutCommand(x) \/ NoConnection(x) \/ GivesUp(x) \/ ShortReport(x) \/ Abort(x) \/ DropRate(x)

Next ==
    \/ Master
    \/ \E c \in Clients : Thread(c)
    \/ \E x \in Conns : Goes(x) \/ End(x) \/ Fails(x)

\* The threads run, and a transfer gets its blocks sent.
Fairness ==
    /\ WF_vars(JobOver)
    /\ \A c \in Clients : WF_vars(Thread(c))
    /\ \A x \in Conns : WF_vars(Goes(x))

Spec == Init /\ [][Next]_vars /\ Fairness

-----------------------------------------------------------------------------
(* Properties.                                                             *)

\* Types, of the handshake's variables too.
TypeOK ==
    /\ HandshakeTypes
    /\ job \in 0 .. MaxJobs /\ mpc \in {"idle", "running", "gone"}
    /\ thread \in [Clients -> {"none", "connect", "collect", "done"}]
    /\ counted \in [Clients -> BOOLEAN] /\ checker \in {"waits", "told", "lost"}
    /\ daemon \in [Clients -> {"up", "down"}]
    /\ xfer \in [Conns -> Active \cup {"none", "ended", "failed", "dead"}]
    /\ rate \in [Conns -> {"none", "open", "cut", "last", "short"}]
    /\ failures \in Seq(Jobs)

\* When the master is through with a job, the last report of every client has gone
\* out, which means that all its blocks were sent, and before that its server agreed to
\* take them.  The master knows neither, and a client for which this is not so must hold
\* it up.
JobComplete ==
    \A j \in Jobs, c \in Clients :
        j < job \/ (j = job /\ mpc # "running") =>
            /\ rate[Conn(j, c)] = "last"
            /\ xfer[Conn(j, c)] \in {"tail", "ended", "dead"}
            /\ side[Conn(j, c)]["server"].sent = Go

\* A job in which nothing goes wrong ends, so that the next can begin: the last
\* report of each transfer is received, its connection closed, its thread joined.
\* One thing can still hold the master up for ever, that the checker sleeps through the
\* notification (master.cpp:395-396): no other order of the threads does.
Undisturbed(j) ==
    /\ \A i \in DOMAIN failures : failures[i] # j
    /\ \A c \in Clients : daemon[c] = "up" /\ ~split[Conn(j, c)]
JobEnds ==
    \A j \in Jobs : (job = j /\ mpc = "running")
                      ~> (mpc # "running" \/ ~Undisturbed(j) \/ checker = "lost")
=============================================================================
