-------------------------------- MODULE Lucp --------------------------------
(***************************************************************************)
(* LUCP, by which the senders learn their rates.  Every sender (MessageSwap *)
(* of a StreamControl, which sends one file) keeps sending requests that    *)
(* carry its rate; each switch on the path adds the rate to the sums of the *)
(* port the request leaves by and writes in what that port has to offer, if *)
(* that is worse than what is in already; the receiver returns the request  *)
(* as a reply, and the sender takes its rate from it.  A switch closes the  *)
(* sums of its ports at regular intervals.                                  *)
(*                                                                          *)
(* Rates are whole units and the overload is counted in parts of Scale.     *)
(* With exact clocks an interval of a port has SendTimes requests of every  *)
(* sender.  A request too many, an interval that has too few, a packet that  *)
(* is lost and a transfer that ends count as disturbances; a transfer may    *)
(* begin at any time.                                                       *)
(* Only differences of interval numbers are ever looked at, so that they are *)
(* kept small: see Collect.                                                 *)
(***************************************************************************)
EXTENDS Integers, Sequences, FiniteSets, FiniteSetsExt, Functions

CONSTANTS
    Flows, Ports,
    Path,       \* the ports each flow's packets leave by, in order
    LineRate,   \* of each port
    InitRate,   \* DefaultRate of the senders
    SendTimes,  \* SEND_TIMES: requests per interval
    Scale,
    MaxFlight,  \* bound: LUCP packets of a flow under way
    MaxIter,    \* bound: intervals a port counts since the oldest that is remembered
    MaxDisturbances  \* bound, see above

ASSUME ConstantsAssumption ==
    /\ Path \in [Flows -> Seq(Ports)] /\ \A f \in Flows : Path[f] # <<>>
    /\ LineRate \in [Ports -> Nat \ {0}]
    /\ {InitRate, SendTimes, Scale} \subseteq Nat \ {0}
    /\ {MaxFlight, MaxIter, MaxDisturbances} \subseteq Nat

VARIABLES
    port,    \* SwitchCache: [o, g, n, u, y, iter], the latter n_iter
    met,     \* requests of each flow a port has had in this interval
    on,      \* ~pause_send_event: the flow's transfer runs
    cache,   \* cache_packet: [rt, x], what the next request carries
    first,   \* n_iter of the first reply, or None (init_iter)
    rate,    \* true_rate
    net,     \* the packets of each flow under way, requests and replies, in order
    disturbances  \* how many there have been

vars == <<port, met, on, cache, first, rate, net, disturbances>>

None == -1
Hops(f) == Len(Path[f])
Through(p) == {f \in Flows : p \in {Path[f][i] : i \in DOMAIN Path[f]}}

Init ==
    /\ port = [p \in Ports |->
                 [o |-> 0, g |-> LineRate[p], n |-> 0, u |-> 0, y |-> 0, iter |-> 0]]
    /\ met = [p \in Ports |-> [f \in Flows |-> 0]]
    /\ on = [f \in Flows |-> FALSE]
    /\ cache = [f \in Flows |-> [rt |-> 0, x |-> 0]]
    /\ first = [f \in Flows |-> None]
    /\ rate = [f \in Flows |-> 0]
    /\ net = [f \in Flows |-> <<>>]
    /\ disturbances = 0

-----------------------------------------------------------------------------
(* The sender.                                                             *)

\* postSendFile begins: runSend, once in the life of a sender.
Run(f) ==
    /\ ~on[f] /\ first[f] = None
    /\ on' = [on EXCEPT ![f] = TRUE]
    /\ UNCHANGED <<port, met, cache, first, rate, net, disturbances>>

\* It ends: pauseSend.  Without a rate no block is sent, so it has had one.
Pause(f) ==
    /\ on[f] /\ first[f] # None /\ disturbances < MaxDisturbances
    /\ on' = [on EXCEPT ![f] = FALSE]
    /\ disturbances' = disturbances + 1
    /\ UNCHANGED <<port, met, cache, first, rate, net>>

\* cache_packet: the cached target and rate, and nothing said by a switch yet.  Every
\* switch overwrites the interval's number.
Request(f) == [rc |-> 0, rs |-> 0, rt |-> cache[f].rt, o |-> 0, g |-> InitRate,
               x |-> cache[f].x, iter |-> 0]

Send(f) ==
    /\ on[f] /\ Len(net[f]) < MaxFlight
    /\ net' = [net EXCEPT ![f] = Append(@, Request(f))]
    /\ UNCHANGED <<port, met, on, cache, first, rate, disturbances>>

\* A packet that has passed the last switch comes back from the receiver.
Back(f) == net[f] # <<>> /\ Head(net[f]).rc = Hops(f)

\* The sender has paused meanwhile: nothing.
ReplyIgnored(f) ==
    /\ Back(f) /\ ~on[f]
    /\ net' = [net EXCEPT ![f] = Tail(@)]
    /\ UNCHANGED <<port, met, on, cache, first, rate, disturbances>>

SmallerOf(a, b) == IF a < b THEN a ELSE b

\* Three intervals have been closed since the first reply.
Settled_Soon(pkt, base) == pkt.iter - base >= 1   \* mutant
Settled(pkt, base) == pkt.iter - base >= 3

\* The rate offered, but no rise while a switch says it has too much.
Offered_Raise(pkt, old, settled) == SmallerOf(InitRate, pkt.g)   \* mutant
Offered(pkt, old, settled) ==
    LET x == SmallerOf(InitRate, pkt.g)
    IN  IF settled /\ pkt.o > 0 THEN SmallerOf(x, old) ELSE x

\* What a reply makes of the sender: n_iter of the first is kept, the bottleneck
\* the switches name becomes the target.
Take(f, pkt) ==
    LET base == IF first[f] = None THEN pkt.iter ELSE first[f]
        ok   == Settled(pkt, base)
        x    == Offered(pkt, cache[f].x, ok)
    IN  /\ first' = [first EXCEPT ![f] = base]
        /\ rate' = [rate EXCEPT ![f] = IF ok THEN x ELSE 0]
        /\ cache' = [cache EXCEPT ![f] = [rt |-> pkt.rs, x |-> x]]
        /\ UNCHANGED <<port, met, on, disturbances>>

Reply(f) ==
    /\ Back(f) /\ on[f] /\ Take(f, Head(net[f]))
    /\ net' = [net EXCEPT ![f] = Tail(@)]

\* The other thread sends cache_packet while it is being overwritten: each field
\* of the request is the old one or the new one.
ReplyWhileSending(f) ==
    /\ Back(f) /\ on[f] /\ Take(f, Head(net[f]))
    /\ \E t \in {cache[f].rt, cache'[f].rt}, x \in {cache[f].x, cache'[f].x} :
          net' = [net EXCEPT ![f] = Append(Tail(@),
                    [Request(f) EXCEPT !.rt = t, !.x = x])]

-----------------------------------------------------------------------------
(* The switches.                                                           *)

\* What a port has to offer is worse than what the packet says so far.
Worse(c, pkt) == c.o > pkt.o \/ (c.o = pkt.o /\ c.g < pkt.g)

Mark(c, pkt) ==
    LET hop == pkt.rc + 1
        seen == [pkt EXCEPT !.rc = hop, !.iter = c.iter]
    IN  IF Worse(c, pkt) THEN [seen EXCEPT !.rs = hop, !.g = c.g, !.o = c.o] ELSE seen

\* A flow whose bottleneck the port is counts as a flow, another by its rate.
Sums_NoFlow(c, pkt) == [c EXCEPT !.u = @ + pkt.x, !.y = @ + pkt.x]   \* mutant
Sums(c, pkt) ==
    IF pkt.rc + 1 = pkt.rt
    THEN [c EXCEPT !.n = @ + 1, !.y = @ + pkt.x]
    ELSE [c EXCEPT !.u = @ + pkt.x, !.y = @ + pkt.x]

\* A step that is a disturbance if b holds.
Disturbs(b) ==
    IF b THEN disturbances < MaxDisturbances /\ disturbances' = disturbances + 1
         ELSE UNCHANGED disturbances

\* The i-th packet of a flow goes through the next switch; none overtakes another.
\* A switch takes any number, whatever the sender's clock makes of the pace.
Pass(f, i) ==
    LET pkt == net[f][i]
        p   == Path[f][pkt.rc + 1]
    IN  /\ pkt.rc < Hops(f) /\ (i > 1 => net[f][i - 1].rc > pkt.rc)
        /\ Disturbs(met[p][f] >= SendTimes)
        /\ net' = [net EXCEPT ![f][i] = Mark(port[p], pkt)]
        /\ port' = [port EXCEPT ![p] = Sums(@, pkt)]
        /\ met' = [met EXCEPT ![p][f] = @ + 1]
        /\ UNCHANGED <<on, cache, first, rate>>

Capacity(p) == LineRate[p] * SendTimes

Overload_Slack(p) ==   \* mutant
    LET y == port[p].y IN IF y = 0 THEN 0 ELSE ((y - Capacity(p)) * Scale) \div y
Overload(p) ==
    LET y == port[p].y
    IN  IF y <= Capacity(p) THEN 0 ELSE ((y - Capacity(p)) * Scale) \div y

\* The share of each flow the port is the bottleneck of.
Fair_AnyFlow(p) ==   \* mutant
    LET c == port[p]
    IN  IF c.n = 0 THEN LineRate[p]
        ELSE IF c.u > Capacity(p) THEN 0 ELSE (Capacity(p) - c.u) \div c.n
Fair(p) ==
    LET c == port[p]
    IN  IF c.n < SendTimes THEN LineRate[p]
        ELSE IF c.u > Capacity(p) THEN 0 ELSE (Capacity(p) - c.u) \div c.n

LastPort(f) == Path[f][Hops(f)]
LastOf(p) == {f \in Flows : LastPort(f) = p}

\* The interval numbers a sender compares with p's: the first it has seen and those
\* in the replies under way.
Seen(f) == {first[f]} \cup {pkt.iter : pkt \in {q \in Range(net[f]) : q.rc = Hops(f)}}
Compared(p) == UNION {Seen(f) : f \in LastOf(p)}

\* They move back by one.
Earlier(n) == IF n > 0 THEN n - 1 ELSE n
MoveBack(p) ==
    /\ first' = [f \in Flows |-> IF f \in LastOf(p) THEN Earlier(first[f]) ELSE first[f]]
    /\ net' = [f \in Flows |->
                 IF f \in LastOf(p)
                 THEN [i \in DOMAIN net[f] |-> [net[f][i] EXCEPT !.iter = Earlier(@)]]
                 ELSE net[f]]

\* collect(): the interval is closed, be it that some flow's requests have not all
\* come.  n_iter goes up; to the same effect the numbers compared with it go down
\* when none of them is 0, or when it has reached the bound.
Collect(p) ==
    /\ Disturbs(\E f \in Through(p) : on[f] /\ met[p][f] < SendTimes)
    /\ LET up == port[p].iter < MaxIter /\ 0 \in Compared(p)
       IN  /\ port' = [port EXCEPT ![p] =
                         [o |-> Overload(p), g |-> Fair(p), n |-> 0, u |-> 0, y |-> 0,
                          iter |-> IF up THEN @.iter + 1 ELSE @.iter]]
           /\ IF up THEN UNCHANGED <<first, net>> ELSE MoveBack(p)
    /\ met' = [met EXCEPT ![p] = [f \in Flows |-> 0]]
    /\ UNCHANGED <<on, cache, rate>>

\* Nothing makes sure that LUCP packets arrive.
Lose(f) ==
    /\ net[f] # <<>> /\ disturbances < MaxDisturbances
    /\ net' = [net EXCEPT ![f] = Tail(@)]
    /\ disturbances' = disturbances + 1
    /\ UNCHANGED <<port, met, on, cache, first, rate>>

Network(f) == \E i \in DOMAIN net[f] : Pass(f, i)

Next ==
    \/ \E f \in Flows :
          \/ Run(f) \/ Pause(f) \/ Send(f)
          \/ Reply(f) \/ ReplyWhileSending(f) \/ ReplyIgnored(f)
          \/ Network(f) \/ Lose(f)
    \/ \E p \in Ports : Collect(p)

\* The sending, the receiving and the collecting threads keep going, and so do
\* the packets under way.
Fairness ==
    /\ \A f \in Flows : /\ WF_vars(Send(f)) /\ WF_vars(Network(f))
                        /\ WF_vars(Reply(f)) /\ WF_vars(ReplyIgnored(f))
    /\ \A p \in Ports : WF_vars(Collect(p))

Spec == Init /\ [][Next]_vars /\ Fairness

-----------------------------------------------------------------------------
(* Properties.                                                             *)

Packets(f) ==
    [rc : 0 .. Hops(f), rs : 0 .. Hops(f), rt : 0 .. Hops(f), o : 0 .. Scale,
     g : Nat, x : 0 .. InitRate, iter : 0 .. MaxIter]

\* Types.  No share is negative and no rate above DefaultRate, in a port, in a
\* packet or at a sender, whatever the sums of an interval come to.
TypeOK ==
    /\ port \in [Ports -> [o : 0 .. Scale, g : Nat, n : Nat, u : Nat, y : Nat,
                           iter : 0 .. MaxIter]]
    /\ met \in [Ports -> [Flows -> Nat]]
    /\ on \in [Flows -> BOOLEAN]
    /\ \A f \in Flows :
          /\ cache[f] \in [rt : 0 .. Hops(f), x : 0 .. InitRate]
          /\ first[f] \in {None} \cup 0 .. MaxIter
          /\ rate[f] \in 0 .. InitRate
          /\ net[f] \in Seq(Packets(f))
    /\ disturbances \in 0 .. MaxDisturbances

\* No flow sends data before the last switch of its path has closed three
\* intervals since the flow's first request came through: its neighbours have had
\* time to hear of it (the test n_iter >= 3 of sniff, and the rate 0 until then).
Patient ==
    \A f \in Flows :
        rate[f] > 0 => first[f] # None /\ port[LastPort(f)].iter >= first[f] + 3

\* A sender's rate never exceeds the line rate of the port it has been told is its
\* bottleneck, nor any line rate on its path if no switch has named itself: the
\* sender only knows numbers that other programs computed from counts of packets.
WithinTarget ==
    \A f \in Flows : rate[f] > 0 =>
        LET named == cache[f].rt
            hops  == IF named = 0 THEN DOMAIN Path[f] ELSE {named}
        IN  \A i \in hops : rate[f] <= LineRate[Path[f][i]]

\* A sender that sends never raises its rate on a reply in which some switch of
\* the path says it is overloaded, even if that switch offers more.
NoRaise ==
    [][\A f \in Flows : rate'[f] > rate[f] /\ rate[f] > 0 => Head(net[f]).o = 0]_vars

Load(p) == MapThenSumSet(LAMBDA f : rate[f], {f \in Through(p) : on[f]})
Users(p) == {f \in Through(p) : on[f]}
\* What is left of the line is less than a unit for each of its flows.
Saturated(p) == LineRate[p] - Load(p) < Cardinality(Users(p))

\* Max-min fairness: no port is overloaded, and every flow has a full port on its
\* path where no other flow gets more than it.
MaxMin ==
    /\ \A p \in Ports : Load(p) <= LineRate[p]
    /\ \A f \in Flows : on[f] =>
          \E i \in DOMAIN Path[f] : LET p == Path[f][i]
                                    IN  /\ Saturated(p)
                                        /\ \A h \in Users(p) : rate[h] <= rate[f]

\* Whatever has happened, the rates become max-min fair once no more transfers begin
\* or end, no more LUCP packets are lost and every interval has SEND_TIMES requests of
\* every flow, although transfers have begun and ended at any time, ports have counted
\* too many requests or too few, and requests are torn between two replies
\* (MessageSwap.h:179).  DefaultRate is above the line rates (local.conf:5,
\* switch1.conf): a flow that no switch names may otherwise come and go for ever.
Converges == <>[]MaxMin

=============================================================================
