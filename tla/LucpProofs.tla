----------------------------- MODULE LucpProofs -----------------------------
(***************************************************************************)
(* Theorems about LUCP, for any network, any line rates and any numbers of  *)
(* flows, requests and disturbances: what one sender can rely on, whatever  *)
(* the others and the switches are doing.                                   *)
(***************************************************************************)
EXTENDS Lucp, SequenceTheorems, TLAPS

-----------------------------------------------------------------------------
(* The inductive invariant.                                                *)

\* What a port remembers of the last interval.
PortInv ==
    /\ port \in [Ports -> [o : 0 .. Scale, g : Nat, n : Nat, u : Nat, y : Nat, iter : 0 .. MaxIter]]
    /\ met \in [Ports -> [Flows -> Nat]]
    /\ \A p \in Ports : port[p].g <= LineRate[p]

\* What a packet may say: the port it names offers no more than its line; if it
\* names none then nothing it has passed was overloaded or offered less than the sender
\* began with; at the end of its way its interval is one that the last port has reached.
Good(f) ==
    {pkt \in Packets(f) :
        /\ pkt.rs <= pkt.rc
        /\ pkt.rs = 0 => /\ pkt.g = InitRate /\ pkt.o = 0
                         /\ \A i \in 1 .. pkt.rc : InitRate <= LineRate[Path[f][i]]
        /\ pkt.rs > 0 => pkt.g <= LineRate[Path[f][pkt.rs]]
        /\ pkt.rc = Hops(f) => pkt.iter <= port[LastPort(f)].iter}

NetInv == net = [f \in Flows |-> net[f]] /\ \A f \in Flows : net[f] \in Seq(Good(f))

\* No more than the line of the port named, or than any line if none is.
Bounded(f) ==
    LET named == cache[f].rt
        hops  == IF named = 0 THEN DOMAIN Path[f] ELSE {named}
    IN  \A i \in hops : rate[f] <= LineRate[Path[f][i]]

\* A sender that sends has waited, and asks for what it sends.
SenderOK(f) ==
    /\ cache[f].rt \in 0 .. Hops(f)
    /\ rate[f] > 0 => /\ first[f] # None /\ port[LastPort(f)].iter >= first[f] + 3
                      /\ cache[f].x = rate[f] /\ Bounded(f)

SenderInv ==
    /\ on \in [Flows -> BOOLEAN]
    /\ cache \in [Flows -> [rt : Nat, x : 0 .. InitRate]]
    /\ first \in [Flows -> {None} \cup 0 .. MaxIter]
    /\ rate \in [Flows -> 0 .. InitRate]
    /\ disturbances \in 0 .. MaxDisturbances
    /\ \A f \in Flows : SenderOK(f)

LInv == PortInv /\ NetInv /\ SenderInv

-----------------------------------------------------------------------------
(* Lemmas.                                                                 *)

\* The shape of the network.
LEMMA Shape ==
    /\ \A p \in Ports : LineRate[p] \in Nat \ {0}
    /\ \A f \in Flows : /\ Hops(f) \in Nat \ {0} /\ DOMAIN Path[f] = 1 .. Hops(f)
                        /\ \A i \in 1 .. Hops(f) : Path[f][i] \in Ports
                        /\ LastPort(f) \in Ports
    /\ InitRate \in Nat \ {0} /\ SendTimes \in Nat \ {0} /\ Scale \in Nat \ {0}
    /\ MaxIter \in Nat /\ MaxDisturbances \in Nat
<1> USE ConstantsAssumption
<1>1. ASSUME NEW f \in Flows
      PROVE  /\ Hops(f) \in Nat \ {0} /\ DOMAIN Path[f] = 1 .. Hops(f)
             /\ \A i \in 1 .. Hops(f) : Path[f][i] \in Ports
  <2>1. Path[f] \in Seq(Ports) /\ Path[f] # <<>>
    BY <1>1
  <2> QED
    BY <2>1, EmptySeq, LenProperties, ElementOfSeq DEF Hops
<1>2. \A f \in Flows : LastPort(f) \in Ports
  BY <1>1 DEF LastPort
<1> QED
  BY <1>1, <1>2

\* Division rounds down and never passes the bound of its dividend.
LEMMA Quotient ==
    ASSUME NEW a \in Nat, NEW b \in Nat \ {0}, NEW m \in Nat, a <= m * b
    PROVE  a \div b \in 0 .. m
<1>1. a \div b \in Int /\ b * (a \div b) <= a /\ a < b * (a \div b) + b
  OBVIOUS
<1>2. a \div b >= 0
  BY <1>1
<1>3. a \div b <= m
  BY <1>1
<1> QED
  BY <1>1, <1>2, <1>3

LEMMA TimesMonotonic ==
    ASSUME NEW a \in Nat, NEW b \in Nat, NEW c \in Nat, b <= c
    PROVE  a * b <= a * c /\ a * b \in Nat /\ b * a <= c * a
OBVIOUS

\* What a port offers is between nothing and its line, its overload a part of Scale.
LEMMA ShareInBounds ==
    ASSUME PortInv, NEW p \in Ports
    PROVE  Fair(p) \in 0 .. LineRate[p] /\ Overload(p) \in 0 .. Scale
<1> DEFINE c == port[p]
<1>1. c.n \in Nat /\ c.u \in Nat /\ c.y \in Nat
  BY DEF PortInv
<1>2. LineRate[p] \in Nat \ {0} /\ SendTimes \in Nat \ {0} /\ Scale \in Nat \ {0}
  BY Shape
<1>3. Capacity(p) \in Nat
  BY <1>2, TimesMonotonic DEF Capacity
<1>4. Fair(p) \in 0 .. LineRate[p]
  <2>1. CASE c.n < SendTimes
    BY <1>2, <2>1 DEF Fair
  <2>2. CASE c.n >= SendTimes /\ c.u > Capacity(p)
    BY <1>1, <1>2, <2>2 DEF Fair
  <2>3. CASE c.n >= SendTimes /\ c.u <= Capacity(p)
    <3>1. Capacity(p) <= LineRate[p] * c.n
      BY <1>1, <1>2, <2>3, TimesMonotonic DEF Capacity
    <3>2. Capacity(p) - c.u \in Nat /\ c.n \in Nat \ {0} /\ LineRate[p] * c.n \in Nat
      BY <1>1, <1>2, <1>3, <2>3, TimesMonotonic
    <3>3. Capacity(p) - c.u <= LineRate[p] * c.n
      BY <1>1, <1>3, <3>1, <3>2
    <3>4. (Capacity(p) - c.u) \div c.n \in 0 .. LineRate[p]
      BY <1>2, <3>2, <3>3, Quotient
    <3>5. Fair(p) = (Capacity(p) - c.u) \div c.n
      BY <1>1, <1>2, <1>3, <2>3 DEF Fair
    <3> QED
      BY <3>4, <3>5
  <2> QED
    BY <1>1, <1>2, <1>3, <2>1, <2>2, <2>3
<1>5. Overload(p) \in 0 .. Scale
  <2>1. CASE c.y <= Capacity(p)
    BY <1>2, <2>1 DEF Overload
  <2>2. CASE c.y > Capacity(p)
    <3>1. c.y - Capacity(p) \in Nat /\ c.y - Capacity(p) <= c.y /\ c.y \in Nat \ {0}
      BY <1>1, <1>3, <2>2
    <3>2. (c.y - Capacity(p)) * Scale <= Scale * c.y /\ (c.y - Capacity(p)) * Scale \in Nat
      BY <1>2, <3>1, TimesMonotonic
    <3>3. ((c.y - Capacity(p)) * Scale) \div c.y \in 0 .. Scale
      BY <1>2, <3>1, <3>2, Quotient
    <3>4. Overload(p) = ((c.y - Capacity(p)) * Scale) \div c.y
      BY <1>1, <1>3, <2>2 DEF Overload
    <3> QED
      BY <3>3, <3>4
  <2> QED
    BY <1>1, <1>3, <2>1, <2>2
<1> QED
  BY <1>4, <1>5

\* Intervals only go on, and what was said of one stays true.
IterGrows == \A p \in Ports : port'[p].iter >= port[p].iter

LEMMA GoodGrows ==
    ASSUME PortInv, PortInv', IterGrows, NEW f \in Flows
    PROVE  \A s \in Seq(Good(f)) : s \in Seq(Good(f)')
<1>1. LastPort(f) \in Ports /\ port[LastPort(f)].iter \in Nat /\ port'[LastPort(f)].iter \in Nat
  BY Shape DEF PortInv
<1>2. \A pkt \in Packets(f) : pkt.iter \in Nat
  BY DEF Packets
<1>3. Packets(f)' = Packets(f) /\ Hops(f)' = Hops(f) /\ LastPort(f)' = LastPort(f)
  BY DEF Packets, Hops, LastPort
<1>4. ASSUME NEW pkt \in Good(f) PROVE pkt \in Good(f)'
  <2>1. pkt \in Packets(f) /\ pkt.iter \in Nat
    BY <1>2 DEF Good
  <2>2. port[LastPort(f)].iter <= port'[LastPort(f)].iter
    BY <1>1 DEF IterGrows
  <2>3. pkt.rc = Hops(f) => pkt.iter <= port'[LastPort(f)].iter
    BY <1>1, <2>1, <2>2 DEF Good
  <2> QED
    BY <1>3, <2>1, <2>3 DEF Good
<1> QED
  BY <1>4, SeqMonotonic

LEMMA SenderFrame ==
    ASSUME PortInv, PortInv', SenderInv, IterGrows, NEW f \in Flows,
           cache'[f] = cache[f], rate'[f] = rate[f], first'[f] \in Int, first'[f] <= first[f],
           first[f] # None => first'[f] # None
    PROVE  SenderOK(f)'
<1>1. LastPort(f) \in Ports /\ port[LastPort(f)].iter \in Nat /\ port'[LastPort(f)].iter \in Nat
  BY Shape DEF PortInv
<1>2. first[f] \in Int
  BY Shape DEF SenderInv, None
<1>3. Bounded(f)' <=> Bounded(f)
  BY DEF Bounded
<1>4. port[LastPort(f)].iter >= first[f] + 3 => port'[LastPort(f)].iter >= first'[f] + 3
  BY <1>1, <1>2 DEF IterGrows
<1>5. SenderOK(f) /\ Hops(f)' = Hops(f) /\ LastPort(f)' = LastPort(f)
  BY DEF SenderInv, Hops, LastPort
<1> QED
  BY <1>3, <1>4, <1>5 DEF SenderOK

\* What makes a packet good.
LEMMA GoodIs ==
    ASSUME NEW f \in Flows, NEW m \in Packets(f), m.rs <= m.rc,
           m.rs = 0 => /\ m.g = InitRate /\ m.o = 0
                       /\ \A i \in 1 .. m.rc : InitRate <= LineRate[Path[f][i]],
           m.rs > 0 => m.g <= LineRate[Path[f][m.rs]],
           m.rc = Hops(f) => m.iter <= port[LastPort(f)].iter
    PROVE  m \in Good(f)
BY Zenon DEF Good

\* A request is good.
LEMMA RequestGood ==
    ASSUME PortInv, NEW f \in Flows, NEW t \in 0 .. Hops(f), NEW x \in 0 .. InitRate, NEW i \in 0 .. MaxIter
    PROVE  [rc |-> 0, rs |-> 0, rt |-> t, o |-> 0, g |-> InitRate, x |-> x, iter |-> i] \in Good(f)
BY Shape DEF Good, Packets

-----------------------------------------------------------------------------
(* Steps.                                                                  *)

\* A reply at the head of the connection.
LEMMA BackIsGood ==
    ASSUME LInv, NEW f \in Flows, Back(f)
    PROVE  /\ net[f] # <<>> /\ Head(net[f]) \in Good(f) /\ Head(net[f]).rc = Hops(f)
           /\ Tail(net[f]) \in Seq(Good(f))
  BY HeadTailProperties DEF LInv, NetInv, Back

\* What a reply makes of a sender: in particular it has waited when it has a rate.
LEMMA TakeStep ==
    ASSUME LInv, NEW f \in Flows, Back(f), Take(f, Head(net[f]))
    PROVE  /\ SenderInv' /\ first'[f] \in 0 .. MaxIter
           /\ cache'[f].rt \in 0 .. Hops(f) /\ cache'[f].x \in 0 .. InitRate
           /\ rate'[f] > rate[f] /\ rate[f] > 0 => Head(net[f]).o = 0
           /\ \A h \in Flows \ {f} : rate'[h] = rate[h]
<1> DEFINE pkt  == Head(net[f])
           base == IF first[f] = None THEN pkt.iter ELSE first[f]
           ok   == Settled(pkt, base)
           x    == Offered(pkt, cache[f].x, ok)
<1>0. /\ PortInv /\ NetInv /\ SenderInv /\ UNCHANGED <<port, on, disturbances>>
      /\ first' = [first EXCEPT ![f] = base]
      /\ rate' = [rate EXCEPT ![f] = IF ok THEN x ELSE 0]
      /\ cache' = [cache EXCEPT ![f] = [rt |-> pkt.rs, x |-> x]]
  BY DEF LInv, Take
<1>1. /\ pkt \in Packets(f) /\ pkt.rc = Hops(f) /\ pkt.rs <= pkt.rc
      /\ pkt.rs = 0 => pkt.g = InitRate /\ \A i \in 1 .. pkt.rc : InitRate <= LineRate[Path[f][i]]
      /\ pkt.rs > 0 => pkt.g <= LineRate[Path[f][pkt.rs]]
      /\ pkt.iter <= port[LastPort(f)].iter
  BY BackIsGood DEF Good
<1>2. pkt.iter \in 0 .. MaxIter /\ pkt.rs \in 0 .. Hops(f) /\ pkt.g \in Nat /\ pkt.o \in 0 .. Scale
  BY <1>1 DEF Packets
<1>3. /\ cache[f] \in [rt : Nat, x : 0 .. InitRate] /\ first[f] \in {None} \cup 0 .. MaxIter
      /\ rate[f] \in 0 .. InitRate
  BY <1>0 DEF SenderInv
<1>4. /\ InitRate \in Nat /\ MaxIter \in Nat /\ Hops(f) \in Nat /\ DOMAIN Path[f] = 1 .. Hops(f)
      /\ \A i \in 1 .. Hops(f) : Path[f][i] \in Ports /\ LineRate[Path[f][i]] \in Nat
      /\ LastPort(f) \in Ports /\ port[LastPort(f)].iter \in Nat
  <2>1. InitRate \in Nat /\ MaxIter \in Nat /\ Hops(f) \in Nat /\ LastPort(f) \in Ports
    BY Shape
  <2>2. DOMAIN Path[f] = 1 .. Hops(f) /\ \A i \in 1 .. Hops(f) : Path[f][i] \in Ports
    BY Shape
  <2>3. \A p \in Ports : LineRate[p] \in Nat
    BY Shape
  <2>4. port[LastPort(f)].iter \in Nat
    BY <1>0, <2>1 DEF PortInv
  <2> QED
    BY <2>1, <2>2, <2>3, <2>4
<1>5. /\ x \in 0 .. InitRate /\ x <= pkt.g
      /\ ok /\ pkt.o > 0 => x <= cache[f].x
  BY <1>2, <1>3, <1>4 DEF Offered, SmallerOf
<1>6. base \in 0 .. MaxIter
  BY <1>2, <1>3
<1>7. ok => /\ first[f] # None /\ first[f] = base
            /\ port[LastPort(f)].iter >= base + 3
  BY <1>1, <1>2, <1>4, <1>6 DEF Settled
<1> HIDE DEF ok, x, base, pkt
<1>8. /\ first'[f] = base /\ rate'[f] = (IF ok THEN x ELSE 0)
      /\ cache'[f] = [rt |-> pkt.rs, x |-> x]
      /\ \A h \in Flows \ {f} : cache'[h] = cache[h] /\ first'[h] = first[h] /\ rate'[h] = rate[h]
  BY <1>0 DEF SenderInv
<1>9. Bounded(f)'
  <2>1. \A i \in 1 .. Hops(f) : (pkt.rs = 0 \/ i = pkt.rs) => x <= LineRate[Path[f][i]]
    BY <1>1, <1>2, <1>4, <1>5
  <2>2. rate'[f] <= x /\ rate'[f] \in 0 .. InitRate
    BY <1>4, <1>5, <1>8
  <2>3. \A i \in 1 .. Hops(f) : (pkt.rs = 0 \/ i = pkt.rs) => rate'[f] <= LineRate[Path[f][i]]
    BY <1>4, <1>5, <2>1, <2>2
  <2>4. cache'[f].rt = pkt.rs
    BY <1>8
  <2> QED
    BY <1>2, <1>4, <2>3, <2>4 DEF Bounded
<1>10. SenderOK(f)'
  <2>1. cache'[f].rt \in 0 .. Hops(f)
    BY <1>2, <1>8
  <2>2. rate'[f] > 0 => /\ first'[f] # None /\ port'[LastPort(f)].iter >= first'[f] + 3
                        /\ cache'[f].x = rate'[f]
    BY <1>0, <1>5, <1>6, <1>7, <1>8
  <2> QED
    BY <1>9, <2>1, <2>2 DEF SenderOK, Hops, LastPort
<1>11. ASSUME NEW h \in Flows \ {f} PROVE SenderOK(h)'
  <2>1. PortInv' /\ IterGrows
    BY <1>0 DEF PortInv, IterGrows, LInv, Take
  <2>2. SenderOK(h)'
    <3>1. first'[h] = first[h] /\ first[h] \in Int
      BY <1>0, <1>8, Shape DEF SenderInv, None
    <3> QED
      BY <1>0, <1>8, <2>1, <3>1, SenderFrame
  <2> QED
    BY <2>2
<1>12. /\ cache' \in [Flows -> [rt : Nat, x : 0 .. InitRate]]
       /\ first' \in [Flows -> {None} \cup 0 .. MaxIter]
       /\ rate' \in [Flows -> 0 .. InitRate]
  BY <1>0, <1>2, <1>4, <1>5, <1>6 DEF SenderInv
<1>13. SenderInv'
  BY <1>0, <1>10, <1>11, <1>12 DEF SenderInv
<1>14. rate'[f] > rate[f] /\ rate[f] > 0 => pkt.o = 0
  <2>1. rate[f] > 0 => cache[f].x = rate[f]
    BY <1>0 DEF SenderInv, SenderOK
  <2> QED
    BY <1>2, <1>3, <1>4, <1>5, <1>8, <2>1
<1> QED
  BY <1>2, <1>5, <1>6, <1>8, <1>13, <1>14 DEF pkt

\* A switch that marks a good packet leaves a good one.
LEMMA MarkGood ==
    ASSUME LInv, NEW f \in Flows, NEW pkt \in Good(f), pkt.rc < Hops(f)
    PROVE  Mark(port[Path[f][pkt.rc + 1]], pkt) \in Good(f)
<1> DEFINE hop == pkt.rc + 1
           c == port[Path[f][hop]]
           m == Mark(c, pkt)
<1>1. /\ pkt \in Packets(f) /\ pkt.rc \in Nat /\ hop \in 1 .. Hops(f)
      /\ pkt.rs \in Nat /\ pkt.rs <= pkt.rc /\ pkt.g \in Nat /\ pkt.o \in 0 .. Scale
      /\ pkt.rs = 0 => /\ pkt.g = InitRate /\ pkt.o = 0
                       /\ \A i \in 1 .. pkt.rc : InitRate <= LineRate[Path[f][i]]
      /\ pkt.rs > 0 => pkt.g <= LineRate[Path[f][pkt.rs]]
  BY Shape DEF Good, Packets
<1>0. /\ pkt = [rc |-> pkt.rc, rs |-> pkt.rs, rt |-> pkt.rt, o |-> pkt.o, g |-> pkt.g,
                 x |-> pkt.x, iter |-> pkt.iter]
      /\ pkt.rt \in 0 .. Hops(f) /\ pkt.rs \in 0 .. Hops(f) /\ pkt.x \in 0 .. InitRate
      /\ hop \in 0 .. Hops(f)
  BY <1>1 DEF Packets
<1>2. Path[f][hop] \in Ports /\ LineRate[Path[f][hop]] \in Nat /\ InitRate \in Nat /\ Hops(f) \in Nat
  BY <1>1, Shape
<1>3. c.o \in 0 .. Scale /\ c.g \in Nat /\ c.iter \in 0 .. MaxIter /\ c.g <= LineRate[Path[f][hop]]
  BY <1>2 DEF LInv, PortInv
<1>4. hop = Hops(f) => c = port[LastPort(f)]
  BY DEF LastPort
<1> HIDE DEF c, hop
<1>5. m = IF Worse(c, pkt)
          THEN [pkt EXCEPT !.rc = hop, !.iter = c.iter, !.rs = hop, !.g = c.g, !.o = c.o]
          ELSE [pkt EXCEPT !.rc = hop, !.iter = c.iter]
  BY <1>1 DEF Mark, hop, Packets
<1>6. CASE Worse(c, pkt)
  <2>0. m = [rc |-> hop, rs |-> hop, rt |-> pkt.rt, o |-> c.o, g |-> c.g, x |-> pkt.x,
             iter |-> c.iter]
    BY <1>0, <1>5, <1>6
  <2>1. /\ m \in Packets(f) /\ m.rc = hop /\ m.rs = hop /\ m.g = c.g /\ m.iter = c.iter
    BY <1>0, <1>2, <1>3, <2>0 DEF Packets
  <2>2. m.rc = Hops(f) => m.iter <= port[LastPort(f)].iter
    BY <1>3, <1>4, <2>1
  <2>3. hop > 0 /\ hop <= hop
    BY <1>1
  <2> HIDE DEF m
  <2>4. m \in Good(f)
    BY <1>3, <2>1, <2>2, <2>3, GoodIs
  <2> QED
    BY <2>4 DEF m, c, hop
<1>7. CASE ~Worse(c, pkt)
  <2>0. m = [rc |-> hop, rs |-> pkt.rs, rt |-> pkt.rt, o |-> pkt.o, g |-> pkt.g, x |-> pkt.x,
             iter |-> c.iter]
    BY <1>0, <1>5, <1>7
  <2>1. /\ m \in Packets(f) /\ m.rc = hop /\ m.rs = pkt.rs /\ m.g = pkt.g /\ m.o = pkt.o
        /\ m.iter = c.iter
    BY <1>0, <1>1, <1>2, <1>3, <2>0 DEF Packets
  <2>2. m.rc = Hops(f) => m.iter <= port[LastPort(f)].iter
    BY <1>3, <1>4, <2>1
  <2>3. ASSUME pkt.rs = 0, NEW i \in 1 .. hop PROVE InitRate <= LineRate[Path[f][i]]
    <3>1. CASE i \in 1 .. pkt.rc
      BY <1>1, <2>3, <3>1
    <3>2. CASE i = hop
      BY <1>1, <1>2, <1>3, <1>7, <2>3, <3>2 DEF Worse
    <3> QED
      BY <1>1, <2>3, <3>1, <3>2 DEF hop
  <2>4. m.rs <= m.rc
    BY <1>1, <2>1 DEF hop
  <2>5. m.rs = 0 => /\ m.g = InitRate /\ m.o = 0
                    /\ \A i \in 1 .. m.rc : InitRate <= LineRate[Path[f][i]]
    BY <1>1, <2>1, <2>3
  <2>6. m.rs > 0 => m.g <= LineRate[Path[f][m.rs]]
    BY <1>1, <2>1
  <2> HIDE DEF m
  <2>7. m \in Good(f)
    BY <2>1, <2>2, <2>4, <2>5, <2>6, GoodIs
  <2> QED
    BY <2>7 DEF m, c, hop
<1> QED
  BY <1>6, <1>7 DEF c, hop

\* Only the packets of one flow change.
LEMMA NetStep ==
    ASSUME LInv, PortInv', IterGrows, NEW f \in Flows, NEW s \in Seq(Good(f)),
           net' = [net EXCEPT ![f] = s]
    PROVE  NetInv'
<1>1. net = [h \in Flows |-> net[h]] /\ \A h \in Flows : net[h] \in Seq(Good(h))
  BY DEF LInv, NetInv
<1>2. /\ net' = [h \in Flows |-> net'[h]]
      /\ net'[f] = s /\ \A h \in Flows \ {f} : net'[h] = net[h]
  BY <1>1
<1>3. \A h \in Flows : net'[h] \in Seq(Good(h))
  BY <1>1, <1>2
<1>4. ASSUME NEW h \in Flows PROVE net'[h] \in Seq(Good(h)')
  BY <1>3, GoodGrows DEF LInv
<1> QED
  BY <1>2, <1>4 DEF NetInv

\* Interval numbers may move back.
LEMMA MoveBackStep ==
    ASSUME LInv, NEW p \in Ports, MoveBack(p), PortInv', IterGrows,
           UNCHANGED <<on, cache, rate>>, disturbances' \in 0 .. MaxDisturbances
    PROVE  LInv'
<1>0. PortInv /\ NetInv /\ SenderInv /\ MaxIter \in Nat
  BY Shape DEF LInv
<1>1. ASSUME NEW n \in {None} \cup 0 .. MaxIter
      PROVE  /\ Earlier(n) \in {None} \cup 0 .. MaxIter /\ Earlier(n) <= n
             /\ n # None => Earlier(n) # None
             /\ n \in 0 .. MaxIter => Earlier(n) \in 0 .. MaxIter
  BY <1>0 DEF Earlier, None
<1>2. /\ first' \in [Flows -> {None} \cup 0 .. MaxIter]
      /\ \A f \in Flows : first'[f] <= first[f] /\ (first[f] # None => first'[f] # None)
  <2>1. ASSUME NEW f \in Flows
        PROVE  /\ first'[f] = first[f] \/ first'[f] = Earlier(first[f])
               /\ first[f] \in {None} \cup 0 .. MaxIter
    BY <1>0 DEF MoveBack, SenderInv
  <2>2. ASSUME NEW f \in Flows
        PROVE  /\ first'[f] \in {None} \cup 0 .. MaxIter /\ first'[f] <= first[f]
               /\ first[f] # None => first'[f] # None
    BY <1>0, <1>1, <2>1 DEF None
  <2> QED
    BY <2>2 DEF MoveBack
<1>3. SenderInv'
  <2>1. ASSUME NEW f \in Flows PROVE SenderOK(f)'
    <3>1. first'[f] \in Int
      BY <1>0, <1>2 DEF None
    <3> QED
      BY <1>0, <1>2, <3>1, SenderFrame
  <2> QED
    BY <1>0, <1>2, <2>1 DEF SenderInv
<1>4. ASSUME NEW f \in Flows, NEW pkt \in Good(f)
      PROVE  [pkt EXCEPT !.iter = Earlier(@)] \in Good(f)
  <2> DEFINE e == Earlier(pkt.iter)
             m == [pkt EXCEPT !.iter = e]
  <2>1. pkt \in Packets(f) /\ pkt.iter \in 0 .. MaxIter
    BY DEF Good, Packets
  <2>2. e \in 0 .. MaxIter /\ e <= pkt.iter
    BY <1>1, <2>1
  <2> HIDE DEF e
  <2>3. /\ m \in Packets(f) /\ m.rc = pkt.rc /\ m.rs = pkt.rs /\ m.g = pkt.g /\ m.o = pkt.o
        /\ m.iter = e
    BY <2>1, <2>2 DEF Packets
  <2>4. LastPort(f) \in Ports /\ port[LastPort(f)].iter \in Nat
    BY <1>0, Shape DEF PortInv
  <2>5. m.rc = Hops(f) => m.iter <= port[LastPort(f)].iter
    <3>1. pkt.rc = Hops(f) => pkt.iter <= port[LastPort(f)].iter
      BY DEF Good
    <3> QED
      BY <1>0, <2>1, <2>2, <2>3, <2>4, <3>1
  <2> HIDE DEF m
  <2>6. m \in Good(f)
    BY <2>3, <2>5 DEF Good
  <2> QED
    BY <2>6 DEF m, e
<1>5. ASSUME NEW f \in Flows PROVE net'[f] \in Seq(Good(f))
  <2> DEFINE s == [i \in DOMAIN net[f] |-> [net[f][i] EXCEPT !.iter = Earlier(@)]]
  <2>1. net[f] \in Seq(Good(f)) /\ DOMAIN net[f] = 1 .. Len(net[f]) /\ Len(net[f]) \in Nat
    BY <1>0, LenProperties DEF NetInv
  <2>2. \A i \in 1 .. Len(net[f]) : net[f][i] \in Good(f)
    BY <2>1, ElementOfSeq
  <2>3. \A i \in 1 .. Len(net[f]) : [net[f][i] EXCEPT !.iter = Earlier(@)] \in Good(f)
    BY <1>4, <2>2
  <2>4. s \in [1 .. Len(net[f]) -> Good(f)]
    BY <2>1, <2>3
  <2>5. s \in Seq(Good(f))
    BY <2>1, <2>4, SeqDef
  <2>6. net'[f] = net[f] \/ net'[f] = s
    BY DEF MoveBack
  <2> QED
    BY <2>1, <2>5, <2>6
<1>6. NetInv'
  <2>1. ASSUME NEW f \in Flows PROVE net'[f] \in Seq(Good(f)')
    BY <1>0, <1>5, GoodGrows
  <2>2. net' = [f \in Flows |-> net'[f]]
    BY DEF MoveBack
  <2> QED
    BY <2>1, <2>2 DEF NetInv
<1> QED
  BY <1>3, <1>6 DEF LInv

\* LInv is preserved.
LEMMA LStep == LInv /\ [Next]_vars => LInv'
<1> SUFFICES ASSUME LInv, [Next]_vars PROVE LInv'
  OBVIOUS
<1>0. PortInv /\ NetInv /\ SenderInv /\ \A p \in Ports : port[p].iter \in Nat
  BY Shape DEF LInv, PortInv
<1>1. ASSUME UNCHANGED <<port, met>> PROVE PortInv' /\ IterGrows
  BY <1>0, <1>1 DEF PortInv, IterGrows
<1>2. ASSUME UNCHANGED <<port, met>>, net' = net PROVE NetInv'
  <2>1. ASSUME NEW f \in Flows PROVE net'[f] \in Seq(Good(f)')
    BY <1>0, <1>1, <1>2, GoodGrows DEF NetInv
  <2> QED
    BY <1>0, <1>2, <2>1 DEF NetInv
<1>3. ASSUME PortInv', IterGrows, UNCHANGED <<cache, first, rate>>,
             on' \in [Flows -> BOOLEAN], disturbances' \in 0 .. MaxDisturbances
      PROVE  SenderInv'
  <2>1. ASSUME NEW f \in Flows PROVE SenderOK(f)'
    <3>1. first'[f] = first[f] /\ first[f] \in Int
      BY <1>0, <1>3, Shape DEF SenderInv, None
    <3> QED
      BY <1>0, <1>3, <3>1, SenderFrame
  <2> QED
    BY <1>0, <1>3, <2>1 DEF SenderInv
<1>4. disturbances \in 0 .. MaxDisturbances /\ MaxDisturbances \in Nat /\ on \in [Flows -> BOOLEAN]
  BY <1>0, Shape DEF SenderInv
<1>5. ASSUME NEW f \in Flows, Run(f) PROVE LInv'
  <2>1. UNCHANGED <<port, met, cache, first, rate, net, disturbances>> /\ on' \in [Flows -> BOOLEAN]
    BY <1>4, <1>5 DEF Run
  <2> QED
    BY <1>1, <1>2, <1>3, <1>4, <2>1 DEF LInv
<1>6. ASSUME NEW f \in Flows, Pause(f) PROVE LInv'
  <2>1. /\ UNCHANGED <<port, met, cache, first, rate, net>> /\ on' \in [Flows -> BOOLEAN]
        /\ disturbances' \in 0 .. MaxDisturbances
    BY <1>4, <1>6 DEF Pause
  <2> QED
    BY <1>1, <1>2, <1>3, <2>1 DEF LInv
<1>7. ASSUME NEW f \in Flows, Send(f) PROVE LInv'
  <2>1. UNCHANGED <<port, met, on, cache, first, rate, disturbances>>
    BY <1>7 DEF Send
  <2>2. PortInv' /\ IterGrows /\ SenderInv'
    BY <1>1, <1>3, <1>4, <2>1
  <2>3. Request(f) \in Good(f)
    <3>1. cache[f].rt \in 0 .. Hops(f) /\ cache[f].x \in 0 .. InitRate /\ 0 \in 0 .. MaxIter
      BY <1>0, Shape DEF SenderInv, SenderOK
    <3> QED
      BY <1>0, <3>1, RequestGood DEF Request
  <2>4. Append(net[f], Request(f)) \in Seq(Good(f))
    BY <1>0, <2>3, AppendProperties DEF NetInv
  <2> QED
    BY <1>7, <2>2, <2>4, NetStep DEF LInv, Send
<1>8. ASSUME NEW f \in Flows, ReplyIgnored(f) PROVE LInv'
  <2>1. UNCHANGED <<port, met, on, cache, first, rate, disturbances>>
    BY <1>8 DEF ReplyIgnored
  <2>2. Tail(net[f]) \in Seq(Good(f))
    BY <1>8, BackIsGood DEF ReplyIgnored
  <2>3. PortInv' /\ IterGrows /\ SenderInv'
    BY <1>1, <1>3, <1>4, <2>1
  <2> QED
    BY <1>8, <2>2, <2>3, NetStep DEF LInv, ReplyIgnored
<1>9. ASSUME NEW f \in Flows, Reply(f) PROVE LInv'
  <2>1. UNCHANGED <<port, met>> /\ SenderInv'
    BY <1>9, TakeStep DEF Reply, Take
  <2>2. Tail(net[f]) \in Seq(Good(f))
    BY <1>9, BackIsGood DEF Reply
  <2> QED
    BY <1>1, <1>9, <2>1, <2>2, NetStep DEF LInv, Reply
<1>10. ASSUME NEW f \in Flows, ReplyWhileSending(f) PROVE LInv'
  <2>1. /\ UNCHANGED <<port, met>> /\ SenderInv' /\ first'[f] \in 0 .. MaxIter
        /\ cache'[f].rt \in 0 .. Hops(f) /\ cache'[f].x \in 0 .. InitRate
        /\ cache[f].rt \in 0 .. Hops(f) /\ cache[f].x \in 0 .. InitRate
    BY <1>0, <1>10, TakeStep DEF ReplyWhileSending, Take, SenderInv, SenderOK
  <2>2. PICK t \in {cache[f].rt, cache'[f].rt}, x \in {cache[f].x, cache'[f].x} :
           net' = [net EXCEPT ![f] = Append(Tail(@),
                    [Request(f) EXCEPT !.rt = t, !.x = x])]
    BY <1>10 DEF ReplyWhileSending
  <2> DEFINE r == [Request(f) EXCEPT !.rt = t, !.x = x]
  <2>3. r = [rc |-> 0, rs |-> 0, rt |-> t, o |-> 0, g |-> InitRate, x |-> x, iter |-> 0]
    <3> DEFINE q == Request(f)
               q1 == [q EXCEPT !.rt = t]
    <3>1. q = [rc |-> 0, rs |-> 0, rt |-> q.rt, o |-> 0, g |-> InitRate, x |-> q.x, iter |-> 0]
      BY DEF Request
    <3> HIDE DEF q
    <3>2. q1 = [rc |-> 0, rs |-> 0, rt |-> t, o |-> 0, g |-> InitRate, x |-> q.x, iter |-> 0]
      BY <3>1
    <3> HIDE DEF q1
    <3>3. [q1 EXCEPT !.x = x]
          = [rc |-> 0, rs |-> 0, rt |-> t, o |-> 0, g |-> InitRate, x |-> x, iter |-> 0]
      BY <3>2
    <3> QED
      BY <3>3 DEF q, q1
  <2>4. t \in 0 .. Hops(f) /\ x \in 0 .. InitRate
    BY <2>1
  <2>5. r \in Good(f)
    BY <1>0, <2>3, <2>4, Shape, RequestGood
  <2>6. Tail(net[f]) \in Seq(Good(f))
    BY <1>10, BackIsGood DEF ReplyWhileSending
  <2> HIDE DEF r
  <2>7. Append(Tail(net[f]), r) \in Seq(Good(f))
    BY <2>5, <2>6, AppendProperties
  <2>8. net' = [net EXCEPT ![f] = Append(Tail(net[f]), r)]
    BY <2>2 DEF r
  <2> QED
    BY <1>1, <2>1, <2>7, <2>8, NetStep DEF LInv
<1>11. ASSUME NEW f \in Flows, NEW i \in DOMAIN net[f], Pass(f, i) PROVE LInv'
  <2> DEFINE pkt == net[f][i]
             p == Path[f][pkt.rc + 1]
             s == [net[f] EXCEPT ![i] = Mark(port[p], pkt)]
  <2>1. /\ pkt.rc < Hops(f)
        /\ net' = [net EXCEPT ![f][i] = Mark(port[p], pkt)]
        /\ port' = [port EXCEPT ![p] = Sums(@, pkt)]
        /\ met' = [met EXCEPT ![p][f] = @ + 1]
        /\ UNCHANGED <<on, cache, first, rate>> /\ disturbances' \in 0 .. MaxDisturbances
    BY <1>4, <1>11 DEF Pass, Disturbs
  <2>2. net[f] \in Seq(Good(f)) /\ i \in 1 .. Len(net[f])
    BY <1>0, LenProperties DEF NetInv
  <2>3. pkt \in Good(f)
    BY <2>2, ElementOfSeq
  <2>4. pkt \in Packets(f) /\ pkt.rc \in Nat /\ pkt.x \in Nat /\ p \in Ports
    <3>1. pkt \in Packets(f)
      BY <2>3 DEF Good
    <3>2. pkt.rc \in Nat /\ pkt.x \in Nat
      BY <3>1, Shape DEF Packets
    <3>3. pkt.rc + 1 \in 1 .. Hops(f)
      BY <2>1, <3>2, Shape
    <3> QED
      BY <3>1, <3>2, <3>3, Shape
  <2>5. Mark(port[p], pkt) \in Good(f)
    BY <2>1, <2>3, MarkGood
  <2> HIDE DEF pkt, p
  <2>6. s \in Seq(Good(f))
    BY <2>2, <2>5, ExceptSeq
  <2>7. net' = [net EXCEPT ![f] = s]
    BY <2>1
  <2>8. PortInv' /\ IterGrows
    <3>1. port[p] \in [o : 0 .. Scale, g : Nat, n : Nat, u : Nat, y : Nat, iter : 0 .. MaxIter]
      BY <1>0, <2>4 DEF PortInv
    <3>2. /\ Sums(port[p], pkt) \in [o : 0 .. Scale, g : Nat, n : Nat, u : Nat, y : Nat, iter : 0 .. MaxIter]
          /\ Sums(port[p], pkt).g = port[p].g /\ Sums(port[p], pkt).iter = port[p].iter
      <4> DEFINE c == port[p]
      <4>1. /\ c = [o |-> c.o, g |-> c.g, n |-> c.n, u |-> c.u, y |-> c.y, iter |-> c.iter]
            /\ c.o \in 0 .. Scale /\ c.g \in Nat /\ c.iter \in 0 .. MaxIter
            /\ c.n + 1 \in Nat /\ c.u + pkt.x \in Nat /\ c.y + pkt.x \in Nat
        BY <2>4, <3>1
      <4> HIDE DEF c
      <4>2. CASE pkt.rc + 1 = pkt.rt
        <5>1. Sums(c, pkt) = [o |-> c.o, g |-> c.g, n |-> c.n + 1, u |-> c.u, y |-> c.y + pkt.x,
                              iter |-> c.iter]
          BY <4>1, <4>2 DEF Sums
        <5>2. c.u \in Nat
          BY <3>1 DEF c
        <5> QED
          BY <4>1, <5>1, <5>2 DEF c
      <4>3. CASE pkt.rc + 1 # pkt.rt
        <5>1. Sums(c, pkt) = [o |-> c.o, g |-> c.g, n |-> c.n, u |-> c.u + pkt.x,
                              y |-> c.y + pkt.x, iter |-> c.iter]
          BY <4>1, <4>3 DEF Sums
        <5>2. c.n \in Nat
          BY <3>1 DEF c
        <5> QED
          BY <4>1, <5>1, <5>2 DEF c
      <4> QED
        BY <4>2, <4>3
    <3>3. port' \in [Ports -> [o : 0 .. Scale, g : Nat, n : Nat, u : Nat, y : Nat, iter : 0 .. MaxIter]]
      BY <1>0, <2>1, <3>2 DEF PortInv
    <3>4. \A q \in Ports : port'[q].g = port[q].g /\ port'[q].iter = port[q].iter
      BY <1>0, <2>1, <2>4, <3>2 DEF PortInv
    <3>5. met' \in [Ports -> [Flows -> Nat]]
      <4>1. met \in [Ports -> [Flows -> Nat]] /\ met[p] \in [Flows -> Nat]
        BY <1>0, <2>4 DEF PortInv
      <4>2. met[p][f] + 1 \in Nat
        BY <4>1
      <4>3. met' = [met EXCEPT ![p] = [met[p] EXCEPT ![f] = met[p][f] + 1]]
        BY <2>1
      <4>4. [met[p] EXCEPT ![f] = met[p][f] + 1] \in [Flows -> Nat]
        BY <4>1, <4>2
      <4> QED
        BY <4>1, <4>3, <4>4
    <3> QED
      BY <1>0, <3>3, <3>4, <3>5 DEF PortInv, IterGrows
  <2>9. SenderInv'
    BY <1>3, <1>4, <2>1, <2>8
  <2> QED
    BY <2>6, <2>7, <2>8, <2>9, NetStep DEF LInv
<1>12. ASSUME NEW f \in Flows, Lose(f) PROVE LInv'
  <2>1. UNCHANGED <<port, met, on, cache, first, rate>> /\ disturbances' \in 0 .. MaxDisturbances
    BY <1>4, <1>12 DEF Lose
  <2>2. Tail(net[f]) \in Seq(Good(f))
    BY <1>0, <1>12, HeadTailProperties DEF Lose, NetInv
  <2>3. PortInv' /\ IterGrows /\ SenderInv'
    BY <1>1, <1>3, <1>4, <2>1
  <2> QED
    BY <1>12, <2>2, <2>3, NetStep DEF LInv, Lose
<1>13. ASSUME NEW p \in Ports, Collect(p) PROVE LInv'
  <2> DEFINE up == port[p].iter < MaxIter /\ 0 \in Compared(p)
             new == [o |-> Overload(p), g |-> Fair(p), n |-> 0, u |-> 0, y |-> 0,
                     iter |-> IF up THEN port[p].iter + 1 ELSE port[p].iter]
  <2>1. /\ port' = [port EXCEPT ![p] = new] /\ met' = [met EXCEPT ![p] = [f \in Flows |-> 0]]
        /\ UNCHANGED <<on, cache, rate>>
        /\ UNCHANGED <<first, net>> \/ MoveBack(p)
        /\ disturbances' \in 0 .. MaxDisturbances
    BY <1>4, <1>13 DEF Collect, Disturbs
  <2>2. port[p].iter \in 0 .. MaxIter /\ MaxIter \in Nat
    BY <1>0, Shape DEF PortInv
  <2>3. /\ new \in [o : 0 .. Scale, g : Nat, n : Nat, u : Nat, y : Nat, iter : 0 .. MaxIter]
        /\ new.g <= LineRate[p] /\ new.iter >= port[p].iter
    <3>1. Fair(p) \in 0 .. LineRate[p] /\ Overload(p) \in 0 .. Scale /\ LineRate[p] \in Nat
      BY <1>0, ShareInBounds, Shape
    <3>2. up => port[p].iter + 1 \in 0 .. MaxIter
      BY <2>2
    <3> HIDE DEF up
    <3> QED
      BY <2>2, <3>1, <3>2
  <2> HIDE DEF new
  <2>4. PortInv' /\ IterGrows
    <3>1. port' \in [Ports -> [o : 0 .. Scale, g : Nat, n : Nat, u : Nat, y : Nat, iter : 0 .. MaxIter]]
      BY <1>0, <2>1, <2>3 DEF PortInv
    <3>2. [f \in Flows |-> 0] \in [Flows -> Nat]
      OBVIOUS
    <3>3. met' \in [Ports -> [Flows -> Nat]]
      BY <1>0, <2>1, <3>2 DEF PortInv
    <3>4. port'[p] = new /\ \A q \in Ports \ {p} : port'[q] = port[q]
      BY <1>0, <2>1 DEF PortInv
    <3>5. \A q \in Ports : port'[q].g <= LineRate[q] /\ port'[q].iter >= port[q].iter
      BY <1>0, <2>3, <3>4 DEF PortInv
    <3> QED
      BY <3>1, <3>3, <3>5 DEF PortInv, IterGrows
  <2>5. CASE UNCHANGED <<first, net>>
    <3>1. NetInv'
      <4>1. ASSUME NEW f \in Flows PROVE net'[f] \in Seq(Good(f)')
        BY <1>0, <2>4, <2>5, GoodGrows DEF NetInv
      <4> QED
        BY <1>0, <2>5, <4>1 DEF NetInv
    <3> QED
      BY <1>3, <1>4, <2>1, <2>4, <2>5, <3>1 DEF LInv
  <2>6. CASE MoveBack(p)
    BY <1>13, <2>1, <2>4, <2>6, MoveBackStep
  <2> QED
    BY <2>1, <2>5, <2>6
<1>14. CASE UNCHANGED vars
  BY <1>1, <1>2, <1>3, <1>4, <1>14 DEF LInv, vars
<1> QED
  BY <1>5, <1>6, <1>7, <1>8, <1>9, <1>10, <1>11, <1>12, <1>13, <1>14 DEF Next, Network

-----------------------------------------------------------------------------
(* Theorems.                                                               *)

\* LInv holds in every state that LUCP reaches.
THEOREM LucpInductive == Spec => []LInv
<1>1. Init => LInv
  <2> SUFFICES ASSUME Init PROVE LInv
    OBVIOUS
  <2>1. PortInv
    <3>1. \A p \in Ports : port[p] = [o |-> 0, g |-> LineRate[p], n |-> 0, u |-> 0, y |-> 0, iter |-> 0]
      BY DEF Init
    <3>2. \A p \in Ports : port[p] \in [o : 0 .. Scale, g : Nat, n : Nat, u : Nat, y : Nat, iter : 0 .. MaxIter]
                           /\ port[p].g <= LineRate[p]
      <4>1. ASSUME NEW p \in Ports
            PROVE  LineRate[p] \in Nat /\ Scale \in Nat /\ MaxIter \in Nat
        BY Shape
      <4>2. ASSUME NEW p \in Ports
            PROVE  /\ port[p] \in [o : 0 .. Scale, g : Nat, n : Nat, u : Nat, y : Nat, iter : 0 .. MaxIter]
                   /\ port[p].g <= LineRate[p]
        <5>1. port[p] = [o |-> 0, g |-> LineRate[p], n |-> 0, u |-> 0, y |-> 0, iter |-> 0]
          BY <3>1
        <5>2. 0 \in 0 .. Scale /\ 0 \in 0 .. MaxIter /\ 0 \in Nat /\ LineRate[p] <= LineRate[p]
          BY Shape
        <5>3. port[p].g = LineRate[p]
          BY <5>1
        <5>4. port[p] \in [o : 0 .. Scale, g : Nat, n : Nat, u : Nat, y : Nat, iter : 0 .. MaxIter]
          BY <4>1, <5>1, <5>2
        <5> QED
          BY <5>2, <5>3, <5>4
      <4> QED
        BY <4>2
    <3>3. met \in [Ports -> [Flows -> Nat]]
      BY Shape DEF Init
    <3> QED
      BY <3>2, <3>3 DEF PortInv, Init
  <2>2. NetInv
    BY EmptySeq DEF Init, NetInv
  <2>3. \A f \in Flows : SenderOK(f)
    BY Shape DEF Init, SenderOK
  <2> QED
    BY <2>1, <2>2, <2>3, Shape DEF Init, LInv, SenderInv
<1> QED
  BY <1>1, LStep, PTL DEF Spec

\* Whatever the sums of an interval come to, no port offers a negative share or
\* names more overload than there is, no packet has passed more switches than its path
\* has, and no sender goes above DefaultRate.
THEOREM LucpTypes == Spec => []TypeOK
<1>1. LInv => TypeOK
  <2> SUFFICES ASSUME LInv PROVE TypeOK
    OBVIOUS
  <2>1. ASSUME NEW f \in Flows
        PROVE  /\ cache[f] \in [rt : 0 .. Hops(f), x : 0 .. InitRate]
               /\ first[f] \in {None} \cup 0 .. MaxIter
               /\ rate[f] \in 0 .. InitRate
               /\ net[f] \in Seq(Packets(f))
    <3>1. cache[f] \in [rt : Nat, x : 0 .. InitRate] /\ cache[f].rt \in 0 .. Hops(f)
      BY DEF LInv, SenderInv, SenderOK
    <3>2. net[f] \in Seq(Good(f)) /\ \A pkt \in Good(f) : pkt \in Packets(f)
      BY DEF LInv, NetInv, Good
    <3>3. net[f] \in Seq(Packets(f))
      BY <3>2, SeqMonotonic
    <3> QED
      BY <3>1, <3>3 DEF LInv, SenderInv
  <2> QED
    BY <2>1 DEF LInv, PortInv, SenderInv, TypeOK
<1> QED
  BY <1>1, LucpInductive, PTL

\* No flow sends before the last switch of its path has closed three intervals
\* since its first request came through (sniff's n_iter >= 3).
THEOREM SendersWait == Spec => []Patient
<1>1. LInv => Patient
  BY DEF LInv, SenderInv, SenderOK, Patient
<1> QED
  BY <1>1, LucpInductive, PTL

\* No sender goes above the line of the port it was told is its bottleneck, nor above
\* any line of its path if it was told none.
THEOREM SendersWithin == Spec => []WithinTarget
<1>1. LInv => WithinTarget
  BY DEF LInv, SenderInv, SenderOK, Bounded, WithinTarget
<1> QED
  BY <1>1, LucpInductive, PTL

\* A sender that sends never raises its rate on a reply in which a switch says it is
\* overloaded.
THEOREM NoRaiseIntoOverload == Spec => NoRaise
<1> DEFINE Step == \A f \in Flows : rate'[f] > rate[f] /\ rate[f] > 0 => Head(net[f]).o = 0
<1>1. LInv /\ [Next]_vars => [Step]_vars
  <2> SUFFICES ASSUME LInv, Next PROVE Step
    BY DEF vars
  <2>1. ASSUME rate' = rate PROVE Step
    <3>1. \A f \in Flows : ~(rate'[f] > rate[f])
      BY <2>1 DEF LInv, SenderInv
    <3> QED
      BY <3>1
  <2>2. ASSUME NEW f \in Flows, Back(f), Take(f, Head(net[f])) PROVE Step
    <3>1. /\ rate'[f] > rate[f] /\ rate[f] > 0 => Head(net[f]).o = 0
          /\ \A h \in Flows \ {f} : rate'[h] = rate[h]
      BY <2>2, TakeStep
    <3>2. \A h \in Flows \ {f} : ~(rate'[h] > rate[h])
      BY <3>1 DEF LInv, SenderInv
    <3> QED
      BY <3>1, <3>2
  <2>3. ASSUME NEW f \in Flows, Reply(f) \/ ReplyWhileSending(f) PROVE Step
    BY <2>2, <2>3 DEF Reply, ReplyWhileSending
  <2>4. ASSUME NEW f \in Flows,
               Run(f) \/ Pause(f) \/ Send(f) \/ ReplyIgnored(f) \/ Network(f) \/ Lose(f)
        PROVE  rate' = rate
    BY <2>4 DEF Run, Pause, Send, ReplyIgnored, Network, Pass, Lose
  <2>5. ASSUME NEW p \in Ports, Collect(p) PROVE rate' = rate
    BY <2>5 DEF Collect
  <2> HIDE DEF Step
  <2> QED
    BY <2>1, <2>3, <2>4, <2>5 DEF Next
<1> QED
  BY <1>1, LucpInductive, PTL DEF Spec, NoRaise

=============================================================================
