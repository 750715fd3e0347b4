------------------------------ MODULE JobProofs ------------------------------
(***************************************************************************)
(* Theorems about Job and the Handshake it is composed of, for any messages *)
(* of any length, any clients, jobs and failures.  The bytes one side has   *)
(* taken and those still under way to it are no more than the other has     *)
(* sent; from that the barrier of the handshake follows, and from the       *)
(* barrier what the master may conclude from a last report.                 *)
(***************************************************************************)
EXTENDS Job, SequenceTheorems, TLAPS

\* The length of all messages before m.
Before(m) == (IF m > 1 THEN Sizes[1] ELSE 0) + (IF m > 2 THEN Sizes[2] ELSE 0)
           + (IF m > 3 THEN Sizes[3] ELSE 0) + (IF m > 4 THEN Sizes[4] ELSE 0)

\* How far a side has got, and what it has sent by then.
InPlace(r) ==
    /\ r.pc \in {"idle", "send", "read", "check"} => r.at <= Go
    /\ r.pc \in {"idle", "send"} => r.sent = r.at - 1
    /\ r.pc \in {"read", "check"} => r.sent = r.at
    /\ r.pc = "read" => r.got < Sizes[r.at] /\ Len(r.data) = Sizes[r.at]
    /\ r.pc = "check" => r.got >= Sizes[r.at]
    /\ r.pc = "through" => r.at = Go + 1
    /\ r.sent >= r.at - 1

\* A side and the bytes under way to it, which the other sent.
Taken(r)        == IF r.pc \in {"read", "check"} THEN r.got ELSE 0
Counts(r, o, w) == Len(w) + Before(r.at) + Taken(r) <= Before(o.sent + 1)

Bytes == Rounds \X (Nat \ {0})

HTypes ==
    /\ side \in [Conns -> [Sides -> Exchange]]
    /\ wire \in [Conns -> [Sides -> Seq(Bytes)]]
    /\ split \in [Conns -> BOOLEAN]

HInv ==
    /\ HTypes
    /\ \A x \in Conns, s \in Sides :
          /\ InPlace(side[x][s])
          /\ Counts(side[x][s], side[x][Other(s)], wire[x][s])

\* What a side has sent it has sent (of a step).
SentGrows == \A x \in Conns, s \in Sides : side[x][s].sent <= side'[x][s].sent

-----------------------------------------------------------------------------
(* Lengths.                                                                *)

LEMMA SizesAre == \A m \in Rounds : Sizes[m] \in Nat \ {0}
BY SizesAssumption

LEMMA RoundsAre == Rounds = {1, 2, 3, 4} /\ Go = 4 /\ Ready = 1
BY DEF Rounds, Ready, Go

LEMMA BeforeGrows ==
    /\ \A m \in 1 .. Go + 1 : Before(m) \in Nat
    /\ \A m \in Rounds : Before(m + 1) = Before(m) + Sizes[m]
    /\ \A m, n \in 1 .. Go + 1 : Before(m) <= Before(n) => m <= n
<1>1. Sizes[1] \in Nat \ {0} /\ Sizes[2] \in Nat \ {0} /\ Sizes[3] \in Nat \ {0} /\ Sizes[4] \in Nat \ {0}
  BY SizesAre, RoundsAre
<1>2. 1 .. Go + 1 = {1, 2, 3, 4, 5}
  BY RoundsAre
<1>3. /\ Before(1) = 0 /\ Before(2) = Sizes[1] /\ Before(3) = Sizes[1] + Sizes[2]
      /\ Before(4) = Sizes[1] + Sizes[2] + Sizes[3]
      /\ Before(5) = Sizes[1] + Sizes[2] + Sizes[3] + Sizes[4]
  BY <1>1 DEF Before
<1>4. \A m \in 1 .. Go + 1 : Before(m) \in Nat
  BY <1>1, <1>2, <1>3
<1>5. \A m \in Rounds : Before(m + 1) = Before(m) + Sizes[m]
  BY <1>1, <1>3, RoundsAre
<1>6. \A m, n \in 1 .. Go + 1 : Before(m) <= Before(n) => m <= n
  BY <1>1, <1>2, <1>3
<1> QED
  BY <1>4, <1>5, <1>6

LEMMA Opposite ==
    \A s, t \in Sides : /\ Other(s) \in Sides /\ Other(s) # s /\ Other(Other(s)) = s
                        /\ t = s \/ t = Other(s)
BY DEF Sides, Other

\* Whatever a side does to its own record, and to the bytes either way, keeps the
\* invariant if the two sides still count right.
LEMMA OneSide ==
    ASSUME HInv, HTypes', NEW c \in Conns, NEW s \in Sides, NEW r \in Exchange,
           \A x \in Conns, t \in Sides :
              side'[x][t] = IF x = c /\ t = s THEN r ELSE side[x][t],
           \A x \in Conns : x # c => wire'[x] = wire[x],
           InPlace(r), side[c][s].sent <= r.sent,
           Counts(r, side[c][Other(s)], wire'[c][s]),
           Counts(side[c][Other(s)], r, wire'[c][Other(s)])
    PROVE  HInv' /\ SentGrows
<1>0. SentGrows
  <2> SUFFICES ASSUME NEW x \in Conns, NEW t \in Sides
               PROVE  side[x][t].sent <= side'[x][t].sent
    BY DEF SentGrows
  <2>1. side[x][t].sent \in Int
    BY DEF HInv, HTypes, Exchange
  <2> QED
    BY <2>1
<1> SUFFICES ASSUME NEW x \in Conns, NEW t \in Sides
             PROVE  /\ InPlace(side'[x][t])
                    /\ Counts(side'[x][t], side'[x][Other(t)], wire'[x][t])
  BY <1>0 DEF HInv, InPlace, Counts, Taken
<1>1. /\ InPlace(side[x][t]) /\ Counts(side[x][t], side[x][Other(t)], wire[x][t])
      /\ InPlace(side[c][Other(s)])
  BY Opposite DEF HInv
<1>2. CASE x # c
  BY <1>1, <1>2, Opposite
<1>3. CASE x = c /\ t = s
  BY <1>1, <1>3, Opposite
<1>4. CASE x = c /\ t = Other(s)
  BY <1>1, <1>4, Opposite
<1> QED
  BY <1>2, <1>3, <1>4, Opposite

\* What a record says of its side.
LEMMA RecordIs ==
    ASSUME HInv, NEW c \in Conns, NEW s \in Sides
    PROVE  /\ side[c][s] \in Exchange /\ InPlace(side[c][s])
           /\ Counts(side[c][s], side[c][Other(s)], wire[c][s])
           /\ Counts(side[c][Other(s)], side[c][s], wire[c][Other(s)])
           /\ side[c][Other(s)] \in Exchange
           /\ wire[c][s] \in Seq(Bytes) /\ wire[c][Other(s)] \in Seq(Bytes)
           /\ wire[c] \in [Sides -> Seq(Bytes)]
BY Opposite DEF HInv, HTypes

\* Nobody is past an exchange the other has not come to.
LEMMA BarrierFollows == HInv => Barrier
<1> SUFFICES ASSUME HInv, NEW c \in Conns, NEW s \in Sides
             PROVE  side[c][Other(s)].sent >= side[c][s].at - 1
  BY DEF Barrier
<1>1. /\ side[c][s].at \in 1 .. Go + 1 /\ side[c][s].got \in Nat
      /\ side[c][Other(s)].sent \in 0 .. Go /\ wire[c][s] \in Seq(Bytes)
  BY RecordIs DEF Exchange
<1> DEFINE a == side[c][s].at
           n == side[c][Other(s)].sent
<1>2. Len(wire[c][s]) \in Nat /\ Taken(side[c][s]) \in Nat
  BY <1>1 DEF Taken
<1>3. Len(wire[c][s]) + Before(a) + Taken(side[c][s]) <= Before(n + 1)
  BY RecordIs DEF Counts
<1>4. a \in 1 .. Go + 1 /\ n + 1 \in 1 .. Go + 1 /\ n \in Int
  BY <1>1, RoundsAre
<1>5. Before(a) \in Nat /\ Before(n + 1) \in Nat
  BY <1>4, BeforeGrows
<1>6. Before(a) <= Before(n + 1)
  BY <1>2, <1>3, <1>5
<1>7. a <= n + 1
  BY <1>4, <1>6, BeforeGrows
<1> QED
  BY <1>4, <1>7

-----------------------------------------------------------------------------
(* The steps of a handshake.                                               *)

\* Messages are bytes, and blank memory is as long.
LEMMA MessageIs ==
    ASSUME NEW m \in Rounds
    PROVE  /\ MessageBytes(m) \in Seq(Bytes) /\ Len(MessageBytes(m)) = Sizes[m]
           /\ Blank(m) \in Seq((0 .. Go) \X Nat) /\ Len(Blank(m)) = Sizes[m]
<1>1. Sizes[m] \in Nat \ {0}
  BY SizesAre
<1>2. \A k \in 1 .. Sizes[m] : <<m, k>> \in Bytes
  BY <1>1 DEF Bytes
<1>3. Unset \in (0 .. Go) \X Nat
  BY RoundsAre DEF Unset
<1>4. MessageBytes(m) \in Seq(Bytes) /\ Len(MessageBytes(m)) = Sizes[m]
  BY <1>1, <1>2 DEF MessageBytes
<1>5. Blank(m) \in Seq((0 .. Go) \X Nat) /\ Len(Blank(m)) = Sizes[m]
  BY <1>1, <1>3 DEF Blank
<1> QED
  BY <1>4, <1>5

LEMMA OpenStep ==
    ASSUME HInv, NEW c \in Conns, Open(c)
    PROVE  HInv' /\ SentGrows
<1>1. /\ wire' = wire /\ split' = split
      /\ \A s \in Sides : side[c][s].pc = "idle"
      /\ side' = [side EXCEPT ![c] = [s \in Sides |-> [side[c][s] EXCEPT !.pc = "send"]]]
  BY DEF Open
<1>2. \A s \in Sides : side[c][s] \in Exchange /\ InPlace(side[c][s])
  BY RecordIs
<1>3. \A s \in Sides : LET r == [side[c][s] EXCEPT !.pc = "send"]
                       IN  /\ r \in Exchange /\ r.pc = "send"
                           /\ r.at = side[c][s].at /\ r.sent = side[c][s].sent
  BY <1>2 DEF Exchange
<1>4. \A x \in Conns, t \in Sides :
         side'[x][t] = IF x = c THEN [side[c][t] EXCEPT !.pc = "send"] ELSE side[x][t]
  BY <1>1 DEF HInv, HTypes
<1>5. HTypes'
  <2>1. [s \in Sides |-> [side[c][s] EXCEPT !.pc = "send"]] \in [Sides -> Exchange]
    BY <1>3
  <2> QED
    BY <1>1, <2>1 DEF HInv, HTypes
<1>6. ASSUME NEW x \in Conns, NEW t \in Sides
      PROVE  /\ InPlace(side'[x][t])
             /\ Counts(side'[x][t], side'[x][Other(t)], wire'[x][t])
  <2>1. CASE x # c
    BY <1>1, <1>4, <2>1, Opposite DEF HInv
  <2>2. CASE x = c
    <3>1. /\ side'[x][t].at = side[c][t].at /\ side'[x][t].sent = side[c][t].sent
          /\ side'[x][t].pc = "send" /\ side'[x][Other(t)].sent = side[c][Other(t)].sent
      BY <1>3, <1>4, <2>2, Opposite
    <3>2. side[c][t].sent = side[c][t].at - 1 /\ side[c][t].at = side[c][t].sent + 1
          /\ side[c][t].sent \in 0 .. Go /\ side[c][t].at <= Go
      <4>1. side[c][t].at \in 1 .. Go + 1 /\ side[c][t].sent \in 0 .. Go
        BY <1>2 DEF Exchange
      <4>2. side[c][t].sent = side[c][t].at - 1 /\ side[c][t].at <= Go
        BY <1>1, <1>2 DEF InPlace
      <4> QED
        BY <4>1, <4>2
    <3>3. InPlace(side'[x][t])
      BY <3>1, <3>2, RoundsAre DEF InPlace
    <3>4. Counts(side[c][t], side[c][Other(t)], wire[c][t])
      BY RecordIs
    <3>5. Counts(side'[x][t], side'[x][Other(t)], wire'[x][t])
      BY <1>1, <2>2, <3>1, <3>4 DEF Counts, Taken
    <3> QED
      BY <3>3, <3>5
  <2> QED
    BY <2>1, <2>2
<1>7. SentGrows
  <2> SUFFICES ASSUME NEW x \in Conns, NEW t \in Sides
               PROVE  side[x][t].sent <= side'[x][t].sent
    BY DEF SentGrows
  <2>1. side[x][t].sent \in Int
    BY DEF HInv, HTypes, Exchange
  <2>2. side'[x][t].sent = side[x][t].sent
    <3>1. CASE x = c
      BY <1>3, <1>4, <3>1
    <3>2. CASE x # c
      BY <1>4, <3>2
    <3> QED
      BY <3>1, <3>2
  <2> QED
    BY <2>1, <2>2
<1> QED
  BY <1>1, <1>5, <1>6, <1>7 DEF HInv, InPlace, Counts, Taken

LEMMA SendOwnStep ==
    ASSUME HInv, NEW c \in Conns, NEW s \in Sides, SendOwn(c, s)
    PROVE  HInv' /\ SentGrows
<1> DEFINE r == side[c][s]
           m == r.at
           o == side[c][Other(s)]
           q == [r EXCEPT !.pc = "read", !.got = 0, !.data = Blank(m),
                          !.sent = IF @ < m THEN m ELSE @]
<1>1. /\ r \in Exchange /\ InPlace(r) /\ r.pc = "send" /\ o \in Exchange
      /\ Counts(r, o, wire[c][s]) /\ Counts(o, r, wire[c][Other(s)])
      /\ wire[c] \in [Sides -> Seq(Bytes)]
      /\ Other(s) \in Sides /\ Other(s) # s
  BY RecordIs, Opposite DEF SendOwn
<1>2. m \in Rounds /\ r.sent = m - 1 /\ m \in Nat
  <2>1. m \in 1 .. Go + 1 /\ m <= Go /\ r.sent = m - 1
    BY <1>1 DEF InPlace, Exchange
  <2> QED
    BY <2>1, RoundsAre DEF Rounds, Ready
<1>3. /\ q \in Exchange /\ q.pc = "read" /\ q.got = 0 /\ q.at = m /\ q.sent = m
      /\ Len(q.data) = Sizes[m]
  <2>1. m \in 0 .. Go
    BY <1>2 DEF Rounds, Ready, Go
  <2>2. Blank(m) \in Seq((0 .. Go) \X Nat) /\ Len(Blank(m)) = Sizes[m]
    BY <1>2, MessageIs
  <2>3. (IF r.sent < m THEN m ELSE r.sent) = m
    BY <1>2
  <2> QED
    BY <1>1, <2>1, <2>2, <2>3 DEF Exchange
<1>4. /\ wire' = [wire EXCEPT ![c][Other(s)] = @ \o MessageBytes(m)]
      /\ side' = [side EXCEPT ![c][s] = q]
      /\ split' = split
  BY <1>1 DEF SendOwn, HInv, HTypes, Exchange
<1> HIDE DEF q
<1>5. HTypes'
  <2>1. wire[c][Other(s)] \o MessageBytes(m) \in Seq(Bytes)
    BY <1>1, <1>2, MessageIs, ConcatProperties
  <2> QED
    BY <1>1, <1>3, <1>4, <2>1 DEF HInv, HTypes
<1>6. /\ \A x \in Conns, t \in Sides :
            side'[x][t] = IF x = c /\ t = s THEN q ELSE side[x][t]
      /\ \A x \in Conns : x # c => wire'[x] = wire[x]
      /\ wire'[c][s] = wire[c][s]
      /\ wire'[c][Other(s)] = wire[c][Other(s)] \o MessageBytes(m)
  BY <1>1, <1>4 DEF HInv, HTypes
<1>7. InPlace(q)
  <2>1. m <= Go /\ Sizes[m] \in Nat \ {0}
    BY <1>2, SizesAre DEF Rounds
  <2> QED
    BY <1>2, <1>3, <2>1 DEF InPlace
<1>8. Counts(q, o, wire'[c][s])
  BY <1>1, <1>3, <1>6 DEF Counts, Taken
<1>9. Counts(o, q, wire'[c][Other(s)])
  <2>1. Len(wire'[c][Other(s)]) = Len(wire[c][Other(s)]) + Sizes[m]
    <3>1. wire[c][Other(s)] \in Seq(Bytes)
      BY <1>1
    <3>2. MessageBytes(m) \in Seq(Bytes) /\ Len(MessageBytes(m)) = Sizes[m]
      BY <1>2, MessageIs
    <3>3. Len(wire[c][Other(s)] \o MessageBytes(m)) = Len(wire[c][Other(s)]) + Len(MessageBytes(m))
      BY ONLY <3>1, <3>2, ConcatProperties
    <3> QED
      BY <1>6, <3>2, <3>3
  <2>2. Len(wire[c][Other(s)]) + Before(o.at) + Taken(o) <= Before(m - 1 + 1)
    BY <1>1, <1>2 DEF Counts
  <2>3. Before(m + 1) = Before(m) + Sizes[m] /\ m - 1 + 1 = m
    BY <1>2, BeforeGrows
  <2>4. /\ Len(wire[c][Other(s)]) \in Nat /\ Before(o.at) \in Nat /\ Taken(o) \in Nat
        /\ Sizes[m] \in Nat /\ Before(m) \in Nat
    <3>1. o.at \in 1 .. Go + 1 /\ o.got \in Nat
      BY <1>1 DEF Exchange
    <3>2. m \in 1 .. Go + 1
      BY <1>2 DEF Rounds, Ready, Go
    <3> QED
      BY <1>1, <1>2, <3>1, <3>2, BeforeGrows, SizesAre DEF Taken
  <2> HIDE DEF m, o
  <2> QED
    BY <1>3, <2>1, <2>2, <2>3, <2>4 DEF Counts
<1>10. side[c][s].sent <= q.sent
  BY <1>2, <1>3
<1> QED
  BY <1>3, <1>5, <1>6, <1>7, <1>8, <1>9, <1>10, OneSide

LEMMA ReadStep ==
    ASSUME HInv, NEW c \in Conns, NEW s \in Sides, Read(c, s)
    PROVE  HInv' /\ SentGrows
<1> DEFINE r == side[c][s]
           w == wire[c][s]
           o == side[c][Other(s)]
<1>1. /\ r \in Exchange /\ InPlace(r) /\ r.pc = "read" /\ o \in Exchange
      /\ Counts(r, o, w) /\ Counts(o, r, wire[c][Other(s)])
      /\ w \in Seq(Bytes) /\ wire[c] \in [Sides -> Seq(Bytes)]
      /\ Other(s) \in Sides /\ Other(s) # s
  BY RecordIs, Opposite DEF Read
<1>2. PICK k \in 1 .. Asked(r) :
         /\ k <= Len(w)
         /\ wire' = [wire EXCEPT ![c][s] = SubSeq(@, k + 1, Len(@))]
         /\ side' = [side EXCEPT
               ![c][s].data = [i \in DOMAIN @ |-> IF i <= k THEN w[i] ELSE @[i]],
               ![c][s].got = @ + k,
               ![c][s].pc = IF Enough(r.got + k, r) THEN "check" ELSE "read"]
         /\ split' = [split EXCEPT ![c] = @ \/ k < Sizes[r.at]]
  BY DEF Read
<1> DEFINE data == [i \in DOMAIN r.data |-> IF i <= k THEN w[i] ELSE r.data[i]]
           q == [r EXCEPT !.data = data, !.got = @ + k,
                          !.pc = IF Enough(r.got + k, r) THEN "check" ELSE "read"]
<1>3. /\ r.at \in Rounds /\ r.at <= Go /\ r.sent = r.at /\ Sizes[r.at] \in Nat \ {0}
      /\ Len(r.data) = Sizes[r.at] /\ r.got \in Nat /\ k \in Nat /\ r.data \in Seq((0 .. Go) \X Nat)
  <2>1. r.at \in 1 .. Go + 1 /\ r.at <= Go
    BY <1>1 DEF InPlace, Exchange
  <2>2. r.at \in Rounds
    BY <2>1, RoundsAre DEF Rounds, Ready
  <2> QED
    BY <1>1, <2>1, <2>2, SizesAre DEF InPlace, Exchange, Asked
<1>14. k <= Len(w) /\ Len(w) \in Nat /\ wire' = [wire EXCEPT ![c][s] = SubSeq(@, k + 1, Len(@))]
  <2>1. k <= Len(w) /\ wire' = [wire EXCEPT ![c][s] = SubSeq(@, k + 1, Len(@))]
    BY <1>2
  <2>2. Len(w) \in Nat
    BY <1>1
  <2> QED
    BY <2>1, <2>2
<1>4. Bytes \subseteq (0 .. Go) \X Nat
  BY RoundsAre DEF Bytes
<1>5. data \in Seq((0 .. Go) \X Nat) /\ Len(data) = Sizes[r.at]
  <2>1. DOMAIN r.data = 1 .. Sizes[r.at]
    BY <1>3
  <2>2. \A i \in 1 .. Sizes[r.at] : (IF i <= k THEN w[i] ELSE r.data[i]) \in (0 .. Go) \X Nat
    <3> SUFFICES ASSUME NEW i \in 1 .. Sizes[r.at]
                 PROVE  (IF i <= k THEN w[i] ELSE r.data[i]) \in (0 .. Go) \X Nat
      OBVIOUS
    <3>1. CASE i <= k
      <4>1. i \in 1 .. Len(w)
        BY ONLY <1>3, <1>14, <3>1, i \in Int, 1 <= i
      <4>2. w[i] \in Bytes
        BY <1>1, <4>1, ElementOfSeq
      <4> QED
        BY <1>4, <3>1, <4>2
    <3>2. CASE ~(i <= k)
      <4>1. i \in 1 .. Len(r.data)
        BY <1>3
      <4>2. r.data[i] \in (0 .. Go) \X Nat
        BY <1>3, <4>1, ElementOfSeq
      <4> QED
        BY <3>2, <4>2
    <3> QED
      BY <3>1, <3>2
  <2>3. data = [i \in 1 .. Sizes[r.at] |-> IF i <= k THEN w[i] ELSE r.data[i]]
    BY <2>1
  <2>4. Sizes[r.at] \in Nat
    BY <1>3
  <2> DEFINE e(i) == IF i <= k THEN w[i] ELSE r.data[i]
  <2>5. data = [i \in 1 .. Sizes[r.at] |-> e(i)]
    BY <2>3
  <2>6. \A i \in 1 .. Sizes[r.at] : e(i) \in (0 .. Go) \X Nat
    BY <2>2
  <2> HIDE DEF data, e
  <2>7. /\ [i \in 1 .. Sizes[r.at] |-> e(i)] \in Seq((0 .. Go) \X Nat)
        /\ Len([i \in 1 .. Sizes[r.at] |-> e(i)]) = Sizes[r.at]
    BY <2>4, <2>6
  <2> QED
    BY <2>5, <2>7
<1> HIDE DEF data
<1>6. /\ q \in Exchange /\ q.pc = (IF r.got + k >= Sizes[r.at] THEN "check" ELSE "read")
      /\ q.got = r.got + k /\ q.at = r.at /\ q.sent = r.sent /\ q.data = data
  <2>1. Enough(r.got + k, r) <=> r.got + k >= Sizes[r.at]
    BY DEF Enough
  <2>2. r.got + k \in Nat
    BY <1>3
  <2> HIDE DEF r, w, o
  <2> QED
    BY <1>1, <1>3, <1>5, <2>1, <2>2 DEF Exchange
<1>7. side' = [side EXCEPT ![c][s] = q]
  BY <1>1, <1>2 DEF HInv, HTypes, Exchange, data
<1> HIDE DEF q
<1>8. /\ SubSeq(w, k + 1, Len(w)) \in Seq(Bytes)
      /\ Len(SubSeq(w, k + 1, Len(w))) = Len(w) - k
  <2>1. Len(w) \in Nat /\ k + 1 \in Int /\ Len(w) \in Int
    BY <1>1, <1>3
  <2>2. \A i \in k + 1 .. Len(w) : w[i] \in Bytes
    BY <1>1, <1>3, <2>1, ElementOfSeq
  <2>3. /\ SubSeq(w, k + 1, Len(w)) \in Seq(Bytes)
        /\ Len(SubSeq(w, k + 1, Len(w))) = IF k + 1 <= Len(w) THEN Len(w) - (k + 1) + 1 ELSE 0
    BY ONLY <2>1, <2>2, SubSeqProperties
  <2> HIDE DEF w
  <2> QED
    BY <1>14, <1>3, <2>1, <2>3
<1>9. HTypes'
  <2>1. wire' \in [Conns -> [Sides -> Seq(Bytes)]]
    BY <1>1, <1>2, <1>8 DEF HInv, HTypes
  <2>2. side' \in [Conns -> [Sides -> Exchange]]
    BY <1>1, <1>6, <1>7 DEF HInv, HTypes
  <2>3. split' \in [Conns -> BOOLEAN]
    <3>1. \A b : (b \/ k < Sizes[r.at]) \in BOOLEAN
      OBVIOUS
    <3>2. split' = [split EXCEPT ![c] = @ \/ k < Sizes[r.at]] /\ split \in [Conns -> BOOLEAN]
      BY <1>2 DEF HInv, HTypes
    <3> QED
      BY <3>1, <3>2, Zenon
  <2> QED
    BY <2>1, <2>2, <2>3 DEF HTypes
<1>10. /\ \A x \in Conns, t \in Sides :
             side'[x][t] = IF x = c /\ t = s THEN q ELSE side[x][t]
       /\ \A x \in Conns : x # c => wire'[x] = wire[x]
       /\ wire'[c][s] = SubSeq(w, k + 1, Len(w))
       /\ wire'[c][Other(s)] = wire[c][Other(s)]
  <2>1. wire \in [Conns -> [Sides -> Seq(Bytes)]] /\ side \in [Conns -> [Sides -> Exchange]]
    BY DEF HInv, HTypes
  <2>2. \A x \in Conns, t \in Sides :
             side'[x][t] = IF x = c /\ t = s THEN q ELSE side[x][t]
    BY <1>7, <2>1
  <2>3. /\ \A x \in Conns : x # c => wire'[x] = wire[x]
        /\ wire'[c][s] = SubSeq(wire[c][s], k + 1, Len(wire[c][s]))
        /\ wire'[c][Other(s)] = wire[c][Other(s)]
    BY <1>1, <1>14, <2>1
  <2> QED
    BY <2>2, <2>3
<1>11. InPlace(q)
  <2>1. r.got + k \in Nat
    BY <1>3
  <2> HIDE DEF r, w, o
  <2> QED
    BY <1>3, <1>5, <1>6, <2>1, RoundsAre DEF InPlace
<1>12. Counts(q, o, wire'[c][s])
  <2>1. Len(w) + Before(r.at) + r.got <= Before(o.sent + 1)
    BY <1>1 DEF Counts, Taken
  <2>2. Before(r.at) \in Nat /\ Before(o.sent + 1) \in Nat /\ Len(w) \in Nat
    <3>1. r.at \in 1 .. Go + 1 /\ o.sent + 1 \in 1 .. Go + 1
      BY <1>1, RoundsAre DEF Exchange
    <3> QED
      BY <1>1, <3>1, BeforeGrows
  <2>3. Taken(q) = r.got + k
    BY <1>6 DEF Taken
  <2> HIDE DEF r, w, o
  <2> QED
    BY <1>3, <1>6, <1>8, <1>10, <2>1, <2>2, <2>3 DEF Counts
<1>13. Counts(o, q, wire'[c][Other(s)])
  BY <1>1, <1>6, <1>10 DEF Counts
<1>15. side[c][s].sent <= q.sent
  BY <1>3, <1>6, RoundsAre
<1> QED
  BY <1>6, <1>9, <1>10, <1>11, <1>12, <1>13, <1>15, OneSide

LEMMA AcceptStep ==
    ASSUME HInv, NEW c \in Conns, NEW s \in Sides, Accept(c, s)
    PROVE  HInv' /\ SentGrows
<1> DEFINE r == side[c][s]
           o == side[c][Other(s)]
           q == [r EXCEPT !.at = @ + 1, !.data = <<>>, !.got = 0,
                          !.pc = IF r.at = Go THEN "through" ELSE "send",
                          !.exact = @ /\ IsExact(r)]
<1>1. /\ r \in Exchange /\ InPlace(r) /\ r.pc = "check" /\ o \in Exchange
      /\ Counts(r, o, wire[c][s]) /\ Counts(o, r, wire[c][Other(s)])
      /\ wire[c][s] \in Seq(Bytes)
      /\ Other(s) \in Sides /\ Other(s) # s
  BY RecordIs, Opposite DEF Accept
<1>2. r.at \in Rounds /\ r.at <= Go /\ r.sent = r.at /\ r.got >= Sizes[r.at] /\ r.got \in Nat
  <2>1. r.at \in 1 .. Go + 1 /\ r.at <= Go
    BY <1>1 DEF InPlace, Exchange
  <2>2. r.at \in Rounds
    BY <2>1, RoundsAre DEF Rounds, Ready
  <2> QED
    BY <1>1, <2>1, <2>2 DEF InPlace, Exchange
<1>3. (r.exact /\ IsExact(r)) \in BOOLEAN /\ <<>> \in Seq((0 .. Go) \X Nat)
  BY EmptySeq
<1>4. /\ q \in Exchange /\ q.pc = (IF r.at = Go THEN "through" ELSE "send")
      /\ q.got = 0 /\ q.at = r.at + 1 /\ q.sent = r.sent
  <2>1. r.at + 1 \in 1 .. Go + 1
    BY <1>2, RoundsAre
  <2> HIDE DEF r
  <2> QED
    BY <1>1, <1>3, <2>1 DEF Exchange
<1>5. side' = [side EXCEPT ![c][s] = q] /\ wire' = wire /\ split' = split
  BY <1>1 DEF Accept, HInv, HTypes, Exchange
<1> HIDE DEF q
<1>6. HTypes'
  BY <1>1, <1>4, <1>5 DEF HInv, HTypes
<1>7. \A x \in Conns, t \in Sides :
         side'[x][t] = IF x = c /\ t = s THEN q ELSE side[x][t]
  BY <1>1, <1>5 DEF HInv, HTypes
<1>8. InPlace(q)
  BY <1>2, <1>4, RoundsAre DEF InPlace
<1>9. Counts(q, o, wire'[c][s])
  <2>1. Len(wire[c][s]) + Before(r.at) + r.got <= Before(o.sent + 1)
    BY <1>1 DEF Counts, Taken
  <2>2. /\ Before(r.at) \in Nat /\ Before(o.sent + 1) \in Nat /\ Len(wire[c][s]) \in Nat
        /\ Before(r.at + 1) = Before(r.at) + Sizes[r.at] /\ Sizes[r.at] \in Nat
    <3>1. r.at \in 1 .. Go + 1 /\ o.sent + 1 \in 1 .. Go + 1
      BY <1>1, RoundsAre DEF Exchange
    <3> QED
      BY <1>1, <1>2, <3>1, BeforeGrows, SizesAre
  <2>3. Taken(q) = 0
    BY <1>4 DEF Taken
  <2> HIDE DEF r, o
  <2> QED
    BY <1>2, <1>4, <1>5, <2>1, <2>2, <2>3 DEF Counts
<1>10. Counts(o, q, wire'[c][Other(s)])
  BY <1>1, <1>4, <1>5 DEF Counts
<1>11. side[c][s].sent <= q.sent
  BY <1>2, <1>4, RoundsAre
<1> QED
  BY <1>4, <1>5, <1>6, <1>7, <1>8, <1>9, <1>10, <1>11, OneSide

\* A side that ends, or is ended: it counts no more.
LEMMA EndedRecord ==
    ASSUME HInv, NEW c \in Conns, NEW s \in Sides, NEW q \in Exchange,
           q.pc = "failed", q.at = side[c][s].at, q.sent = side[c][s].sent
    PROVE  /\ InPlace(q) /\ side[c][s].sent <= q.sent
           /\ Counts(q, side[c][Other(s)], wire[c][s])
           /\ Counts(side[c][Other(s)], q, wire[c][Other(s)])
<1> DEFINE r == side[c][s]
           o == side[c][Other(s)]
<1>1. /\ r \in Exchange /\ InPlace(r) /\ o \in Exchange
      /\ Counts(r, o, wire[c][s]) /\ Counts(o, r, wire[c][Other(s)])
      /\ wire[c][s] \in Seq(Bytes)
  BY RecordIs
<1>2. InPlace(q) /\ r.sent <= q.sent
  BY <1>1 DEF InPlace, Exchange
<1>3. Counts(q, o, wire[c][s])
  <2>1. Len(wire[c][s]) + Before(r.at) + Taken(r) <= Before(o.sent + 1)
    BY <1>1 DEF Counts
  <2>2. /\ Before(r.at) \in Nat /\ Before(o.sent + 1) \in Nat /\ Len(wire[c][s]) \in Nat
        /\ Taken(r) \in Nat
    <3>1. r.at \in 1 .. Go + 1 /\ o.sent \in 0 .. Go /\ r.got \in Nat
      BY <1>1 DEF Exchange
    <3>2. o.sent + 1 \in 1 .. Go + 1
      BY <3>1, RoundsAre
    <3> QED
      BY <1>1, <3>1, <3>2, BeforeGrows DEF Taken
  <2>3. Taken(q) = 0
    BY DEF Taken
  <2> HIDE DEF r, o
  <2>4. q.at = r.at
    BY DEF r
  <2> QED
    BY <2>1, <2>2, <2>3, <2>4 DEF Counts
<1>4. Counts(o, q, wire[c][Other(s)])
  BY <1>1 DEF Counts
<1> QED
  BY <1>2, <1>3, <1>4

LEMMA FailStep ==
    ASSUME HInv, NEW c \in Conns, NEW s \in Sides, Fail(c, s)
    PROVE  HInv' /\ SentGrows
<1> DEFINE q == [side[c][s] EXCEPT !.pc = "failed", !.data = <<>>, !.got = 0]
<1>1. side[c][s] \in Exchange /\ Other(s) \in Sides /\ Other(s) # s
  BY RecordIs, Opposite
<1>2. q \in Exchange /\ q.pc = "failed" /\ q.at = side[c][s].at /\ q.sent = side[c][s].sent
  BY <1>1, EmptySeq DEF Exchange
<1>3. side' = [side EXCEPT ![c][s] = q] /\ wire' = wire /\ split' = split
  BY <1>1 DEF Fail, HInv, HTypes, Exchange
<1> HIDE DEF q
<1>4. HTypes'
  BY <1>2, <1>3 DEF HInv, HTypes
<1>5. \A x \in Conns, t \in Sides :
         side'[x][t] = IF x = c /\ t = s THEN q ELSE side[x][t]
  BY <1>3 DEF HInv, HTypes
<1>6. /\ InPlace(q) /\ side[c][s].sent <= q.sent
      /\ Counts(q, side[c][Other(s)], wire'[c][s])
      /\ Counts(side[c][Other(s)], q, wire'[c][Other(s)])
  BY <1>2, <1>3, EndedRecord
<1> QED
  BY <1>2, <1>3, <1>4, <1>5, <1>6, OneSide

\* The end of a process ends the client's side of its transfers.
LEMMA ProcessEndsStep ==
    ASSUME HInv, NEW h \in Clients, ProcessEnds(h)
    PROVE  HInv' /\ SentGrows
<1> DEFINE Ends(x) == x[2] = h /\ xfer[x] \in Active
           q(x) == [side[x]["client"] EXCEPT !.pc = "failed"]
<1>1. /\ wire' = wire /\ split' = split
      /\ side' = [x \in Conns |->
                    IF Ends(x) THEN [side[x] EXCEPT !["client"] = q(x)] ELSE side[x]]
      /\ side \in [Conns -> [Sides -> Exchange]]
  BY DEF ProcessEnds, HInv, HTypes, Exchange
<1>2. "client" \in Sides /\ "server" \in Sides /\ Other("client") = "server" /\ Other("server") = "client"
      /\ \A s \in Sides : s = "client" \/ s = "server"
  BY DEF Sides, Other
<1>3. ASSUME NEW x \in Conns
      PROVE  /\ q(x) \in Exchange /\ q(x).pc = "failed"
             /\ q(x).at = side[x]["client"].at /\ q(x).sent = side[x]["client"].sent
  <2>1. side[x]["client"] \in Exchange
    BY <1>1, <1>2
  <2> QED
    BY <2>1 DEF Exchange
<1> HIDE DEF q, Ends
<1>4. ASSUME NEW x \in Conns
      PROVE  /\ ~Ends(x) => side'[x] = side[x]
             /\ Ends(x) => side'[x]["client"] = q(x) /\ side'[x]["server"] = side[x]["server"]
             /\ side'[x] \in [Sides -> Exchange]
  BY <1>1, <1>2, <1>3
<1>5. HTypes'
  <2>1. side' \in [Conns -> [Sides -> Exchange]]
    BY <1>1, <1>4
  <2> QED
    BY <1>1, <2>1 DEF HInv, HTypes
<1>6. ASSUME NEW x \in Conns, NEW t \in Sides
      PROVE  /\ InPlace(side'[x][t]) /\ side[x][t].sent <= side'[x][t].sent
             /\ Counts(side'[x][t], side'[x][Other(t)], wire'[x][t])
  <2>1. CASE ~Ends(x)
    <3>1. side[x][t].sent \in Int
      BY <1>1 DEF Exchange
    <3> QED
      BY <1>1, <1>4, <2>1, <3>1, RecordIs
  <2>2. CASE Ends(x)
    <3>1. /\ side'[x]["client"] = q(x) /\ side'[x]["server"] = side[x]["server"]
          /\ q(x) \in Exchange /\ q(x).pc = "failed"
          /\ q(x).at = side[x]["client"].at /\ q(x).sent = side[x]["client"].sent
      BY <1>3, <1>4, <2>2
    <3>2. /\ InPlace(q(x)) /\ side[x]["client"].sent <= q(x).sent
          /\ Counts(q(x), side[x]["server"], wire[x]["client"])
          /\ Counts(side[x]["server"], q(x), wire[x]["server"])
      BY <1>2, <3>1, EndedRecord
    <3>3. InPlace(side[x]["server"]) /\ side[x]["server"].sent \in Int
      BY <1>2, RecordIs DEF Exchange
    <3> QED
      BY <1>1, <1>2, <3>1, <3>2, <3>3
  <2> QED
    BY <2>1, <2>2
<1>7. SentGrows
  BY <1>6 DEF SentGrows
<1> QED
  BY <1>5, <1>6, <1>7 DEF HInv, InPlace, Counts, Taken

-----------------------------------------------------------------------------
(* Jobs.                                                                   *)

JobTypes ==
    /\ job \in 0 .. MaxJobs /\ mpc \in {"idle", "running", "gone"}
    /\ thread \in [Clients -> {"none", "connect", "collect", "done"}]
    /\ counted \in [Clients -> BOOLEAN] /\ checker \in {"waits", "told", "lost"}
    /\ daemon \in [Clients -> {"up", "down"}]
    /\ xfer \in [Conns -> Active \cup {"none", "ended", "failed", "dead"}]
    /\ rate \in [Conns -> {"none", "open", "cut", "last", "short"}]
    /\ failures \in Seq(Jobs)

\* A transfer that sends has a server that agreed; a last report comes from one
\* that has sent everything.
XferInv ==
    \A x \in Conns :
        /\ xfer[x] \in {"sending", "tail"} => side[x]["server"].sent = Go
        /\ rate[x] = "last" => /\ xfer[x] \in {"tail", "ended", "dead"}
                               /\ side[x]["server"].sent = Go

\* A client is counted after its last report, and a job is over when all are.
CountInv ==
    \A c \in Clients :
        /\ thread[c] = "connect" => mpc = "running" /\ ~counted[c]
        /\ counted[c] /\ job \in Jobs => rate[Conn(job, c)] = "last"
        /\ \A j \in Jobs : j < job \/ (j = job /\ mpc # "running") => rate[Conn(j, c)] = "last"

\* The checker is notified when every client is counted and some thread has left since,
\* which the last does at the latest.
AllJoined == Clients # {} /\ \A c \in Clients : thread[c] = "done"
CheckerInv == /\ checker # "waits" => Finished
              /\ AllJoined /\ Finished => checker # "waits"

JInv == HInv /\ JobTypes /\ XferInv /\ CountInv /\ CheckerInv

LEMMA ConnsAre ==
    /\ \A x \in Conns : x[1] \in Jobs /\ x[2] \in Clients /\ x = Conn(x[1], x[2])
    /\ \A j \in Jobs, c \in Clients :
          Conn(j, c) \in Conns /\ Conn(j, c)[1] = j /\ Conn(j, c)[2] = c
BY JobAssumption DEF Conn

\* A transfer starts only when the client is through the handshake.
LEMMA AgreedBefore ==
    ASSUME HInv, NEW x \in Conns, side[x]["client"].pc = "through"
    PROVE  side[x]["server"].sent = Go
<1>1. "client" \in Sides /\ "server" \in Sides /\ Other("client") = "server"
  BY DEF Sides, Other
<1>2. side[x]["client"].at = Go + 1 /\ side[x]["server"].sent \in 0 .. Go
  BY <1>1, RecordIs DEF InPlace, Exchange
<1>3. side[x]["server"].sent >= side[x]["client"].at - 1
  BY <1>1, BarrierFollows DEF Barrier
<1> QED
  BY <1>2, <1>3, RoundsAre

\* What the other side has sent for the last time stays sent.
LEMMA StaysSent ==
    ASSUME HInv, HInv', SentGrows, NEW x \in Conns, side[x]["server"].sent = Go
    PROVE  side'[x]["server"].sent = Go
<1>1. "server" \in Sides
  BY DEF Sides
<1>2. side'[x]["server"].sent \in 0 .. Go
  BY <1>1 DEF HInv, HTypes, Exchange
<1>3. side[x]["server"].sent <= side'[x]["server"].sent
  BY <1>1 DEF SentGrows
<1> QED
  BY <1>2, <1>3, RoundsAre

\* The invariant about transfers after a step, in one place.
LEMMA XferKept ==
    ASSUME JInv, HInv', SentGrows,
           \A x \in Conns :
              /\ xfer'[x] \in {"sending", "tail"} =>
                    xfer[x] \in {"sending", "tail"} \/ side[x]["client"].pc = "through"
              /\ rate'[x] = "last" =>
                    /\ xfer'[x] \in {"tail", "ended", "dead"}
                    /\ rate[x] = "last" \/ xfer[x] \in {"sending", "tail"}
    PROVE  XferInv'
<1> SUFFICES ASSUME NEW x \in Conns
             PROVE  /\ xfer'[x] \in {"sending", "tail"} => side'[x]["server"].sent = Go
                    /\ rate'[x] = "last" => /\ xfer'[x] \in {"tail", "ended", "dead"}
                                            /\ side'[x]["server"].sent = Go
  BY DEF XferInv
<1>1. HInv
  BY DEF JInv
<1>2. xfer[x] \in {"sending", "tail"} \/ rate[x] = "last" \/ side[x]["client"].pc = "through"
        => side[x]["server"].sent = Go
  BY <1>1, AgreedBefore DEF JInv, XferInv
<1>3. side[x]["server"].sent = Go => side'[x]["server"].sent = Go
  BY <1>1, StaysSent
<1> QED
  BY <1>2, <1>3

\* The invariant about counting after a step that is not the master's.
LEMMA CountKept ==
    ASSUME JInv, UNCHANGED <<job, mpc, thread, counted, checker>>,
           \A x \in Conns : rate[x] = "last" => rate'[x] = "last"
    PROVE  CountInv' /\ CheckerInv'
<1>1. CheckerInv'
  BY DEF JInv, CheckerInv, AllJoined, Finished
<1> SUFFICES ASSUME NEW c \in Clients
             PROVE  /\ thread'[c] = "connect" => mpc' = "running" /\ ~counted'[c]
                    /\ counted'[c] /\ job' \in Jobs => rate'[Conn(job', c)] = "last"
                    /\ \A j \in Jobs : j < job' \/ (j = job' /\ mpc' # "running")
                          => rate'[Conn(j, c)] = "last"
  BY <1>1 DEF CountInv, Conn
<1> QED
  BY ConnsAre DEF JInv, CountInv

LEMMA NobodyMeets ==
    ASSUME HInv, UNCHANGED meeting
    PROVE  HInv' /\ SentGrows
<1>1. side' = side /\ wire' = wire /\ split' = split
  BY DEF meeting
<1>2. HInv'
  BY <1>1 DEF HInv, HTypes, InPlace, Counts, Taken
<1>3. SentGrows
  <2> SUFFICES ASSUME NEW x \in Conns, NEW t \in Sides
               PROVE  side[x][t].sent <= side'[x][t].sent
    BY DEF SentGrows
  <2>1. side[x][t].sent \in Int
    BY DEF HInv, HTypes, Exchange
  <2> QED
    BY <1>1, <2>1
<1> QED
  BY <1>2, <1>3

\* Steps that leave the transfers alone.
LEMMA MasterStep ==
    ASSUME JInv, Master
    PROVE  JInv'
<1>1. HInv /\ JobTypes /\ XferInv /\ CountInv /\ CheckerInv
  BY DEF JInv
<1>2. UNCHANGED <<daemon, xfer, rate, failures, meeting>>
  BY DEF Master, TakeMessage, ScriptFails, SpuriousWakeUp, JobOver
<1>3. HInv' /\ SentGrows
  BY <1>1, <1>2, NobodyMeets
<1>4. JobTypes'
  <2>1. MaxJobs \in Nat
    BY JobAssumption
  <2>2. CASE TakeMessage
    <3>1. thread' \in [Clients -> {"none", "connect", "collect", "done"}]
      BY <2>2 DEF TakeMessage
    <3>2. counted' \in [Clients -> BOOLEAN]
      BY <2>2 DEF TakeMessage
    <3>3. job' \in 0 .. MaxJobs /\ mpc' = "running" /\ checker' = "waits"
      BY <1>1, <2>1, <2>2 DEF TakeMessage, JobTypes
    <3> QED
      BY <1>1, <1>2, <3>1, <3>2, <3>3 DEF JobTypes
  <2>3. CASE ScriptFails \/ SpuriousWakeUp \/ JobOver
    BY <1>1, <1>2, <2>3 DEF JobTypes, ScriptFails, SpuriousWakeUp, JobOver
  <2> QED
    BY <2>2, <2>3 DEF Master
<1>5. XferInv'
  BY <1>1, <1>2, <1>3, XferKept DEF JInv, XferInv
<1>6. CountInv'
  <2> SUFFICES ASSUME NEW c \in Clients
               PROVE  /\ thread'[c] = "connect" => mpc' = "running" /\ ~counted'[c]
                      /\ counted'[c] /\ job' \in Jobs => rate'[Conn(job', c)] = "last"
                      /\ \A j \in Jobs : j < job' \/ (j = job' /\ mpc' # "running")
                            => rate'[Conn(j, c)] = "last"
    BY DEF CountInv, Conn
  <2>1. /\ thread[c] = "connect" => mpc = "running" /\ ~counted[c]
        /\ counted[c] /\ job \in Jobs => rate[Conn(job, c)] = "last"
        /\ \A j \in Jobs : j < job \/ (j = job /\ mpc # "running") => rate[Conn(j, c)] = "last"
        /\ job \in Nat /\ rate' = rate
    BY <1>1, <1>2 DEF CountInv, JobTypes
  <2>2. CASE TakeMessage
    <3>1. job' = job + 1 /\ mpc # "running" /\ mpc' = "running" /\ ~counted'[c]
      BY <2>2 DEF TakeMessage
    <3>2. \A j \in Jobs : j < job' => j < job \/ j = job
      BY <2>1, <3>1 DEF Jobs
    <3> QED
      BY <2>1, <3>1, <3>2
  <2>3. CASE ScriptFails \/ SpuriousWakeUp
    BY <2>1, <2>3 DEF ScriptFails, SpuriousWakeUp
  <2>4. CASE JobOver
    <3>1. thread[c] = "done" /\ counted[c] /\ UNCHANGED <<job, thread, counted>> /\ mpc' = "idle"
      BY <1>1, <2>4 DEF JobOver, CheckerInv, Finished
    <3> QED
      BY <2>1, <3>1
  <2> QED
    BY <2>2, <2>3, <2>4 DEF Master
<1>7. CheckerInv'
  <2>1. CASE TakeMessage
    BY <2>1 DEF TakeMessage, CheckerInv, AllJoined
  <2>2. CASE ScriptFails \/ JobOver
    BY <1>1, <2>2 DEF ScriptFails, JobOver, CheckerInv, AllJoined, Finished
  <2>3. CASE SpuriousWakeUp
    BY <1>1, <2>3 DEF SpuriousWakeUp, CheckerInv, AllJoined, Finished
  <2> QED
    BY <2>1, <2>2, <2>3 DEF Master
<1> QED
  BY <1>3, <1>4, <1>5, <1>6, <1>7 DEF JInv

LEMMA ThreadStep ==
    ASSUME JInv, NEW c \in Clients, Thread(c)
    PROVE  JInv'
<1>1. HInv /\ JobTypes /\ XferInv /\ CountInv /\ CheckerInv
  BY DEF JInv
<1>2. UNCHANGED <<job, mpc, daemon, failures, meeting>>
  BY DEF Thread, SendCommand, ConnectFails, Count, CollectEnds
<1>3. HInv' /\ SentGrows
  BY <1>1, <1>2, NobodyMeets
<1>4. CASE SendCommand(c)
  <2> DEFINE x == Conn(job, c)
  <2>1. /\ thread[c] = "connect" /\ UNCHANGED <<counted, checker>>
        /\ thread' = [thread EXCEPT ![c] = "collect"]
        /\ xfer' = [xfer EXCEPT ![x] = "command"] /\ rate' = [rate EXCEPT ![x] = "open"]
    BY <1>4 DEF SendCommand
  <2>2. JobTypes'
    BY <1>1, <1>2, <2>1 DEF JobTypes, Active
  <2>3. \A y \in Conns : /\ xfer'[y] = (IF y = x THEN "command" ELSE xfer[y])
                         /\ rate'[y] = (IF y = x THEN "open" ELSE rate[y])
    BY <1>1, <2>1 DEF JobTypes
  <2>4. XferInv'
    BY <1>1, <1>3, <2>3, XferKept DEF JInv, XferInv
  <2>5. CountInv'
    <3> SUFFICES ASSUME NEW d \in Clients
                 PROVE  /\ thread'[d] = "connect" => mpc' = "running" /\ ~counted'[d]
                        /\ counted'[d] /\ job' \in Jobs => rate'[Conn(job', d)] = "last"
                        /\ \A j \in Jobs : j < job' \/ (j = job' /\ mpc' # "running")
                              => rate'[Conn(j, d)] = "last"
      BY DEF CountInv, Conn
    <3>1. /\ thread[d] = "connect" => mpc = "running" /\ ~counted[d]
          /\ counted[d] /\ job \in Jobs => rate[Conn(job, d)] = "last"
          /\ \A j \in Jobs : j < job \/ (j = job /\ mpc # "running") => rate[Conn(j, d)] = "last"
          /\ job \in Nat
      BY <1>1 DEF CountInv, JobTypes
    <3>2. mpc = "running" /\ ~counted[c]
      BY <1>1, <2>1 DEF CountInv
    <3>3. thread'[d] = "connect" => thread[d] = "connect"
      BY <1>1, <2>1 DEF JobTypes
    <3>4. \A j \in Jobs : (j # job \/ d # c) => rate'[Conn(j, d)] = rate[Conn(j, d)]
      BY <2>3, ConnsAre DEF Conn
    <3>5. \A j \in Jobs : j < job => j # job
      BY <3>1 DEF Jobs
    <3> HIDE DEF x
    <3>6. counted'[d] /\ job' \in Jobs => rate'[Conn(job', d)] = "last"
      BY <1>2, <2>1, <3>1, <3>2, <3>4
    <3>7. \A j \in Jobs : j < job' \/ (j = job' /\ mpc' # "running")
                              => rate'[Conn(j, d)] = "last"
      BY <1>2, <3>1, <3>2, <3>4, <3>5
    <3> QED
      BY <1>2, <2>1, <3>1, <3>3, <3>6, <3>7
  <2>6. CheckerInv'
    <3>1. thread'[c] # "done"
      BY <1>1, <2>1 DEF JobTypes
    <3> QED
      BY <1>1, <2>1, <3>1 DEF CheckerInv, AllJoined, Finished
  <2> QED
    BY <1>3, <2>2, <2>4, <2>5, <2>6 DEF JInv
<1>5. CASE ConnectFails(c) \/ CollectEnds(c)
  <2>1. /\ thread' = [thread EXCEPT ![c] = "done"] /\ UNCHANGED <<counted, xfer, rate>>
        /\ \/ thread[c] = "connect" /\ checker' = checker
           \/ NotifyChecker
    BY <1>5 DEF ConnectFails, CollectEnds
  <2>2. JobTypes'
    BY <1>1, <1>2, <2>1 DEF JobTypes, NotifyChecker
  <2>3. XferInv'
    BY <1>1, <1>3, <2>1, XferKept DEF JInv, XferInv
  <2>4. \A d \in Clients : thread'[d] = "connect" => thread[d] = "connect"
    BY <1>1, <2>1 DEF JobTypes
  <2>5. CountInv'
    BY <1>1, <1>2, <2>1, <2>4 DEF CountInv, Conn
  <2>6. CheckerInv'
    <3>1. CASE thread[c] = "connect" /\ checker' = checker
      <4>1. ~Finished /\ ~Finished'
        BY <1>1, <2>1, <3>1 DEF CountInv, Finished
      <4> QED
        BY <1>1, <3>1, <4>1 DEF CheckerInv
    <3>2. CASE NotifyChecker
      <4>1. Finished' <=> Finished
        BY <2>1 DEF Finished
      <4>2. Finished => checker' # "waits"
        BY <3>2 DEF NotifyChecker
      <4>3. ~Finished => checker' = checker
        BY <3>2 DEF NotifyChecker
      <4> QED
        BY <1>1, <4>1, <4>2, <4>3 DEF CheckerInv
    <3> QED
      BY <2>1, <3>1, <3>2
  <2> QED
    BY <1>3, <2>2, <2>3, <2>5, <2>6 DEF JInv
<1>6. CASE Count(c)
  <2>1. /\ thread[c] = "collect" /\ rate[Conn(job, c)] = "last"
        /\ counted' = [counted EXCEPT ![c] = TRUE] /\ UNCHANGED <<thread, checker, xfer, rate>>
    BY <1>6 DEF Count
  <2>2. JobTypes'
    <3>1. counted' \in [Clients -> BOOLEAN]
      BY <1>1, <2>1, Zenon DEF JobTypes
    <3> QED
      BY <1>1, <1>2, <2>1, <3>1 DEF JobTypes
  <2>3. XferInv'
    BY <1>1, <1>3, <2>1, XferKept DEF JInv, XferInv
  <2>4. \A d \in Clients : counted'[d] => counted[d] \/ d = c
    BY <1>1, <2>1 DEF JobTypes
  <2>5. CountInv'
    BY <1>1, <1>2, <2>1, <2>4 DEF CountInv, Conn
  <2>6. CheckerInv'
    <3>1. Finished => Finished'
      BY <1>1, <2>1 DEF Finished, JobTypes
    <3>2. ~AllJoined'
      BY <2>1 DEF AllJoined
    <3> QED
      BY <1>1, <2>1, <3>1, <3>2 DEF CheckerInv
  <2> QED
    BY <1>3, <2>2, <2>3, <2>5, <2>6 DEF JInv
<1> QED
  BY <1>4, <1>5, <1>6 DEF Thread

-----------------------------------------------------------------------------
(* A transfer and its daemon.                                              *)

\* A step of transfers: only their phases, connections and handshakes change.
LEMMA TransferStep ==
    ASSUME JInv, HInv', SentGrows, JobTypes',
           UNCHANGED <<job, mpc, thread, counted, checker>>,
           \A x \in Conns :
              /\ xfer'[x] \in {"sending", "tail"} =>
                    xfer[x] \in {"sending", "tail"} \/ side[x]["client"].pc = "through"
              /\ rate'[x] = "last" =>
                    /\ xfer'[x] \in {"tail", "ended", "dead"}
                    /\ rate[x] = "last" \/ xfer[x] \in {"sending", "tail"}
              /\ rate[x] = "last" => rate'[x] = "last"
    PROVE  JInv'
BY XferKept, CountKept DEF JInv

\* Something that goes wrong is noted with its job.
LEMMA WrongIsNoted ==
    ASSUME JobTypes, NEW x \in Conns, Wrong(x)
    PROVE  failures' \in Seq(Jobs)
BY ConnsAre DEF Wrong, JobTypes

LEMMA GoesStep ==
    ASSUME JInv, NEW x \in Conns, Goes(x) \/ End(x)
    PROVE  JInv'
<1>1. HInv /\ JobTypes /\ XferInv /\ CountInv
  BY DEF JInv
<1>2. UNCHANGED <<job, mpc, thread, counted, checker, daemon, failures>>
  BY DEF Goes, ReadCommand, Dial, Exchanges, Start, LastReport, End, jobVars
<1>3. ASSUME NEW to \in {"setup", "meet", "sending", "ended"},
             xfer' = [xfer EXCEPT ![x] = to], rate' = rate,
             xfer[x] \in {"command", "setup", "meet"} \/ to = "ended",
             to = "sending" => side[x]["client"].pc = "through",
             HInv', SentGrows
      PROVE  JInv'
  <2>1. JobTypes'
    BY <1>1, <1>2, <1>3 DEF JobTypes, Active
  <2>2. \A y \in Conns : xfer'[y] = IF y = x THEN to ELSE xfer[y]
    BY <1>1, <1>3 DEF JobTypes
  <2>3. \A y \in Conns : rate[y] = "last" => xfer[y] \in {"tail", "ended", "dead"}
    BY <1>1 DEF XferInv
  <2> QED
    BY <1>2, <1>3, <2>1, <2>2, <2>3, TransferStep
<1>4. CASE ReadCommand(x)
  <2>1. HInv' /\ SentGrows
    BY <1>1, <1>4, NobodyMeets DEF ReadCommand
  <2> QED
    BY <1>3, <1>4, <2>1 DEF ReadCommand
<1>5. CASE Dial(x)
  <2>1. HInv' /\ SentGrows
    BY <1>1, <1>5, OpenStep DEF Dial
  <2> QED
    BY <1>3, <1>5, <2>1 DEF Dial
<1>6. CASE Start(x)
  <2>1. HInv' /\ SentGrows
    BY <1>1, <1>6, NobodyMeets DEF Start
  <2> QED
    BY <1>3, <1>6, <2>1 DEF Start
<1>7. CASE End(x)
  <2>1. HInv' /\ SentGrows
    BY <1>1, <1>7, NobodyMeets DEF End
  <2> QED
    BY <1>3, <1>7, <2>1 DEF End
<1>8. CASE Exchanges(x)
  <2>1. UNCHANGED <<xfer, rate>> /\ (Meet(x, "client") \/ Meet(x, "server"))
    BY <1>8 DEF Exchanges, jobVars
  <2>2. HInv' /\ SentGrows
    BY <1>1, <2>1, SendOwnStep, ReadStep, AcceptStep DEF Meet, Sides
  <2>3. JobTypes'
    BY <1>1, <1>2, <2>1 DEF JobTypes
  <2>4. \A y \in Conns : rate[y] = "last" => xfer[y] \in {"tail", "ended", "dead"}
    BY <1>1 DEF XferInv
  <2> QED
    BY <1>2, <2>1, <2>2, <2>3, <2>4, TransferStep
<1>9. CASE LastReport(x)
  <2>1. /\ xfer[x] = "sending" /\ xfer' = [xfer EXCEPT ![x] = "tail"]
        /\ rate' = [rate EXCEPT ![x] = ClosedAs(@)] /\ UNCHANGED meeting
    BY <1>9 DEF LastReport
  <2>2. HInv' /\ SentGrows
    BY <1>1, <2>1, NobodyMeets
  <2>3. /\ JobTypes'
        /\ \A y \in Conns : /\ xfer'[y] = (IF y = x THEN "tail" ELSE xfer[y])
                            /\ rate'[y] = (IF y = x THEN ClosedAs(rate[y]) ELSE rate[y])
    BY <1>1, <1>2, <2>1 DEF JobTypes, Active, ClosedAs
  <2>4. \A y \in Conns : rate[y] = "last" => xfer[y] \in {"tail", "ended", "dead"}
    BY <1>1 DEF XferInv
  <2>5. \A y \in Conns : ClosedAs(rate[y]) = "last" <=> rate[y] \in {"open", "last"}
    BY DEF ClosedAs
  <2> QED
    BY <1>2, <2>1, <2>2, <2>3, <2>4, <2>5, TransferStep
<1> QED
  BY <1>4, <1>5, <1>6, <1>7, <1>8, <1>9 DEF Goes

\* The end of a process.
LEMMA ProcessStep ==
    ASSUME JInv, NEW c \in Clients, ProcessEnds(c),
           UNCHANGED <<job, mpc, thread, counted, checker>>, failures' \in Seq(Jobs)
    PROVE  JInv'
<1>1. HInv /\ JobTypes /\ XferInv
  BY DEF JInv
<1>2. HInv' /\ SentGrows
  BY <1>1, ProcessEndsStep
<1>3. daemon' = [daemon EXCEPT ![c] = "down"] /\ xfer' = Left(c, xfer) /\ rate' = Closed(c, rate)
  BY DEF ProcessEnds
<1>4. \A y \in Conns :
         /\ xfer'[y] = (IF y[2] = c /\ xfer[y] \in Active THEN "dead" ELSE xfer[y])
         /\ rate'[y] = (IF y[2] = c /\ rate[y] = "open" THEN "cut" ELSE rate[y])
  BY <1>3 DEF Left, Closed
<1>5. JobTypes'
  <2>1. xfer' \in [Conns -> Active \cup {"none", "ended", "failed", "dead"}]
    BY <1>1, <1>3 DEF Left, JobTypes
  <2>2. rate' \in [Conns -> {"none", "open", "cut", "last", "short"}]
    BY <1>1, <1>3 DEF Closed, JobTypes
  <2> QED
    BY <1>1, <1>3, <2>1, <2>2 DEF JobTypes
<1>6. \A y \in Conns : rate[y] = "last" => xfer[y] \in {"tail", "ended", "dead"}
  BY <1>1 DEF XferInv
<1> QED
  BY <1>2, <1>4, <1>5, <1>6, TransferStep

LEMMA FailsStep ==
    ASSUME JInv, NEW x \in Conns, Fails(x)
    PROVE  JInv'
<1>1. HInv /\ JobTypes /\ XferInv
  BY DEF JInv
<1>2. UNCHANGED <<job, mpc, thread, counted, checker>>
  BY DEF Fails, CutCommand, NoConnection, GivesUp, ShortReport, Abort, DropRate, Return
<1>3. \A y \in Conns : rate[y] = "last" => xfer[y] \in {"tail", "ended", "dead"}
  BY <1>1 DEF XferInv
<1>4. ASSUME NEW to \in {"setup", "failed", "tail", xfer[x]}, NEW r \in {"cut", "short", rate[x]},
             xfer' = [xfer EXCEPT ![x] = to], rate' = [rate EXCEPT ![x] = r],
             rate[x] # "last" \/ (to = xfer[x] /\ r = "last"),
             to = "tail" => xfer[x] \in {"sending", "tail"},
             daemon' = daemon, failures' \in Seq(Jobs), HInv', SentGrows
      PROVE  JInv'
  <2>1. /\ JobTypes'
        /\ \A y \in Conns : /\ xfer'[y] = (IF y = x THEN to ELSE xfer[y])
                            /\ rate'[y] = (IF y = x THEN r ELSE rate[y])
    BY <1>1, <1>2, <1>4 DEF JobTypes, Active
  <2> QED
    BY <1>2, <1>3, <1>4, <2>1, TransferStep
<1>5. CASE CutCommand(x)
  <2>1. failures' \in Seq(Jobs) /\ xfer[x] = "command" /\ rate[x] # "last"
    BY <1>1, <1>3, <1>5, WrongIsNoted DEF CutCommand
  <2>2. CASE ProcessEnds(x[2])
    BY <1>2, <2>1, <2>2, ProcessStep, ConnsAre
  <2>3. CASE ~ProcessEnds(x[2])
    <3>1. /\ xfer' = [xfer EXCEPT ![x] = "setup"] /\ rate' = [rate EXCEPT ![x] = "cut"]
          /\ UNCHANGED <<daemon, meeting>>
      BY <1>5, <2>3 DEF CutCommand
    <3> QED
      BY <1>1, <1>4, <2>1, <3>1, NobodyMeets
  <2> QED
    BY <2>2, <2>3
<1>6. CASE Abort(x)
  BY <1>1, <1>2, <1>6, WrongIsNoted, ProcessStep, ConnsAre DEF Abort
<1>7. CASE NoConnection(x)
  <2>1. /\ failures' \in Seq(Jobs) /\ xfer[x] = "setup" /\ rate[x] # "last"
        /\ xfer' = [xfer EXCEPT ![x] = "failed"] /\ UNCHANGED <<rate, daemon, meeting>>
    BY <1>1, <1>3, <1>7, WrongIsNoted DEF NoConnection, Return
  <2>2. rate' = [rate EXCEPT ![x] = rate[x]]
    BY <1>1, <2>1 DEF JobTypes
  <2> QED
    BY <1>1, <1>4, <2>1, <2>2, NobodyMeets
<1>8. CASE ShortReport(x) \/ DropRate(x)
  <2>1. failures' \in Seq(Jobs) /\ rate[x] = "open" /\ UNCHANGED <<daemon, meeting>>
    BY <1>1, <1>8, WrongIsNoted DEF ShortReport, DropRate
  <2>2. \/ /\ xfer[x] = "sending" /\ xfer' = [xfer EXCEPT ![x] = "tail"]
           /\ rate' = [rate EXCEPT ![x] = "short"]
        \/ xfer' = xfer /\ rate' = [rate EXCEPT ![x] = "cut"]
    BY <1>8 DEF ShortReport, DropRate
  <2>3. xfer' = xfer => xfer' = [xfer EXCEPT ![x] = xfer[x]]
    BY <1>1 DEF JobTypes
  <2>4. HInv' /\ SentGrows
    BY <1>1, <2>1, NobodyMeets
  <2>5. CASE xfer' = xfer /\ rate' = [rate EXCEPT ![x] = "cut"]
    <3>1. xfer' = [xfer EXCEPT ![x] = xfer[x]]
      BY <2>3, <2>5
    <3>2. xfer[x] = "tail" => xfer[x] \in {"sending", "tail"}
      OBVIOUS
    <3> QED
      BY <1>4, <2>1, <2>4, <2>5, <3>1, <3>2
  <2>6. CASE /\ xfer[x] = "sending" /\ xfer' = [xfer EXCEPT ![x] = "tail"]
             /\ rate' = [rate EXCEPT ![x] = "short"]
    BY <1>4, <2>1, <2>4, <2>6
  <2> QED
    BY <2>2, <2>5, <2>6
<1>9. CASE GivesUp(x)
  <2>1. PICK s \in Sides :
           /\ HandshakeFails(x, s)
           /\ IF Gone(x, Other(s)) THEN UNCHANGED failures ELSE Wrong(x)
           /\ IF s = "client" THEN xfer[x] = "meet" /\ Return(x)
              ELSE UNCHANGED <<job, mpc, thread, counted, checker, daemon, xfer, rate>>
    BY <1>9 DEF GivesUp
  <2>2. HInv' /\ SentGrows
    BY <1>1, <2>1, FailStep DEF HandshakeFails, Reject, SetUpFails, PeerGone
  <2>3. failures' \in Seq(Jobs)
    BY <1>1, <2>1, WrongIsNoted DEF JobTypes
  <2>4. rate' = [rate EXCEPT ![x] = rate[x]] /\ daemon' = daemon
    BY <1>1, <2>1 DEF Return, JobTypes
  <2>5. CASE s = "client"
    <3>1. xfer[x] = "meet" /\ xfer' = [xfer EXCEPT ![x] = "failed"] /\ rate[x] # "last"
      BY <1>3, <2>1, <2>5 DEF Return
    <3> QED
      BY <1>4, <2>2, <2>3, <2>4, <3>1
  <2>6. CASE s # "client"
    <3>1. xfer' = [xfer EXCEPT ![x] = xfer[x]] /\ (xfer[x] = "tail" => xfer[x] \in {"sending", "tail"})
      BY <1>1, <2>1, <2>6 DEF JobTypes
    <3> QED
      BY <1>4, <2>2, <2>3, <2>4, <3>1
  <2> QED
    BY <2>5, <2>6
<1> QED
  BY <1>5, <1>6, <1>7, <1>8, <1>9 DEF Fails

-----------------------------------------------------------------------------
(* What a side takes.                                                      *)

\* The bytes under way are the last of those the other has sent, in their order.
Stream(o, w) ==
    \A i \in 1 .. Len(w), m \in Rounds : \A k \in 1 .. Sizes[m] :
        Before(m) + k + Len(w) = Before(o.sent + 1) + i => w[i] = <<m, k>>

\* A side whose reads have all been whole: the next byte to come is the first of the
\* message it is at, or it has just taken that message.
InStep(r, o, w) ==
    /\ r.exact
    /\ r.pc \in {"idle", "send", "read", "through"} => Len(w) + Before(r.at) = Before(o.sent + 1)
    /\ r.pc = "read" => r.got = 0
    /\ r.pc = "check" => Len(w) + Before(r.at + 1) = Before(o.sent + 1) /\ IsExact(r)

\* The go-ahead is a single character.
GoAhead(r) == Sizes[Go] = 1 /\ r.at = Go /\ r.pc = "check" => IsExact(r)

Takes(r, o, w, cut) == Stream(o, w) /\ (~cut => InStep(r, o, w)) /\ GoAhead(r)

EInv == \A x \in Conns, s \in Sides :
            Takes(side[x][s], side[x][Other(s)], wire[x][s], split[x])

\* No two bytes of the four messages have the same place.
LEMMA PlacesDiffer ==
    ASSUME NEW m \in Rounds, NEW n \in Rounds, NEW j \in 1 .. Sizes[m], NEW k \in 1 .. Sizes[n],
           Before(m) + j = Before(n) + k
    PROVE  m = n /\ j = k
<1>1. Sizes[1] \in Nat \ {0} /\ Sizes[2] \in Nat \ {0} /\ Sizes[3] \in Nat \ {0} /\ Sizes[4] \in Nat \ {0}
  BY SizesAre, RoundsAre
<1>2. /\ Before(1) = 0 /\ Before(2) = Sizes[1] /\ Before(3) = Sizes[1] + Sizes[2]
      /\ Before(4) = Sizes[1] + Sizes[2] + Sizes[3]
  BY <1>1 DEF Before
<1>3. m \in {1, 2, 3, 4} /\ n \in {1, 2, 3, 4}
  BY RoundsAre
<1>4. /\ j \in Nat /\ 1 <= j /\ j <= Sizes[m]
      /\ k \in Nat /\ 1 <= k /\ k <= Sizes[n]
  BY SizesAre
<1>5. CASE m = 1
  BY <1>1, <1>2, <1>3, <1>4, <1>5
<1>6. CASE m = 2
  BY <1>1, <1>2, <1>3, <1>4, <1>6
<1>7. CASE m = 3
  BY <1>1, <1>2, <1>3, <1>4, <1>7
<1>8. CASE m = 4
  BY <1>1, <1>2, <1>3, <1>4, <1>8
<1> QED
  BY <1>3, <1>5, <1>6, <1>7, <1>8

\* A step of one side of one connection.
LEMMA OneSideTakes ==
    ASSUME EInv, NEW c \in Conns, NEW s \in Sides,
           \A x \in Conns, t \in Sides : (x # c \/ t # s) => side'[x][t] = side[x][t],
           \A x \in Conns : x # c => wire'[x] = wire[x] /\ split'[x] = split[x],
           Takes(side'[c][s], side[c][Other(s)], wire'[c][s], split'[c]),
           Takes(side[c][Other(s)], side'[c][s], wire'[c][Other(s)], split'[c])
    PROVE  EInv'
<1> SUFFICES ASSUME NEW x \in Conns, NEW t \in Sides
             PROVE  Takes(side'[x][t], side'[x][Other(t)], wire'[x][t], split'[x])
  BY DEF EInv, Takes, Stream, InStep, GoAhead, IsExact, MessageBytes, Before
<1>1. CASE x # c
  BY <1>1, Opposite DEF EInv
<1>2. CASE x = c /\ t = s
  BY <1>2, Opposite
<1>3. CASE x = c /\ t = Other(s)
  BY <1>3, Opposite
<1> QED
  BY <1>1, <1>2, <1>3, Opposite

\* What a record says of its side, and of the numbers in it.
LEMMA NumbersAre ==
    ASSUME HInv, NEW c \in Conns, NEW s \in Sides
    PROVE  /\ side[c][s].at \in 1 .. Go + 1 /\ side[c][s].got \in Nat
           /\ side[c][s].sent \in 0 .. Go /\ side[c][s].sent + 1 \in 1 .. Go + 1
           /\ Len(wire[c][s]) \in Nat
           /\ Before(side[c][s].at) \in Nat /\ Before(side[c][s].sent + 1) \in Nat
<1>1. /\ side[c][s].at \in 1 .. Go + 1 /\ side[c][s].got \in Nat
      /\ side[c][s].sent \in 0 .. Go /\ wire[c][s] \in Seq(Bytes)
  BY RecordIs DEF Exchange
<1>2. side[c][s].sent + 1 \in 1 .. Go + 1
  BY <1>1, RoundsAre
<1> QED
  BY <1>1, <1>2, BeforeGrows

\* A message is put behind the bytes under way.
LEMMA StreamGrows ==
    ASSUME NEW w \in Seq(Bytes), NEW m \in Rounds, NEW o, NEW q,
           o.sent = m - 1, q.sent = m, Stream(o, w)
    PROVE  Stream(q, w \o MessageBytes(m))
<1> DEFINE v == w \o MessageBytes(m)
<1>1. m \in Nat /\ Sizes[m] \in Nat /\ Len(w) \in Nat /\ Before(m) \in Nat
      /\ Before(m + 1) = Before(m) + Sizes[m] /\ o.sent + 1 = m
  <2>1. m \in Nat /\ m \in 1 .. Go + 1
    BY RoundsAre
  <2> QED
    BY <2>1, SizesAre, BeforeGrows
<1>2. Len(MessageBytes(m)) = Sizes[m] /\ MessageBytes(m) \in Seq(Bytes)
  BY MessageIs
<1>3. /\ Len(v) = Len(w) + Sizes[m]
      /\ \A i \in 1 .. Len(v) :
            v[i] = IF i <= Len(w) THEN w[i] ELSE MessageBytes(m)[i - Len(w)]
  BY <1>2, ConcatProperties
<1> HIDE DEF v
<1> SUFFICES ASSUME NEW i \in 1 .. Len(v), NEW n \in Rounds, NEW k \in 1 .. Sizes[n],
                    Before(n) + k + Len(v) = Before(m + 1) + i
             PROVE  v[i] = <<n, k>>
  BY DEF Stream, v
<1>4. i \in Nat /\ 1 <= i /\ i <= Len(w) + Sizes[m] /\ k \in Nat /\ Before(n) \in Nat
  <2>1. Sizes[n] \in Nat /\ n \in 1 .. Go + 1
    BY SizesAre, RoundsAre
  <2> QED
    BY <1>1, <1>3, <2>1, BeforeGrows
<1> DEFINE b == Before(n)
           u == Before(m)
           l == Len(w)
           z == Sizes[m]
<1>5. b \in Nat /\ u \in Nat /\ l \in Nat /\ z \in Nat /\ b + k + l = u + i
  <2>1. b \in Nat /\ u \in Nat /\ l \in Nat /\ z \in Nat
    BY <1>1, <1>4
  <2>2. b + k + (l + z) = (u + z) + i
    BY <1>1, <1>3
  <2>3. k \in Nat /\ i \in Nat
    BY <1>4
  <2> HIDE DEF b, u, l, z
  <2> QED
    BY <2>1, <2>2, <2>3
<1>6. CASE i <= Len(w)
  <2>1. i \in 1 .. Len(w)
    BY <1>1, <1>4, <1>6
  <2>2. w[i] = <<n, k>>
    BY <1>1, <1>5, <2>1 DEF Stream
  <2> QED
    BY <1>3, <1>6, <2>2
<1>7. CASE ~(i <= Len(w))
  <2>1. i - Len(w) \in 1 .. Sizes[m] /\ Before(n) + k = Before(m) + (i - Len(w))
    <3>1. i \in Nat /\ k \in Nat /\ ~(i <= l) /\ i <= l + z
      BY <1>4, <1>7
    <3> HIDE DEF b, u, l, z
    <3>2. i - l \in 1 .. z /\ b + k = u + (i - l)
      BY <1>5, <3>1
    <3> QED
      BY <3>2 DEF b, u, l, z
  <2>2. n = m /\ k = i - Len(w)
    BY <2>1, PlacesDiffer
  <2>3. v[i] = MessageBytes(m)[i - Len(w)]
    BY <1>3, <1>7
  <2> QED
    BY <2>1, <2>2, <2>3 DEF MessageBytes
<1> QED
  BY <1>6, <1>7

\* A read takes bytes from the front.
LEMMA StreamShrinks ==
    ASSUME NEW w \in Seq(Bytes), NEW k \in Nat, k <= Len(w), NEW o,
           Before(o.sent + 1) \in Nat, Stream(o, w)
    PROVE  /\ Stream(o, SubSeq(w, k + 1, Len(w)))
           /\ Len(SubSeq(w, k + 1, Len(w))) = Len(w) - k
<1> DEFINE v == SubSeq(w, k + 1, Len(w))
<1>1. Len(w) \in Nat
  OBVIOUS
<1>2. Len(v) = Len(w) - k /\ \A i \in 1 .. Len(v) : v[i] = w[i + k]
  <2>1. \A i \in k + 1 .. Len(w) : w[i] \in Bytes
    BY <1>1, ElementOfSeq
  <2>2. /\ Len(v) = IF k + 1 <= Len(w) THEN Len(w) - (k + 1) + 1 ELSE 0
        /\ \A i \in 1 .. Len(w) - (k + 1) + 1 : v[i] = w[k + 1 + i - 1]
    BY <1>1, <2>1, SubSeqProperties
  <2>3. Len(v) = Len(w) - k
    BY <1>1, <2>2
  <2> HIDE DEF v
  <2>4. \A i \in 1 .. Len(v) : i \in 1 .. Len(w) - (k + 1) + 1 /\ k + 1 + i - 1 = i + k
    BY <1>1, <2>3
  <2> QED
    BY <2>2, <2>3, <2>4
<1> HIDE DEF v
<1>3. ASSUME NEW i \in 1 .. Len(v), NEW n \in Rounds, NEW j \in 1 .. Sizes[n],
             Before(n) + j + Len(v) = Before(o.sent + 1) + i
      PROVE  v[i] = <<n, j>>
  <2>1. Sizes[n] \in Nat /\ Before(n) \in Nat
    <3>1. n \in 1 .. Go + 1
      BY RoundsAre
    <3> QED
      BY <3>1, SizesAre, BeforeGrows
  <2>2. i + k \in 1 .. Len(w) /\ Before(n) + j + Len(w) = Before(o.sent + 1) + (i + k)
    <3>1. \A b, x, l, z, u, y \in Nat :
             z <= l /\ 1 <= y /\ y <= l - z /\ b + x + (l - z) = u + y
                => y + z \in 1 .. l /\ b + x + l = u + (y + z)
      OBVIOUS
    <3>2. i \in Nat /\ 1 <= i /\ i <= Len(w) - k /\ j \in Nat
      BY <1>1, <1>2, <2>1
    <3>3. Before(n) + j + (Len(w) - k) = Before(o.sent + 1) + i
      BY <1>2, <1>3
    <3> QED
      BY <1>1, <2>1, <3>1, <3>2, <3>3
  <2>3. w[i + k] = <<n, j>>
    BY <2>2 DEF Stream
  <2> QED
    BY <1>2, <2>3
<1>4. Stream(o, v)
  BY <1>3 DEF Stream
<1> QED
  BY <1>2, <1>4 DEF v

\* What Takes asks of a side depends on the other only through what it has sent.
LEMMA OtherTakes ==
    ASSUME NEW r, NEW o, NEW q, NEW w, NEW cut, NEW more,
           Takes(r, o, w, cut), q.sent = o.sent, ~more => ~cut
    PROVE  Takes(r, q, w, more)
BY DEF Takes, Stream, InStep

LEMMA OpenTakes ==
    ASSUME HInv, EInv, NEW c \in Conns, Open(c)
    PROVE  EInv'
<1>1. /\ wire' = wire /\ split' = split
      /\ \A s \in Sides : side[c][s].pc = "idle"
      /\ side' = [side EXCEPT ![c] = [s \in Sides |-> [side[c][s] EXCEPT !.pc = "send"]]]
  BY DEF Open
<1>2. \A x \in Conns, t \in Sides :
         side'[x][t] = IF x = c THEN [side[c][t] EXCEPT !.pc = "send"] ELSE side[x][t]
  BY <1>1 DEF HInv, HTypes
<1>3. ASSUME NEW t \in Sides
      PROVE  /\ side'[c][t].at = side[c][t].at /\ side'[c][t].sent = side[c][t].sent
             /\ side'[c][t].exact = side[c][t].exact /\ side'[c][t].pc = "send"
  <2>1. side[c][t] \in Exchange
    BY RecordIs
  <2> QED
    BY <1>2, <2>1 DEF Exchange
<1> SUFFICES ASSUME NEW x \in Conns, NEW t \in Sides
             PROVE  Takes(side'[x][t], side'[x][Other(t)], wire'[x][t], split'[x])
  BY DEF EInv, Takes, Stream, InStep, GoAhead, IsExact, MessageBytes, Before
<1>4. Takes(side[x][t], side[x][Other(t)], wire[x][t], split[x])
  BY DEF EInv
<1>5. CASE x # c
  BY <1>1, <1>2, <1>4, <1>5, Opposite
<1>6. CASE x = c
  <2>1. Takes(side'[c][t], side[c][Other(t)], wire[c][t], split[c])
    BY <1>1, <1>3, <1>4, <1>6 DEF Takes, InStep, GoAhead
  <2>2. side'[c][Other(t)].sent = side[c][Other(t)].sent
    BY <1>3, Opposite
  <2>3. Takes(side'[c][t], side'[c][Other(t)], wire[c][t], split[c])
    BY <2>1, <2>2, OtherTakes
  <2> QED
    BY <1>1, <1>6, <2>3
<1> QED
  BY <1>5, <1>6

LEMMA SendOwnTakes ==
    ASSUME HInv, EInv, NEW c \in Conns, NEW s \in Sides, SendOwn(c, s)
    PROVE  EInv'
<1> DEFINE r == side[c][s]
           m == r.at
           o == side[c][Other(s)]
           q == [r EXCEPT !.pc = "read", !.got = 0, !.data = Blank(m),
                          !.sent = IF @ < m THEN m ELSE @]
           v == wire[c][Other(s)]
<1>1. /\ r \in Exchange /\ InPlace(r) /\ r.pc = "send" /\ o \in Exchange
      /\ v \in Seq(Bytes) /\ wire[c] \in [Sides -> Seq(Bytes)] /\ Other(s) \in Sides /\ Other(s) # s /\ Other(Other(s)) = s
  BY RecordIs, Opposite DEF SendOwn
<1>2. m \in Rounds /\ r.sent = m - 1 /\ m \in Nat
  <2>1. m \in 1 .. Go + 1 /\ m <= Go /\ r.sent = m - 1
    BY <1>1 DEF InPlace, Exchange
  <2> QED
    BY <2>1, RoundsAre DEF Rounds, Ready
<1>3. q.pc = "read" /\ q.got = 0 /\ q.at = m /\ q.sent = m /\ q.exact = r.exact
  <2>1. (IF r.sent < m THEN m ELSE r.sent) = m
    BY <1>2
  <2> QED
    BY <1>1, <2>1 DEF Exchange
<1>4. /\ wire' = [wire EXCEPT ![c][Other(s)] = @ \o MessageBytes(m)]
      /\ side' = [side EXCEPT ![c][s] = q]
      /\ split' = split
  BY <1>1 DEF SendOwn, HInv, HTypes, Exchange
<1> HIDE DEF q
<1>5. /\ \A x \in Conns, t \in Sides : (x # c \/ t # s) => side'[x][t] = side[x][t]
      /\ \A x \in Conns : x # c => wire'[x] = wire[x] /\ split'[x] = split[x]
      /\ side'[c][s] = q /\ split'[c] = split[c]
      /\ wire'[c][s] = wire[c][s] /\ wire'[c][Other(s)] = v \o MessageBytes(m)
  BY <1>1, <1>4 DEF HInv, HTypes
<1>6. Takes(r, o, wire[c][s], split[c]) /\ Takes(o, r, v, split[c])
  BY <1>1 DEF EInv
<1>7. Takes(q, o, wire[c][s], split[c])
  BY <1>1, <1>3, <1>6 DEF Takes, InStep, GoAhead
<1>8. Takes(o, q, v \o MessageBytes(m), split[c])
  <2>1. Stream(q, v \o MessageBytes(m))
    BY <1>1, <1>2, <1>3, <1>6, StreamGrows DEF Takes
  <2>2. Before(q.sent + 1) = Before(r.sent + 1) + Sizes[m]
    <3>1. Before(m + 1) = Before(m) + Sizes[m] /\ r.sent + 1 = m
      BY <1>2, BeforeGrows
    <3> QED
      BY <1>3, <3>1
  <2>3. Len(v \o MessageBytes(m)) = Len(v) + Sizes[m]
    <3>1. v \in Seq(Bytes)
      BY <1>1
    <3>2. MessageBytes(m) \in Seq(Bytes) /\ Len(MessageBytes(m)) = Sizes[m]
      BY <1>2, MessageIs
    <3>3. Len(v \o MessageBytes(m)) = Len(v) + Len(MessageBytes(m))
      BY ONLY <3>1, <3>2, ConcatProperties
    <3> QED
      BY <3>2, <3>3
  <2>4. /\ Len(v) \in Nat /\ Sizes[m] \in Nat /\ Before(r.sent + 1) \in Nat
        /\ Before(o.at) \in Nat
    BY <1>1, <1>2, NumbersAre, SizesAre
  <2>5. \A n : Before(n) \in Nat /\ Len(v) + Before(n) = Before(r.sent + 1)
                  => Len(v \o MessageBytes(m)) + Before(n) = Before(q.sent + 1)
    <3> SUFFICES ASSUME NEW n, Before(n) \in Nat, Len(v) + Before(n) = Before(r.sent + 1)
                 PROVE  Len(v) + Sizes[m] + Before(n) = Before(r.sent + 1) + Sizes[m]
      BY <2>2, <2>3
    <3> DEFINE b == Before(n)
               l == Len(v)
               z == Sizes[m]
               u == Before(r.sent + 1)
    <3>1. b \in Nat /\ l \in Nat /\ z \in Nat /\ u \in Nat /\ l + b = u
      BY <2>4
    <3> HIDE DEF b, l, z, u
    <3>2. l + z + b = u + z
      BY <3>1
    <3> QED
      BY <3>2 DEF b, l, z, u
  <2>6. ~split[c] => InStep(o, q, v \o MessageBytes(m))
    <3> SUFFICES ASSUME InStep(o, r, v)
                 PROVE  InStep(o, q, v \o MessageBytes(m))
      BY <1>6 DEF Takes
    <3>1. o.pc = "check" => Before(o.at + 1) \in Nat
      <4> SUFFICES ASSUME o.pc = "check"
                   PROVE  Before(o.at + 1) \in Nat
        OBVIOUS
      <4>1. o.at \in 1 .. Go + 1 /\ o.at <= Go
        BY <1>1, RecordIs DEF InPlace, Exchange
      <4>2. o.at + 1 \in 1 .. Go + 1
        BY <4>1, RoundsAre
      <4> QED
        BY <4>2, BeforeGrows
    <3> QED
      BY <2>4, <2>5, <3>1 DEF InStep
  <2> QED
    BY <1>6, <2>1, <2>6 DEF Takes
<1> QED
  BY <1>5, <1>7, <1>8, OneSideTakes

\* A whole read takes the message the side is at; what it reads at the go-ahead can
\* only be the last byte there is.
LEMMA ReadTakes ==
    ASSUME HInv, EInv, NEW c \in Conns, NEW s \in Sides, Read(c, s)
    PROVE  EInv'
<1> DEFINE r == side[c][s]
           w == wire[c][s]
           o == side[c][Other(s)]
<1>1. /\ r \in Exchange /\ InPlace(r) /\ r.pc = "read" /\ o \in Exchange
      /\ Counts(r, o, w) /\ w \in Seq(Bytes) /\ wire[c] \in [Sides -> Seq(Bytes)]
      /\ Other(s) \in Sides /\ Other(s) # s /\ Other(Other(s)) = s
  BY RecordIs, Opposite DEF Read
<1>2. PICK k \in 1 .. Asked(r) :
         /\ k <= Len(w)
         /\ wire' = [wire EXCEPT ![c][s] = SubSeq(@, k + 1, Len(@))]
         /\ side' = [side EXCEPT
               ![c][s].data = [i \in DOMAIN @ |-> IF i <= k THEN w[i] ELSE @[i]],
               ![c][s].got = @ + k,
               ![c][s].pc = IF Enough(r.got + k, r) THEN "check" ELSE "read"]
         /\ split' = [split EXCEPT ![c] = @ \/ k < Sizes[r.at]]
  BY DEF Read
<1> DEFINE data == [i \in DOMAIN r.data |-> IF i <= k THEN w[i] ELSE r.data[i]]
           q == [r EXCEPT !.data = data, !.got = @ + k,
                          !.pc = IF Enough(r.got + k, r) THEN "check" ELSE "read"]
           v == SubSeq(w, k + 1, Len(w))
<1>3. /\ r.at \in Rounds /\ r.at \in Nat /\ r.at <= Go /\ Sizes[r.at] \in Nat \ {0}
      /\ DOMAIN r.data = 1 .. Sizes[r.at] /\ r.got \in Nat
      /\ k \in Nat /\ 1 <= k /\ k <= Sizes[r.at] /\ k <= Len(w)
  <2>1. r.at \in 1 .. Go + 1 /\ r.at <= Go
    BY <1>1 DEF InPlace, Exchange
  <2>2. r.at \in Rounds
    BY <2>1, RoundsAre DEF Rounds, Ready
  <2>3. Len(r.data) = Sizes[r.at] /\ r.data \in Seq((0 .. Go) \X Nat) /\ r.got \in Nat
    BY <1>1 DEF InPlace, Exchange
  <2>4. Sizes[r.at] \in Nat \ {0} /\ r.at \in Nat
    BY <2>1, <2>2, SizesAre
  <2>5. DOMAIN r.data = 1 .. Sizes[r.at]
    BY <2>3
  <2>6. k \in 1 .. Sizes[r.at] /\ k <= Len(w)
    BY <1>2 DEF Asked
  <2>7. k \in Nat /\ 1 <= k /\ k <= Sizes[r.at]
    BY <2>4, <2>6
  <2> QED
    BY <2>1, <2>2, <2>3, <2>4, <2>5, <2>6, <2>7
<1>4. /\ q.at = r.at /\ q.sent = r.sent /\ q.exact = r.exact /\ q.data = data
      /\ q.got = r.got + k
      /\ q.pc = (IF r.got + k >= Sizes[r.at] THEN "check" ELSE "read")
  BY <1>1 DEF Exchange, Enough
<1>5. side' = [side EXCEPT ![c][s] = q]
  BY <1>1, <1>2 DEF HInv, HTypes, Exchange, data
<1>6. \A i \in 1 .. Sizes[r.at] : i <= k => data[i] = w[i]
  BY <1>3
<1>7. DOMAIN data = 1 .. Sizes[r.at] /\ data = [i \in 1 .. Sizes[r.at] |-> data[i]]
  BY <1>3
<1> HIDE DEF q, data
<1>8. /\ \A x \in Conns, t \in Sides : (x # c \/ t # s) => side'[x][t] = side[x][t]
      /\ side'[c][s] = q
      /\ wire'[c][s] = v /\ wire'[c][Other(s)] = wire[c][Other(s)]
      /\ \A x \in Conns : x # c => wire'[x] = wire[x] /\ split'[x] = split[x]
  <2>1. side' = [side EXCEPT ![c][s] = q] /\ side \in [Conns -> [Sides -> Exchange]]
    BY <1>5 DEF HInv, HTypes
  <2>2. /\ wire' = [wire EXCEPT ![c][s] = SubSeq(@, k + 1, Len(@))]
        /\ wire \in [Conns -> [Sides -> Seq(Bytes)]]
    BY <1>2 DEF HInv, HTypes
  <2>3. split' = [split EXCEPT ![c] = @ \/ k < Sizes[r.at]] /\ split \in [Conns -> BOOLEAN]
    BY <1>2 DEF HInv, HTypes
  <2>4. \A x \in Conns : x # c => split'[x] = split[x]
    BY <2>3, Zenon
  <2> QED
    BY <1>1, <2>1, <2>2, <2>4
<1>9. ~split'[c] => ~split[c] /\ k = Sizes[r.at]
  <2>1. split' = [split EXCEPT ![c] = @ \/ k < Sizes[r.at]] /\ split \in [Conns -> BOOLEAN]
    BY <1>2 DEF HInv, HTypes
  <2>2. split'[c] = (split[c] \/ k < Sizes[r.at])
    BY <2>1, Zenon
  <2>3. ~split'[c] => ~split[c] /\ ~(k < Sizes[r.at])
    BY <2>2, Zenon
  <2>4. ~(k < Sizes[r.at]) => k = Sizes[r.at]
    BY <1>3
  <2> QED
    BY <2>3, <2>4
<1>10. Takes(r, o, w, split[c]) /\ Takes(o, r, wire[c][Other(s)], split[c])
  BY <1>1 DEF EInv
<1>11. /\ Len(w) \in Nat /\ Before(r.at) \in Nat /\ Before(o.sent + 1) \in Nat
       /\ o.sent + 1 \in 1 .. Go + 1 /\ Before(r.at + 1) = Before(r.at) + Sizes[r.at]
  BY <1>1, <1>3, NumbersAre, BeforeGrows
<1>12. Stream(o, v) /\ Len(v) = Len(w) - k
  BY <1>1, <1>3, <1>10, <1>11, StreamShrinks DEF Takes
<1> HIDE DEF v
\* If the next byte is the first of the message, the bytes read are the message.
<1>13. ASSUME k = Sizes[r.at], Len(w) + Before(r.at) = Before(o.sent + 1)
       PROVE  IsExact(q)
  <2>1. \A i \in 1 .. Sizes[r.at] : data[i] = <<r.at, i>>
    <3> SUFFICES ASSUME NEW i \in 1 .. Sizes[r.at]
                 PROVE  data[i] = <<r.at, i>>
      OBVIOUS
    <3>1. i \in Nat /\ 1 <= i /\ i <= k /\ i \in 1 .. Len(w)
      BY <1>3, <1>11, <1>13
    <3>2. Before(r.at) + i + Len(w) = Before(o.sent + 1) + i
      <4> DEFINE b == Before(r.at)
                 l == Len(w)
                 u == Before(o.sent + 1)
      <4>1. b \in Nat /\ l \in Nat /\ u \in Nat /\ l + b = u
        BY <1>11, <1>13
      <4> HIDE DEF b, l, u
      <4>2. b + i + l = u + i
        BY <3>1, <4>1
      <4> QED
        BY <4>2 DEF b, l, u
    <3>3. w[i] = <<r.at, i>>
      BY <1>3, <1>10, <3>1, <3>2 DEF Takes, Stream
    <3> QED
      BY <1>6, <3>1, <3>3
  <2>2. data = MessageBytes(r.at)
    BY <1>7, <2>1 DEF MessageBytes
  <2> QED
    BY <1>4, <2>2 DEF IsExact
<1>14. ASSUME ~split'[c]
       PROVE  InStep(q, o, v)
  <2>1. InStep(r, o, w) /\ k = Sizes[r.at]
    BY <1>9, <1>10, <1>14 DEF Takes
  <2>2. r.exact /\ r.got = 0 /\ Len(w) + Before(r.at) = Before(o.sent + 1)
    BY <1>1, <2>1 DEF InStep
  <2>3. q.pc = "check"
    BY <1>3, <1>4, <2>1, <2>2
  <2>4. Len(v) + Before(q.at + 1) = Before(o.sent + 1)
    <3>1. Before(q.at + 1) = Before(r.at) + k
      BY <1>4, <1>11, <2>1
    <3> DEFINE b == Before(r.at)
               l == Len(w)
               u == Before(o.sent + 1)
    <3>2. b \in Nat /\ l \in Nat /\ u \in Nat /\ l + b = u
      BY <1>11, <2>2
    <3> HIDE DEF b, l, u
    <3>3. (l - k) + (b + k) = u
      BY <1>3, <3>2
    <3> QED
      BY <1>12, <3>1, <3>3 DEF b, l, u
  <2>5. IsExact(q)
    BY <1>13, <2>1, <2>2
  <2> QED
    BY <1>4, <2>2, <2>3, <2>4, <2>5 DEF InStep
<1>15. ASSUME Sizes[Go] = 1, q.at = Go, q.pc = "check"
       PROVE  IsExact(q)
  <2>1. r.at = Go /\ Sizes[r.at] = 1 /\ k = 1
    BY <1>3, <1>4, <1>15
  <2>2. Len(w) + Before(Go) + r.got <= Before(o.sent + 1)
    BY <1>1, <2>1 DEF Counts, Taken
  <2>3. o.sent + 1 = Go + 1
    <3> DEFINE b == Before(Go)
               l == Len(w)
               u == Before(o.sent + 1)
    <3>1. b \in Nat /\ l \in Nat /\ u \in Nat /\ 1 <= l /\ l + b + r.got <= u
      BY <1>3, <1>11, <2>1, <2>2
    <3> HIDE DEF b, l, u
    <3>2. b + 1 <= u
      BY <1>3, <3>1
    <3>3. Before(Go + 1) <= Before(o.sent + 1)
      BY <1>11, <2>1, <3>2 DEF b, u
    <3>4. Go + 1 \in 1 .. Go + 1
      BY RoundsAre
    <3>5. Go + 1 <= o.sent + 1
      BY <1>11, <3>3, <3>4, BeforeGrows
    <3> QED
      BY <1>11, <3>5, RoundsAre
  <2>4. Len(w) + Before(Go) = Before(o.sent + 1)
    <3> DEFINE b == Before(Go)
               l == Len(w)
               u == Before(o.sent + 1)
    <3>1. b \in Nat /\ l \in Nat /\ 1 <= l /\ l + b + r.got <= u /\ u = b + 1
      BY <1>3, <1>11, <2>1, <2>2, <2>3
    <3> HIDE DEF b, l, u
    <3>2. l + b = u
      BY <1>3, <3>1
    <3> QED
      BY <3>2 DEF b, l, u
  <2> QED
    BY <1>13, <2>1, <2>4
<1>16. Takes(q, o, v, split'[c])
  BY <1>12, <1>14, <1>15 DEF Takes, GoAhead
<1>17. Takes(o, q, wire[c][Other(s)], split'[c])
  BY <1>4, <1>9, <1>10, OtherTakes
<1> QED
  BY <1>8, <1>16, <1>17, OneSideTakes

LEMMA AcceptTakes ==
    ASSUME HInv, EInv, NEW c \in Conns, NEW s \in Sides, Accept(c, s)
    PROVE  EInv'
<1> DEFINE r == side[c][s]
           o == side[c][Other(s)]
           q == [r EXCEPT !.at = @ + 1, !.data = <<>>, !.got = 0,
                          !.pc = IF r.at = Go THEN "through" ELSE "send",
                          !.exact = @ /\ IsExact(r)]
<1>1. /\ r \in Exchange /\ InPlace(r) /\ r.pc = "check" /\ o \in Exchange
      /\ Other(s) \in Sides /\ Other(s) # s /\ Other(Other(s)) = s
  BY RecordIs, Opposite DEF Accept
<1>2. /\ q.pc \in {"through", "send"} /\ q.at = r.at + 1 /\ q.sent = r.sent
      /\ q.exact = (r.exact /\ IsExact(r))
  BY <1>1 DEF Exchange
<1>3. side' = [side EXCEPT ![c][s] = q] /\ wire' = wire /\ split' = split
  BY <1>1 DEF Accept, HInv, HTypes, Exchange
<1> HIDE DEF q
<1>4. /\ \A x \in Conns, t \in Sides : (x # c \/ t # s) => side'[x][t] = side[x][t]
      /\ side'[c][s] = q
  BY <1>1, <1>3 DEF HInv, HTypes
<1>5. Takes(r, o, wire[c][s], split[c]) /\ Takes(o, r, wire[c][Other(s)], split[c])
  BY <1>1 DEF EInv
<1>6. Takes(q, o, wire[c][s], split[c])
  BY <1>1, <1>2, <1>5 DEF Takes, InStep, GoAhead
<1>7. Takes(o, q, wire[c][Other(s)], split[c])
  BY <1>2, <1>5, OtherTakes
<1> QED
  BY <1>3, <1>4, <1>6, <1>7, OneSideTakes

\* A side that ends, or is ended, is taken at its word for what it took before.
LEMMA EndedTakes ==
    ASSUME NEW r, NEW o, NEW q, NEW w, NEW cut,
           Takes(r, o, w, cut), q.pc = "failed", q.exact = r.exact
    PROVE  Takes(q, o, w, cut)
BY DEF Takes, InStep, GoAhead

LEMMA FailTakes ==
    ASSUME HInv, EInv, NEW c \in Conns, NEW s \in Sides, Fail(c, s)
    PROVE  EInv'
<1> DEFINE q == [side[c][s] EXCEPT !.pc = "failed", !.data = <<>>, !.got = 0]
<1>1. side[c][s] \in Exchange /\ Other(s) \in Sides /\ Other(s) # s /\ Other(Other(s)) = s
  BY RecordIs, Opposite
<1>2. q.pc = "failed" /\ q.sent = side[c][s].sent /\ q.exact = side[c][s].exact
  BY <1>1 DEF Exchange
<1>3. side' = [side EXCEPT ![c][s] = q] /\ wire' = wire /\ split' = split
  BY <1>1 DEF Fail, HInv, HTypes, Exchange
<1> HIDE DEF q
<1>4. /\ \A x \in Conns, t \in Sides : (x # c \/ t # s) => side'[x][t] = side[x][t]
      /\ side'[c][s] = q
  BY <1>1, <1>3 DEF HInv, HTypes
<1>5. /\ Takes(side[c][s], side[c][Other(s)], wire[c][s], split[c])
      /\ Takes(side[c][Other(s)], side[c][s], wire[c][Other(s)], split[c])
  BY <1>1 DEF EInv
<1>6. /\ Takes(q, side[c][Other(s)], wire[c][s], split[c])
      /\ Takes(side[c][Other(s)], q, wire[c][Other(s)], split[c])
  BY <1>2, <1>5, EndedTakes, OtherTakes
<1> QED
  BY <1>3, <1>4, <1>6, OneSideTakes

LEMMA ProcessEndsTakes ==
    ASSUME HInv, EInv, NEW h \in Clients, ProcessEnds(h)
    PROVE  EInv'
<1> DEFINE Ends(x) == x[2] = h /\ xfer[x] \in Active
           q(x) == [side[x]["client"] EXCEPT !.pc = "failed"]
<1>1. /\ wire' = wire /\ split' = split
      /\ side' = [x \in Conns |->
                    IF Ends(x) THEN [side[x] EXCEPT !["client"] = q(x)] ELSE side[x]]
      /\ side \in [Conns -> [Sides -> Exchange]]
  BY DEF ProcessEnds, HInv, HTypes, Exchange
<1>2. "client" \in Sides /\ "server" \in Sides /\ \A s \in Sides : s = "client" \/ s = "server"
  BY DEF Sides
<1>3. ASSUME NEW x \in Conns
      PROVE  /\ q(x).pc = "failed" /\ q(x).sent = side[x]["client"].sent
             /\ q(x).exact = side[x]["client"].exact
  <2>1. side[x]["client"] \in Exchange
    BY <1>1, <1>2
  <2> QED
    BY <2>1 DEF Exchange
<1> HIDE DEF q, Ends
<1>4. ASSUME NEW x \in Conns, NEW t \in Sides
      PROVE  side'[x][t] = IF Ends(x) /\ t = "client" THEN q(x) ELSE side[x][t]
  BY <1>1, <1>2
<1> SUFFICES ASSUME NEW x \in Conns, NEW t \in Sides
             PROVE  Takes(side'[x][t], side'[x][Other(t)], wire'[x][t], split'[x])
  BY DEF EInv, Takes, Stream, InStep, GoAhead, IsExact, MessageBytes, Before
<1>5. Takes(side[x][t], side[x][Other(t)], wire[x][t], split[x])
  BY DEF EInv
<1>6. Takes(side'[x][t], side[x][Other(t)], wire[x][t], split[x])
  BY <1>3, <1>4, <1>5, EndedTakes
<1>7. side'[x][Other(t)].sent = side[x][Other(t)].sent
  BY <1>3, <1>4, Opposite
<1> QED
  BY <1>1, <1>6, <1>7, OtherTakes

LEMMA EInvInit ==
    ASSUME Init
    PROVE  EInv
<1> DEFINE r == [at |-> Ready, pc |-> "idle", got |-> 0, data |-> <<>>,
                 sent |-> 0, exact |-> TRUE]
<1>1. \A x \in Conns, s \in Sides : side[x][s] = r /\ wire[x][s] = <<>>
  BY DEF Init, HandshakeInit
<1>2. Takes(r, r, <<>>, FALSE)
  <2>1. Before(1) \in Nat
    BY BeforeGrows, RoundsAre
  <2>2. Before(r.at) = Before(1) /\ Before(r.sent + 1) = Before(1) /\ Len(<<>>) = 0
    BY RoundsAre, EmptySeq
  <2> QED
    BY <2>1, <2>2 DEF Takes, Stream, InStep, GoAhead
<1>3. Takes(r, r, <<>>, TRUE)
  BY <1>2 DEF Takes
<1>4. \A x \in Conns : split[x] = FALSE
  BY DEF Init, HandshakeInit
<1> HIDE DEF r
<1> QED
  BY <1>1, <1>2, <1>4, Opposite DEF EInv

\* Only the steps of Handshake, and the end of a process, touch what the sides take.
LEMMA EInvStep ==
    ASSUME HInv, EInv, [Next]_vars
    PROVE  EInv'
<1>1. CASE UNCHANGED meeting
  BY <1>1 DEF meeting, EInv, Takes, Stream, InStep, GoAhead, IsExact, MessageBytes, Before
<1>2. CASE Master \/ \E c \in Clients : Thread(c)
  <2>1. UNCHANGED meeting
    BY <1>2 DEF Master, TakeMessage, ScriptFails, SpuriousWakeUp, JobOver, Thread, SendCommand, ConnectFails,
                Count, CollectEnds
  <2> QED
    BY <1>1, <2>1
<1>3. ASSUME NEW x \in Conns, Goes(x) \/ End(x)
      PROVE  EInv'
  <2>1. CASE ReadCommand(x) \/ Start(x) \/ LastReport(x) \/ End(x)
    BY <1>1, <2>1 DEF ReadCommand, Start, LastReport, End
  <2>2. CASE Dial(x)
    BY <2>2, OpenTakes DEF Dial
  <2>3. CASE Exchanges(x)
    BY <2>3, SendOwnTakes, ReadTakes, AcceptTakes DEF Exchanges, Meet, Sides
  <2> QED
    BY <1>3, <2>1, <2>2, <2>3 DEF Goes
<1>4. ASSUME NEW x \in Conns, Fails(x)
      PROVE  EInv'
  <2>1. CASE NoConnection(x) \/ ShortReport(x) \/ DropRate(x)
    BY <1>1, <2>1 DEF NoConnection, ShortReport, DropRate
  <2>2. CASE CutCommand(x) \/ Abort(x)
    <3>1. UNCHANGED meeting \/ ProcessEnds(x[2])
      BY <2>2 DEF CutCommand, Abort
    <3> QED
      BY <1>1, <3>1, ProcessEndsTakes, ConnsAre
  <2>3. CASE GivesUp(x)
    <3>1. PICK s \in Sides : HandshakeFails(x, s)
      BY <2>3 DEF GivesUp
    <3>2. Fail(x, s)
      BY <3>1 DEF HandshakeFails, Reject, SetUpFails, PeerGone
    <3> QED
      BY <3>2, FailTakes
  <2> QED
    BY <1>4, <2>1, <2>2, <2>3 DEF Fails
<1>5. CASE UNCHANGED vars
  BY <1>1, <1>5 DEF vars
<1> QED
  BY <1>2, <1>3, <1>4, <1>5 DEF Next

-----------------------------------------------------------------------------
(* What follows.                                                           *)

LEMMA JobInit == Init => JInv
<1> SUFFICES ASSUME Init
             PROVE  JInv
  OBVIOUS
<1> DEFINE r == [at |-> Ready, pc |-> "idle", got |-> 0, data |-> <<>>,
                 sent |-> 0, exact |-> TRUE]
<1>1. r \in Exchange /\ InPlace(r)
  BY EmptySeq, RoundsAre DEF Exchange, InPlace
<1>2. /\ \A x \in Conns, s \in Sides : side[x][s] = r /\ wire[x][s] = <<>>
      /\ HTypes
  BY <1>1, EmptySeq DEF Init, HandshakeInit, HTypes
<1>3. Counts(r, r, <<>>)
  <2>1. Before(1) \in Nat
    BY BeforeGrows, RoundsAre
  <2>2. Before(r.at) = Before(1) /\ r.sent + 1 = 1 /\ Taken(r) = 0 /\ Len(<<>>) = 0
    BY RoundsAre, EmptySeq DEF Taken
  <2> QED
    BY <2>1, <2>2 DEF Counts
<1> HIDE DEF r
<1>4. HInv
  BY <1>1, <1>2, <1>3, Opposite DEF HInv
<1>5. JobTypes
  BY EmptySeq, JobAssumption DEF Init, JobTypes
<1>6. XferInv /\ CountInv
  BY ConnsAre DEF Init, XferInv, CountInv, Jobs
<1>7. CheckerInv
  BY DEF Init, CheckerInv, AllJoined
<1> QED
  BY <1>4, <1>5, <1>6, <1>7 DEF JInv

\* The bytes of every handshake, the phases of the transfers and what the master
\* counts are inductive together.
THEOREM JobInductive == Spec => []JInv
<1>1. JInv /\ [Next]_vars => JInv'
  <2> SUFFICES ASSUME JInv, [Next]_vars
               PROVE  JInv'
    OBVIOUS
  <2>1. CASE Next
    BY <2>1, MasterStep, ThreadStep, GoesStep, FailsStep DEF Next
  <2>2. CASE UNCHANGED vars
    <3>1. HInv /\ UNCHANGED <<meeting, jobVars>>
      BY <2>2 DEF vars, JInv
    <3>2. HInv' /\ SentGrows
      BY <3>1, NobodyMeets
    <3>3. UNCHANGED <<job, mpc, thread, counted, checker, daemon, xfer, rate, failures, side>>
      BY <3>1 DEF jobVars, meeting
    <3> QED
      BY <3>2, <3>3 DEF JInv, JobTypes, XferInv, CountInv, CheckerInv, AllJoined, Finished, Conn
  <2> QED
    BY <2>1, <2>2
<1> QED
  BY <1>1, JobInit, PTL DEF Spec

\* Every variable keeps its type, however long the messages and however they are cut.
THEOREM JobTypeCorrect == Spec => []TypeOK
<1>1. JInv => TypeOK
  BY DEF JInv, HInv, HTypes, JobTypes, TypeOK, HandshakeTypes, InPlace, Bytes
<1> QED
  BY <1>1, JobInductive, PTL

\* No side of a handshake is past an exchange the other has not come to, though
\* reads may take any part of a message and reach into the next.
THEOREM NobodyAhead == Spec => []Barrier
<1>1. JInv => Barrier
  BY BarrierFollows DEF JInv
<1> QED
  BY <1>1, JobInductive, PTL

\* The master goes on only from a job all of whose transfers have sent all blocks to
\* servers that agreed to take them.
THEOREM MasterWaits == Spec => []JobComplete
<1>1. JInv => JobComplete
  BY ConnsAre DEF JInv, XferInv, CountInv, JobComplete
<1> QED
  BY <1>1, JobInductive, PTL

\* Where the bytes are and what was taken are inductive, given how many they are.
LEMMA EInvAlways == Spec => []EInv
<1>1. Init => EInv
  BY EInvInit
<1>2. JInv /\ EInv /\ [Next]_vars => EInv'
  BY EInvStep DEF JInv
<1> QED
  BY <1>1, <1>2, JobInductive, PTL DEF Spec

\* A side whose reads were all whole has taken exactly the other's messages, however far
\* the other ran ahead; and what passes for the go-ahead is the go-ahead, however the
\* bytes before it were cut, because it is a single character and the last one sent.
THEOREM TakesExactly ==
    ASSUME Sizes[Go] = 1
    PROVE  Spec => []Exact
<1>1. EInv => Exact
  BY DEF EInv, Takes, InStep, GoAhead, Exact
<1> QED
  BY <1>1, EInvAlways, PTL

\* As long as no read was cut short, a side that reads while the other reads too, or is
\* through, does not wait in vain: for one of them the whole message is there.
NoStandstill ==
    \A c \in Conns, s \in Sides :
        /\ ~split[c] /\ side[c][s].pc = "read"
        /\ side[c][Other(s)].pc \in {"read", "through"}
        => \E t \in Sides : /\ side[c][t].pc = "read"
                            /\ Len(wire[c][t]) >= Sizes[side[c][t].at]

\* The two sides of a handshake never wait for each other (sockSyncData sends before it
\* reads), whatever the lengths of the messages and whoever is ahead.
THEOREM NobodyStandsStill == Spec => []NoStandstill
<1>1. ASSUME HInv, EInv, NEW c \in Conns, NEW s \in Sides,
             ~split[c], side[c][s].pc = "read", side[c][Other(s)].pc \in {"read", "through"},
             side[c][Other(s)].pc = "through" \/ side[c][s].at <= side[c][Other(s)].at
      PROVE  Len(wire[c][s]) >= Sizes[side[c][s].at]
  <2> DEFINE r == side[c][s]
             o == side[c][Other(s)]
             l == Len(wire[c][s])
             n == o.sent + 1
  <2>1. /\ r.at \in 1 .. Go + 1 /\ r.at <= Go /\ o.at \in 1 .. Go + 1 /\ o.sent \in 0 .. Go
        /\ l \in Nat /\ Before(n) \in Nat /\ Before(r.at) \in Nat
    BY <1>1, RecordIs, NumbersAre, Opposite DEF InPlace
  <2>2. l + Before(r.at) = Before(n)
    BY <1>1 DEF EInv, Takes, InStep
  <2>3. o.sent >= o.at - 1 /\ (o.pc = "read" => o.sent = o.at) /\ (o.pc = "through" => o.at = Go + 1)
    BY <1>1, RecordIs, Opposite DEF InPlace
  <2>4. r.at + 1 <= n /\ n \in 1 .. Go + 1 /\ r.at \in Rounds /\ r.at + 1 \in 1 .. Go + 1
    <3>1. o.sent >= r.at
      BY <1>1, <2>1, <2>3, RoundsAre
    <3> QED
      BY <2>1, <3>1, RoundsAre
  <2>5. Before(r.at + 1) = Before(r.at) + Sizes[r.at] /\ Sizes[r.at] \in Nat /\ Before(r.at + 1) \in Nat
    BY <2>4, BeforeGrows, SizesAre
  <2>6. Before(r.at + 1) <= Before(n)
    <3> SUFFICES ASSUME ~(Before(r.at + 1) <= Before(n))
                 PROVE  FALSE
      OBVIOUS
    <3>1. Before(n) <= Before(r.at + 1)
      BY <2>1, <2>5
    <3>2. n <= r.at + 1
      BY <2>4, <3>1, BeforeGrows
    <3>3. n = r.at + 1
      BY <2>1, <2>4, <3>2
    <3> QED
      BY <2>1, <3>3
  <2> DEFINE b == Before(r.at)
             z == Sizes[r.at]
             u == Before(n)
  <2>7. b \in Nat /\ z \in Nat /\ u \in Nat /\ l \in Nat /\ l + b = u /\ b + z <= u
    BY <2>1, <2>2, <2>5, <2>6
  <2> HIDE DEF b, z, u, l
  <2>8. l >= z
    BY <2>7
  <2> QED
    BY <2>8 DEF l, z
<1>2. ASSUME HInv, EInv, NEW c \in Conns, NEW s \in Sides,
             ~split[c], side[c][s].pc = "read", side[c][Other(s)].pc \in {"read", "through"}
      PROVE  \E t \in Sides : /\ side[c][t].pc = "read"
                              /\ Len(wire[c][t]) >= Sizes[side[c][t].at]
  <2>1. side[c][s].at \in Int /\ side[c][Other(s)].at \in Int
    BY <1>2, NumbersAre, Opposite
  <2>2. CASE side[c][Other(s)].pc = "through" \/ side[c][s].at <= side[c][Other(s)].at
    BY <1>1, <1>2, <2>2
  <2>3. CASE /\ side[c][Other(s)].pc = "read"
             /\ side[c][Other(s)].at <= side[c][s].at
    <3>1. Other(s) \in Sides /\ Other(Other(s)) = s
      BY Opposite
    <3>2. Len(wire[c][Other(s)]) >= Sizes[side[c][Other(s)].at]
      BY <1>1, <1>2, <2>3, <3>1
    <3> QED
      BY <2>3, <3>1, <3>2
  <2> QED
    BY <1>2, <2>1, <2>2, <2>3
<1>3. JInv /\ EInv => NoStandstill
  BY <1>2 DEF JInv, NoStandstill
<1> QED
  BY <1>3, JobInductive, EInvAlways, PTL

-----------------------------------------------------------------------------
(* Why a job in which nothing goes wrong cannot hold the master up.         *)

\* Nothing went wrong with a transfer of job j, and the daemon of client c is there.
Spotless(j, c) == (\A i \in DOMAIN failures : failures[i] # j) /\ daemon[c] = "up"

UInv ==
    /\ \A j \in Jobs, c \in Clients : Spotless(j, c) => rate[Conn(j, c)] \notin {"cut", "short"}
    /\ \A c \in Clients : /\ thread[c] # "none" => job \in Jobs
                          /\ Spotless(job, c) /\ thread[c] = "done" => counted[c]

\* A thread of the master that has ended, in a job in which nothing went wrong, has
\* counted its client; when all are joined the checker has been notified, and only sleeps
\* on if the notification came between its test and its sleep.
JoinedIsCounted ==
    mpc = "running" =>
        /\ \A c \in Clients : Spotless(job, c) /\ thread[c] = "done" => counted[c]
        /\ AllJoined /\ (\A c \in Clients : Spotless(job, c)) => checker \in {"told", "lost"}

\* What went wrong and who is gone stays so.
LEMMA SpotsStay ==
    ASSUME JobTypes, NEW j \in Jobs, NEW c \in Clients,
           \/ failures' = failures
           \/ \E x \in Conns : Wrong(x),
           daemon'[c] = "up" => daemon[c] = "up",
           Spotless(j, c)'
    PROVE  /\ Spotless(j, c)
           /\ \A x \in Conns : Wrong(x) => x[1] # j
<1>1. failures \in Seq(Jobs)
  BY DEF JobTypes
<1>2. CASE failures' = failures
  <2>1. \A x \in Conns : ~Wrong(x)
    <3> SUFFICES ASSUME NEW x \in Conns, Wrong(x)
                 PROVE  FALSE
      OBVIOUS
    <3>1. failures' = Append(failures, x[1])
      BY DEF Wrong
    <3>2. Len(failures') = Len(failures) + 1 /\ Len(failures) \in Nat
      BY <1>1, <3>1
    <3> QED
      BY <1>2, <3>2
  <2> QED
    BY <1>2, <2>1 DEF Spotless
<1>3. ASSUME NEW x \in Conns, Wrong(x)
      PROVE  x[1] # j /\ Spotless(j, c)
  <2>1. failures' = Append(failures, x[1]) /\ x[1] \in Jobs
    BY <1>3, ConnsAre DEF Wrong
  <2>2. /\ Len(failures') = Len(failures) + 1 /\ Len(failures) \in Nat
        /\ failures'[Len(failures) + 1] = x[1]
        /\ \A i \in 1 .. Len(failures) : failures'[i] = failures[i]
    BY <1>1, <2>1
  <2>3. DOMAIN failures' = 1 .. Len(failures) + 1 /\ DOMAIN failures = 1 .. Len(failures)
    BY <1>1, <2>1
  <2>4. \A i \in 1 .. Len(failures) + 1 : failures'[i] # j
    BY <2>3 DEF Spotless
  <2> QED
    BY <2>2, <2>3, <2>4 DEF Spotless
<1> QED
  BY <1>2, <1>3

\* A step of transfers, which leaves the master alone.
LEMMA SpotlessKept ==
    ASSUME JInv, UInv, UNCHANGED <<job, thread, counted>>,
           \/ failures' = failures
           \/ \E x \in Conns : Wrong(x),
           \A c \in Clients : daemon'[c] = "up" => daemon[c] = "up",
           \A j \in Jobs, c \in Clients :
              rate'[Conn(j, c)] \in {"cut", "short"} =>
                 \/ rate[Conn(j, c)] \in {"cut", "short"}
                 \/ Wrong(Conn(j, c)) \/ daemon'[c] # "up"
    PROVE  UInv'
<1>1. JobTypes
  BY DEF JInv
<1>2. ASSUME NEW j \in Jobs, NEW c \in Clients, Spotless(j, c)'
      PROVE  rate'[Conn(j, c)] \notin {"cut", "short"}
  <2>1. Spotless(j, c) /\ \A x \in Conns : Wrong(x) => x[1] # j
    BY <1>1, <1>2, SpotsStay
  <2>2. ~Wrong(Conn(j, c)) /\ daemon'[c] = "up"
    BY <1>2, <2>1, ConnsAre DEF Spotless
  <2> QED
    BY <2>1, <2>2 DEF UInv
<1>3. ASSUME NEW c \in Clients
      PROVE  /\ thread'[c] # "none" => job' \in Jobs
             /\ Spotless(job, c)' /\ thread'[c] = "done" => counted'[c]
  <2>1. thread[c] # "none" => job \in Jobs
    BY DEF UInv
  <2>2. job' = job /\ thread' = thread /\ counted' = counted
    OBVIOUS
  <2>3. ASSUME Spotless(job, c)', thread[c] = "done"
        PROVE  counted[c]
    <3>1. job \in Jobs
      BY <2>1, <2>3
    <3>2. PICK j \in Jobs : j = job /\ j = job'
      BY <2>2, <3>1
    <3>3. Spotless(j, c)'
      BY <2>3, <3>2 DEF Spotless
    <3>4. Spotless(j, c)
      BY <1>1, <3>3, SpotsStay
    <3>5. Spotless(job, c)
      BY <3>2, <3>4
    <3> QED
      BY <2>3, <3>5 DEF UInv
  <2> QED
    BY <2>1, <2>2, <2>3
<1> QED
  BY <1>2, <1>3 DEF UInv, Conn, Spotless

LEMMA SpotlessMaster ==
    ASSUME JInv, UInv, Master
    PROVE  UInv'
<1>1. UNCHANGED <<daemon, rate, failures>> /\ JobTypes
  BY DEF Master, TakeMessage, ScriptFails, SpuriousWakeUp, JobOver, JInv
<1>2. CASE TakeMessage
  <2>1. job' \in Jobs /\ \A c \in Clients : thread'[c] = "connect"
    BY <1>1, <1>2, JobAssumption DEF TakeMessage, JobTypes, Jobs
  <2> QED
    BY <1>1, <2>1 DEF UInv, Spotless, Conn
<1>3. CASE ScriptFails \/ SpuriousWakeUp \/ JobOver
  BY <1>1, <1>3 DEF ScriptFails, SpuriousWakeUp, JobOver, UInv, Spotless, Conn
<1> QED
  BY <1>2, <1>3 DEF Master

LEMMA SpotlessThread ==
    ASSUME JInv, UInv, NEW c \in Clients, Thread(c)
    PROVE  UInv'
<1>1. UNCHANGED <<job, daemon, failures>> /\ JobTypes
  BY DEF Thread, SendCommand, ConnectFails, Count, CollectEnds, JInv
<1>2. \A j, d : Spotless(j, d)' <=> Spotless(j, d)
  BY <1>1 DEF Spotless
<1>3. CASE SendCommand(c)
  <2>1. /\ thread[c] = "connect" /\ counted' = counted
        /\ thread' = [thread EXCEPT ![c] = "collect"]
        /\ rate' = [rate EXCEPT ![Conn(job, c)] = "open"]
    BY <1>3 DEF SendCommand
  <2>2. /\ \A d \in Clients : thread'[d] = (IF d = c THEN "collect" ELSE thread[d])
        /\ \A y \in Conns : rate'[y] = (IF y = Conn(job, c) THEN "open" ELSE rate[y])
    BY <1>1, <2>1 DEF JobTypes
  <2>3. \A j \in Jobs, d \in Clients :
           Spotless(j, d)' => rate'[Conn(j, d)] \notin {"cut", "short"}
    BY <1>2, <2>2, ConnsAre DEF UInv
  <2>4. \A d \in Clients : /\ thread'[d] # "none" => job' \in Jobs
                           /\ Spotless(job, d)' /\ thread'[d] = "done" => counted'[d]
    BY <1>1, <1>2, <2>1, <2>2 DEF UInv
  <2> QED
    BY <1>1, <2>3, <2>4 DEF UInv, Spotless, Conn
<1>4. ASSUME thread' = [thread EXCEPT ![c] = "done"], UNCHANGED <<counted, rate>>,
             thread[c] \in {"connect", "collect"}, Spotless(job, c) => counted[c]
      PROVE  UInv'
  <2>1. \A d \in Clients : thread'[d] = (IF d = c THEN "done" ELSE thread[d])
    BY <1>1, <1>4 DEF JobTypes
  <2>2. \A d \in Clients : /\ thread'[d] # "none" => job' \in Jobs
                           /\ Spotless(job, d)' /\ thread'[d] = "done" => counted'[d]
    BY <1>1, <1>2, <1>4, <2>1 DEF UInv
  <2> QED
    BY <1>1, <1>2, <1>4, <2>2 DEF UInv, Spotless, Conn
<1>5. CASE ConnectFails(c)
  BY <1>4, <1>5 DEF ConnectFails, Spotless
<1>6. CASE CollectEnds(c)
  <2>1. /\ thread[c] = "collect" /\ rate[Conn(job, c)] \notin {"none", "open"}
        /\ rate[Conn(job, c)] = "last" => counted[c]
        /\ thread' = [thread EXCEPT ![c] = "done"] /\ UNCHANGED <<counted, rate>>
    BY <1>6 DEF CollectEnds
  <2>2. job \in Jobs
    BY <2>1 DEF UInv
  <2>3. rate[Conn(job, c)] \in {"none", "open", "cut", "last", "short"}
    BY <1>1, <2>2, ConnsAre DEF JobTypes
  <2>4. Spotless(job, c) => counted[c]
    BY <2>1, <2>2, <2>3 DEF UInv
  <2> QED
    BY <1>4, <2>1, <2>4
<1>7. CASE Count(c)
  <2>1. counted' = [counted EXCEPT ![c] = TRUE] /\ UNCHANGED <<thread, rate>>
    BY <1>7 DEF Count
  <2>2. \A d \in Clients : counted[d] => counted'[d]
    BY <1>1, <2>1 DEF JobTypes
  <2>3. \A d \in Clients : /\ thread'[d] # "none" => job' \in Jobs
                           /\ Spotless(job, d)' /\ thread'[d] = "done" => counted'[d]
    BY <1>1, <1>2, <2>1, <2>2 DEF UInv
  <2> QED
    BY <1>1, <1>2, <2>1, <2>3 DEF UInv, Spotless, Conn
<1> QED
  BY <1>3, <1>5, <1>6, <1>7 DEF Thread

LEMMA SpotlessGoes ==
    ASSUME JInv, UInv, NEW x \in Conns, Goes(x) \/ End(x)
    PROVE  UInv'
<1>1. UNCHANGED <<job, mpc, thread, counted, checker, daemon, failures>> /\ JobTypes
  BY DEF Goes, ReadCommand, Dial, Exchanges, Start, LastReport, End, jobVars, JInv
<1>2. rate' = rate \/ rate' = [rate EXCEPT ![x] = ClosedAs(@)]
  BY DEF Goes, ReadCommand, Dial, Exchanges, Start, LastReport, End, jobVars
<1>3. \A y \in Conns : rate'[y] \in {"cut", "short"} => rate[y] \in {"cut", "short"}
  BY <1>1, <1>2 DEF JobTypes, ClosedAs
<1> QED
  BY <1>1, <1>3, ConnsAre, SpotlessKept

LEMMA SpotlessFails ==
    ASSUME JInv, UInv, NEW x \in Conns, Fails(x)
    PROVE  UInv'
<1>1. UNCHANGED <<job, mpc, thread, counted, checker>> /\ JobTypes
  BY DEF Fails, CutCommand, NoConnection, GivesUp, ShortReport, Abort, DropRate, Return, JInv
<1>2. ASSUME Wrong(x), ProcessEnds(x[2])
      PROVE  UInv'
  <2>1. /\ daemon' = [daemon EXCEPT ![x[2]] = "down"]
        /\ \A y \in Conns : rate'[y] = (IF y[2] = x[2] /\ rate[y] = "open" THEN "cut" ELSE rate[y])
    BY <1>2 DEF ProcessEnds, Closed
  <2>2. \A c \in Clients : /\ daemon'[c] = "up" => daemon[c] = "up"
                           /\ c = x[2] => daemon'[c] # "up"
    BY <1>1, <2>1 DEF JobTypes
  <2> QED
    BY <1>1, <1>2, <2>1, <2>2, ConnsAre, SpotlessKept
<1>3. ASSUME Wrong(x), daemon' = daemon,
             \E r \in {"cut", "short"} : rate' = [rate EXCEPT ![x] = r]
      PROVE  UInv'
  <2>1. \A y \in Conns : y # x => rate'[y] = rate[y]
    BY <1>1, <1>3 DEF JobTypes
  <2> QED
    BY <1>1, <1>3, <2>1, ConnsAre, SpotlessKept
<1>4. ASSUME failures' = failures \/ Wrong(x), daemon' = daemon, rate' = rate
      PROVE  UInv'
  BY <1>1, <1>4, SpotlessKept
<1>5. CASE CutCommand(x)
  BY <1>2, <1>3, <1>5 DEF CutCommand
<1>6. CASE Abort(x)
  BY <1>2, <1>6 DEF Abort
<1>7. CASE NoConnection(x)
  BY <1>4, <1>7 DEF NoConnection, Return
<1>8. CASE ShortReport(x) \/ DropRate(x)
  BY <1>3, <1>8 DEF ShortReport, DropRate
<1>9. CASE GivesUp(x)
  <2>1. (failures' = failures \/ Wrong(x)) /\ daemon' = daemon /\ rate' = rate
    BY <1>9 DEF GivesUp, Return
  <2> QED
    BY <1>4, <2>1
<1> QED
  BY <1>5, <1>6, <1>7, <1>8, <1>9 DEF Fails

\* In a job in which nothing goes wrong no client holds the master up: the thread of each,
\* once it ends, has counted it, whatever happens to the transfers of other jobs, and the
\* last has notified the checker (which may have lost that: master.cpp:395-396).
THEOREM NobodyUncounted == Spec => []JoinedIsCounted
<1>1. Init => UInv
  BY ConnsAre DEF Init, UInv
<1>2. JInv /\ UInv /\ [Next]_vars => UInv'
  <2> SUFFICES ASSUME JInv, UInv, [Next]_vars
               PROVE  UInv'
    OBVIOUS
  <2>1. CASE Next
    BY <2>1, SpotlessMaster, SpotlessThread, SpotlessGoes, SpotlessFails DEF Next
  <2>2. CASE UNCHANGED vars
    BY <2>2 DEF vars, jobVars, UInv, Spotless, Conn
  <2> QED
    BY <2>1, <2>2
<1>3. JInv /\ UInv => JoinedIsCounted
  BY DEF JInv, JobTypes, CheckerInv, AllJoined, Finished, UInv, JoinedIsCounted
<1> QED
  BY <1>1, <1>2, <1>3, JobInductive, PTL DEF Spec
=============================================================================
