-------------------------- MODULE DelayRingProofs --------------------------
(***************************************************************************)
(* Theorems about DelayRing, for every size of ring, delay and number of    *)
(* packets.  The ring is seen from its tail: a place waits when it lies     *)
(* before the head, counted from the tail.                                  *)
(***************************************************************************)
EXTENDS DelayRing, SequenceTheorems, TLAPS

\* How far a place is from the place t, going forward.
From(t, p) == IF p >= t THEN p - t ELSE p + Size - t

Pos(p)     == From(tail, p)
Pending(p) == Pos(p) < Pos(head)

\* The packets the sniffing thread is done with.
Handled == IF spc = "put" THEN arrived - 1 ELSE arrived

\* The order of packets: sent, then waiting, then in hand.
OrderInv ==
    /\ spc = "put" => ring[head].pkt = arrived /\ arrived # 0
    /\ \A p \in Places : Pending(p) => ring[p].pkt \in 1 .. Handled
    /\ \A p, q \in Places : Pending(q) /\ Pos(p) < Pos(q) => ring[p].pkt < ring[q].pkt
    /\ \A j \in DOMAIN sent :
          /\ sent[j].pkt <= Handled
          /\ \A p \in Places : Pending(p) => sent[j].pkt < ring[p].pkt
    /\ SentInOrder

\* Ages: the older a packet the nearer to the tail, and while the delaying thread
\* waits nothing in the ring was due when it went to sleep.
Punctual ==
    /\ spc = "put" => held = 0
    /\ \A p, q \in Places : Pending(q) /\ Pos(p) < Pos(q) => ring[p].age >= ring[q].age
    /\ dpc = "wait" => waited <= Delay
    /\ \A p \in Places : Pending(p) /\ dpc = "wait" => ring[p].age < Delay + waited
    /\ \A p \in Places : Pending(p) /\ dpc # "ended" => ring[p].age < 2 * Delay
    /\ \A j \in DOMAIN sent : sent[j].age < 2 * Delay

TimeInv ==
    /\ \A p \in Places : Pending(p) => ring[p].valid
    /\ \A j \in DOMAIN sent : sent[j].age >= Delay
    /\ ~late => Punctual

IInv == TypeOK /\ OrderInv /\ TimeInv

-----------------------------------------------------------------------------
(* The places.                                                             *)

\* The place after the last is the first.
LEMMA AfterWraps ==
    ASSUME NEW p \in Places
    PROVE  After(p) \in Places /\ After(p) = IF p = Size - 1 THEN 0 ELSE p + 1
<1>1. CASE p = Size - 1
  BY ConstantsAssumption, <1>1 DEF After, Places
<1>2. CASE p # Size - 1
  BY ConstantsAssumption, <1>2 DEF After, Places
<1> QED
  BY <1>1, <1>2

\* Moving the head on adds its place to those that wait, or empties the ring.
LEMMA HeadMoves ==
    ASSUME NEW t \in Places, NEW h \in Places, NEW p \in Places,
           From(t, p) < From(t, After(h))
    PROVE  From(t, p) < From(t, h) \/ p = h
<1>1. After(h) = IF h = Size - 1 THEN 0 ELSE h + 1
  BY AfterWraps
<1> QED
  BY ConstantsAssumption, <1>1 DEF From, Places

\* Moving the tail on takes its place from those that wait, and keeps their order.
LEMMA TailMoves ==
    ASSUME NEW t \in Places, NEW h \in Places, t # h
    PROVE  /\ From(t, t) < From(t, h)
           /\ \A p \in Places : p # t => From(t, t) < From(t, p)
           /\ \A p \in Places : From(After(t), p) < From(After(t), h) =>
                 p # t /\ From(t, p) < From(t, h)
           /\ \A p, q \in Places : p # t /\ q # t /\ From(After(t), p) < From(After(t), q) =>
                 From(t, p) < From(t, q)
<1>1. After(t) = IF t = Size - 1 THEN 0 ELSE t + 1
  BY AfterWraps
<1> QED
  BY ConstantsAssumption, <1>1 DEF From, Places

-----------------------------------------------------------------------------
(* Types.                                                                  *)

\* What is sent is a packet.
LEMMA SentGrows ==
    ASSUME TypeOK, OrderInv, DSend
    PROVE  LET e == [pkt |-> ring[tail].pkt, age |-> ring[tail].age]
           IN  /\ e \in [pkt : Packets, age : 0 .. Old]
               /\ sent' \in Seq([pkt : Packets, age : 0 .. Old])
               /\ Len(sent) \in Nat /\ Len(sent') = Len(sent) + 1
               /\ DOMAIN sent = 1 .. Len(sent) /\ DOMAIN sent' = 1 .. Len(sent) + 1
               /\ sent'[Len(sent) + 1] = e
               /\ \A j \in 1 .. Len(sent) : sent'[j] = sent[j]
<1> DEFINE e == [pkt |-> ring[tail].pkt, age |-> ring[tail].age]
           S == [pkt : Packets, age : 0 .. Old]
<1>1. tail \in Places /\ head \in Places /\ tail # head
  BY DEF TypeOK, DSend, Due, Queued
<1>2. Pending(tail)
  BY <1>1, TailMoves DEF Pending, Pos
<1>3. ring[tail].pkt \in Packets
  <2>1. ring[tail].pkt \in 1 .. Handled /\ arrived \in 0 .. MaxPkts /\ MaxPkts \in Nat
    BY <1>1, <1>2, ConstantsAssumption DEF OrderInv, TypeOK
  <2> QED
    BY <2>1 DEF Handled, Packets
<1>4. ring[tail].age \in 0 .. Old
  BY <1>1 DEF TypeOK
<1>5. e \in S
  BY <1>3, <1>4
<1>6. sent \in Seq(S) /\ sent' = Append(sent, e)
  BY DEF TypeOK, DSend
<1> HIDE DEF e, S
<1>7. /\ sent' \in Seq(S) /\ Len(sent') = Len(sent) + 1 /\ sent'[Len(sent) + 1] = e
      /\ \A j \in 1 .. Len(sent) : sent'[j] = sent[j]
  BY <1>5, <1>6, AppendProperties
<1>8. /\ Len(sent) \in Nat /\ DOMAIN sent = 1 .. Len(sent) /\ DOMAIN sent' = 1 .. Len(sent')
  BY <1>6, <1>7, LenProperties
<1> QED
  BY <1>5, <1>7, <1>8 DEF e, S

LEMMA TypeStep == IInv /\ [Next]_vars => TypeOK'
<1> SUFFICES ASSUME IInv, [Next]_vars PROVE TypeOK'
  OBVIOUS
<1> USE ConstantsAssumption
<1>0. TypeOK /\ OrderInv
  BY DEF IInv
<1>1. CASE SLoop \/ SNothing \/ SClosed \/ SLeave
  BY <1>0, <1>1 DEF TypeOK, SLoop, SNothing, SClosed, SLeave
<1>2. CASE SDelayed \/ SAtOnce
  <2>1. /\ UNCHANGED <<head, tail, dpc, waited, sent, stop, late>>
        /\ arrived' = arrived + 1 /\ arrived < MaxPkts
        /\ ring' = [ring EXCEPT ![head].pkt = arrived']
        /\ spc' \in {"put", "loop"} /\ held' \in {0, held}
    BY <1>2 DEF SDelayed, SAtOnce, Receive
  <2>2. arrived' \in 0 .. MaxPkts /\ arrived' \in Packets
    BY <1>0, <2>1 DEF TypeOK, Packets
  <2>3. ring' \in [Places -> [pkt : Packets \cup {None}, age : 0 .. Old, valid : BOOLEAN]]
    BY <1>0, <2>1, <2>2 DEF TypeOK
  <2>4. held' \in 0 .. Old
    BY <1>0, <2>1 DEF TypeOK, Old
  <2> QED
    BY <1>0, <2>1, <2>2, <2>3, <2>4 DEF TypeOK
<1>3. CASE SPut
  <2>1. After(head) \in Places
    BY <1>0, AfterWraps DEF TypeOK
  <2>2. ring' \in [Places -> [pkt : Packets \cup {None}, age : 0 .. Old, valid : BOOLEAN]]
    BY <1>0, <1>3 DEF TypeOK, SPut
  <2> QED
    BY <1>0, <1>3, <2>1, <2>2 DEF TypeOK, SPut, Old
<1>4. CASE DLoop \/ DWait \/ DWake \/ DSpurious \/ DLeave \/ StopHandler
  <2>1. /\ UNCHANGED <<head, tail, ring, arrived, spc, held, sent, late>>
        /\ waited' \in {0, waited} /\ dpc' \in {dpc, "loop", "send", "wait", "ended"}
        /\ stop' \in {TRUE, stop}
    BY <1>4 DEF DLoop, DWait, DWake, DSpurious, DLeave, StopHandler
  <2>2. waited' \in 0 .. Old
    BY <1>0, <2>1 DEF TypeOK, Old
  <2> QED
    BY <1>0, <2>1, <2>2 DEF TypeOK
<1>5. CASE DSend
  <2>1. After(tail) \in Places
    BY <1>0, AfterWraps DEF TypeOK
  <2>2. ring' \in [Places -> [pkt : Packets \cup {None}, age : 0 .. Old, valid : BOOLEAN]]
    <3>1. 0 \in 0 .. Old /\ FALSE \in BOOLEAN
      BY DEF Old
    <3>2. ring' = [ring EXCEPT ![tail] = [@ EXCEPT !.valid = FALSE, !.age = 0]]
      BY <1>0, <1>5 DEF TypeOK, DSend
    <3>3. [ring[tail] EXCEPT !.valid = FALSE, !.age = 0]
             \in [pkt : Packets \cup {None}, age : 0 .. Old, valid : BOOLEAN]
      BY <1>0, <3>1 DEF TypeOK
    <3> QED
      BY <1>0, <3>2, <3>3, Zenon DEF TypeOK
  <2>3. sent' \in Seq([pkt : Packets, age : 0 .. Old])
    BY <1>0, <1>5, SentGrows
  <2> QED
    BY <1>0, <1>5, <2>1, <2>2, <2>3 DEF TypeOK, DSend
<1>6. CASE Tick
  <2>1. \A a \in 0 .. Old : Older(a) \in 0 .. Old
    BY DEF Older, Old
  <2>2. \A c, a : a \in 0 .. Old => OlderIf(c, a) \in 0 .. Old
    BY <2>1 DEF OlderIf
  <2>3. ring' \in [Places -> [pkt : Packets \cup {None}, age : 0 .. Old, valid : BOOLEAN]]
    BY <1>0, <1>6, <2>2 DEF TypeOK, Tick
  <2>4. held' \in 0 .. Old /\ waited' \in 0 .. Old
    BY <1>0, <1>6, <2>2 DEF TypeOK, Tick
  <2>5. late' \in BOOLEAN
    BY <1>6 DEF Tick
  <2> QED
    BY <1>0, <1>6, <2>3, <2>4, <2>5 DEF TypeOK, Tick
<1>7. CASE UNCHANGED vars
  BY <1>0, <1>7 DEF TypeOK, vars
<1> QED
  BY <1>1, <1>2, <1>3, <1>4, <1>5, <1>6, <1>7 DEF Next, Sniffer, Delayer

-----------------------------------------------------------------------------
(* The order of packets.                                                   *)

\* Numbers that every step uses.
LEMMA Numbers ==
    ASSUME TypeOK
    PROVE  /\ head \in Places /\ tail \in Places /\ arrived \in Nat
           /\ \A p \in Places : ring[p].pkt \in Nat /\ ring[p].age \in Nat /\ p \in Nat
           /\ Len(sent) \in Nat /\ DOMAIN sent = 1 .. Len(sent)
           /\ \A j \in DOMAIN sent : sent[j].pkt \in Nat /\ sent[j].age \in Nat
           /\ held \in Nat /\ waited \in Nat
<1> USE ConstantsAssumption
<1>1. \A p \in Places : ring[p].pkt \in Nat /\ ring[p].age \in Nat /\ p \in Nat
  BY DEF TypeOK, Packets, None, Places
<1>2. sent \in Seq([pkt : Packets, age : 0 .. Old])
  BY DEF TypeOK
<1>3. Len(sent) \in Nat /\ DOMAIN sent = 1 .. Len(sent)
  BY <1>2, LenProperties
<1>4. \A j \in DOMAIN sent : sent[j] \in [pkt : Packets, age : 0 .. Old]
  BY <1>2, <1>3, ElementOfSeq
<1>5. \A j \in DOMAIN sent : sent[j].pkt \in Nat /\ sent[j].age \in Nat
  BY <1>4 DEF Packets
<1> QED
  BY <1>1, <1>3, <1>5 DEF TypeOK

\* Most steps leave the order alone.
LEMMA OrderFrame ==
    ASSUME TypeOK, OrderInv, UNCHANGED <<head, tail, arrived, sent>>,
           spc' = "put" <=> spc = "put",
           \A p \in Places : ring'[p].pkt = ring[p].pkt
    PROVE  OrderInv'
<1>1. Handled' = Handled
  BY DEF Handled
<1>2. \A p \in Places : Pos(p)' = Pos(p) /\ (Pending(p)' <=> Pending(p))
  BY DEF Pending, Pos, From
<1>3. head \in Places
  BY DEF TypeOK
<1>4. /\ \A p \in Places : Pending(p)' => ring'[p].pkt \in 1 .. Handled'
      /\ \A p, q \in Places : Pending(q)' /\ Pos(p)' < Pos(q)' => ring'[p].pkt < ring'[q].pkt
  BY <1>1, <1>2 DEF OrderInv
<1>5. \A j \in DOMAIN sent' :
          /\ sent'[j].pkt <= Handled'
          /\ \A p \in Places : Pending(p)' => sent'[j].pkt < ring'[p].pkt
  BY <1>1, <1>2 DEF OrderInv
<1> QED
  BY <1>3, <1>4, <1>5 DEF OrderInv, SentInOrder

LEMMA OrderStep == IInv /\ [Next]_vars => OrderInv'
<1> SUFFICES ASSUME IInv, [Next]_vars PROVE OrderInv'
  OBVIOUS
<1> USE ConstantsAssumption
<1>0. /\ TypeOK /\ OrderInv
      /\ head \in Places /\ tail \in Places /\ arrived \in Nat
      /\ \A p \in Places : ring[p].pkt \in Nat
      /\ Len(sent) \in Nat /\ DOMAIN sent = 1 .. Len(sent)
      /\ \A j \in DOMAIN sent : sent[j].pkt \in Nat
  BY Numbers DEF IInv
<1>1. CASE \/ SLoop \/ SNothing \/ SClosed \/ SLeave
           \/ DLoop \/ DWait \/ DWake \/ DSpurious \/ DLeave
           \/ StopHandler \/ UNCHANGED vars
  <2>1. UNCHANGED <<head, tail, ring, arrived, sent>> /\ (spc' = "put" <=> spc = "put")
    BY <1>1 DEF SLoop, SNothing, SClosed, SLeave, DLoop, DWait, DWake, DSpurious, DLeave,
                StopHandler, vars
  <2> QED
    BY <1>0, <2>1, OrderFrame
<1>2. CASE Tick
  <2>1. UNCHANGED <<head, tail, arrived, sent, spc>>
    BY <1>2 DEF Tick
  <2>2. \A p \in Places : ring'[p].pkt = ring[p].pkt
    BY <1>0, <1>2 DEF Tick, TypeOK
  <2> QED
    BY <1>0, <2>1, <2>2, OrderFrame
<1>3. CASE SDelayed \/ SAtOnce
  <2>1. /\ UNCHANGED <<head, tail, sent>> /\ arrived' = arrived + 1 /\ spc = "receive"
        /\ ring' = [ring EXCEPT ![head].pkt = arrived']
    BY <1>3 DEF SDelayed, SAtOnce, Receive
  <2>2. /\ ring'[head].pkt = arrived'
        /\ \A p \in Places : p # head => ring'[p].pkt = ring[p].pkt
    BY <1>0, <2>1 DEF TypeOK
  <2>3. \A p \in Places : Pos(p)' = Pos(p) /\ (Pending(p)' <=> Pending(p))
    BY <2>1 DEF Pending, Pos, From
  <2>4. \A p \in Places : Pending(p) => p # head
    BY <1>0 DEF Pending, Pos, From, Places
  <2>5. \A p, q \in Places : Pending(q) /\ Pos(p) < Pos(q) => Pending(p)
    BY <1>0 DEF Pending, Pos, From, Places
  <2>6. Handled = arrived /\ arrived <= Handled' /\ Handled' \in Nat
    BY <1>0, <2>1 DEF Handled
  <2>7. \A p \in Places : Pending(p)' => ring'[p].pkt \in 1 .. Handled'
    BY <1>0, <2>2, <2>3, <2>4, <2>6 DEF OrderInv
  <2>8. \A p, q \in Places : Pending(q)' /\ Pos(p)' < Pos(q)' => ring'[p].pkt < ring'[q].pkt
    BY <1>0, <2>2, <2>3, <2>4, <2>5 DEF OrderInv
  <2>9. \A j \in DOMAIN sent' :
          /\ sent'[j].pkt <= Handled'
          /\ \A p \in Places : Pending(p)' => sent'[j].pkt < ring'[p].pkt
    BY <1>0, <2>1, <2>2, <2>3, <2>4, <2>6 DEF OrderInv
  <2>10. SentInOrder'
    BY <1>0, <2>1 DEF OrderInv, SentInOrder
  <2>11. ring'[head'].pkt = arrived' /\ arrived' # 0
    BY <1>0, <2>1, <2>2
  <2> QED
    BY <2>7, <2>8, <2>9, <2>10, <2>11 DEF OrderInv
<1>4. CASE SPut
  <2>1. /\ UNCHANGED <<tail, arrived, sent>> /\ head' = After(head)
        /\ spc = "put" /\ spc' = "loop"
        /\ \A p \in Places : ring'[p].pkt = ring[p].pkt
    BY <1>0, <1>4 DEF SPut, TypeOK
  <2>2. /\ \A p \in Places : Pos(p)' = Pos(p)
        /\ \A p \in Places : Pending(p)' => Pending(p) \/ p = head
    <3>1. \A p \in Places : Pos(p)' = Pos(p)
      BY <2>1 DEF Pos, From
    <3>2. \A p \in Places : Pending(p)' <=> From(tail, p) < From(tail, After(head))
      BY <2>1 DEF Pending, Pos, From
    <3> QED
      BY <1>0, <3>1, <3>2, HeadMoves DEF Pending, Pos
  <2>3. /\ Handled = arrived - 1 /\ Handled' = arrived
        /\ ring[head].pkt = arrived /\ arrived # 0
    BY <1>0, <2>1 DEF Handled, OrderInv
  <2>4. \A p \in Places : Pending(p)' => ring'[p].pkt \in 1 .. Handled'
    BY <1>0, <2>1, <2>2, <2>3 DEF OrderInv
  <2>5. ASSUME NEW p \in Places, NEW q \in Places, Pending(q)', Pos(p)' < Pos(q)'
        PROVE  ring'[p].pkt < ring'[q].pkt
    <3>1. Pos(p) < Pos(q) /\ (Pending(q) \/ q = head)
      BY <2>2, <2>5
    <3>2. CASE Pending(q)
      BY <1>0, <2>1, <3>1, <3>2 DEF OrderInv
    <3>3. CASE q = head
      <4>1. Pending(p)
        BY <3>1, <3>3 DEF Pending
      <4> QED
        BY <1>0, <2>1, <2>3, <3>3, <4>1 DEF OrderInv
    <3> QED
      BY <3>1, <3>2, <3>3
  <2>6. \A j \in DOMAIN sent' :
          /\ sent'[j].pkt <= Handled'
          /\ \A p \in Places : Pending(p)' => sent'[j].pkt < ring'[p].pkt
    BY <1>0, <2>1, <2>2, <2>3 DEF OrderInv
  <2>7. SentInOrder'
    BY <1>0, <2>1 DEF OrderInv, SentInOrder
  <2> QED
    BY <2>1, <2>4, <2>5, <2>6, <2>7 DEF OrderInv
<1>5. CASE DSend
  <2>1. /\ UNCHANGED <<head, arrived, spc>> /\ tail' = After(tail) /\ tail # head
        /\ \A p \in Places : ring'[p].pkt = ring[p].pkt
    BY <1>0, <1>5 DEF DSend, Due, Queued, TypeOK
  <2>2. /\ DOMAIN sent' = 1 .. Len(sent) + 1
        /\ sent'[Len(sent) + 1].pkt = ring[tail].pkt
        /\ \A j \in 1 .. Len(sent) : sent'[j] = sent[j]
    BY <1>0, <1>5, SentGrows
  <2>3. Pending(tail) /\ (\A p \in Places : p # tail => Pos(tail) < Pos(p))
    BY <1>0, <2>1, TailMoves DEF Pending, Pos
  <2>4. /\ \A p \in Places : Pending(p)' => p # tail /\ Pending(p)
        /\ \A p, q \in Places : p # tail /\ q # tail /\ Pos(p)' < Pos(q)' => Pos(p) < Pos(q)
    <3>1. \A p \in Places : Pos(p)' = From(After(tail), p)
      BY <2>1 DEF Pos, From
    <3>2. Pos(head)' = From(After(tail), head)
      BY <2>1 DEF Pos, From
    <3> QED
      BY <1>0, <2>1, <3>1, <3>2, TailMoves DEF Pending, Pos
  <2>5. \A p, q \in Places : Pending(q)' /\ Pos(p)' < Pos(q)' => Pending(p)'
    <3>1. tail' \in Places /\ head' \in Places
      BY <1>0, <2>1, AfterWraps
    <3>2. \A p \in Places : Pos(p)' \in Int
      BY <3>1 DEF Pos, From, Places
    <3> QED
      BY <3>1, <3>2 DEF Pending
  <2>6. Handled' = Handled /\ Handled \in Int
    BY <1>0, <2>1 DEF Handled
  <2>7. \A p \in Places : Pending(p)' => ring'[p].pkt \in 1 .. Handled'
    BY <1>0, <2>1, <2>4, <2>6 DEF OrderInv
  <2>8. \A p, q \in Places : Pending(q)' /\ Pos(p)' < Pos(q)' => ring'[p].pkt < ring'[q].pkt
    BY <1>0, <2>1, <2>4, <2>5 DEF OrderInv
  <2>9. ring[tail].pkt <= Handled
    BY <1>0, <2>3, <2>6 DEF OrderInv
  <2>10. \A p \in Places : Pending(p)' => ring[tail].pkt < ring'[p].pkt
    BY <1>0, <2>1, <2>3, <2>4 DEF OrderInv
  <2>11. \A j \in 1 .. Len(sent) :
            /\ sent[j].pkt <= Handled /\ sent[j].pkt < ring[tail].pkt
            /\ \A p \in Places : Pending(p)' => sent[j].pkt < ring'[p].pkt
    BY <1>0, <2>1, <2>3, <2>4 DEF OrderInv
  <2>12. ASSUME NEW j \in DOMAIN sent'
         PROVE  /\ sent'[j].pkt <= Handled'
                /\ \A p \in Places : Pending(p)' => sent'[j].pkt < ring'[p].pkt
    <3>1. j \in 1 .. Len(sent) \/ j = Len(sent) + 1
      BY <1>0, <2>2
    <3> QED
      BY <2>2, <2>6, <2>9, <2>10, <2>11, <3>1
  <2>13. ASSUME NEW j \in DOMAIN sent', NEW k \in DOMAIN sent', j < k
         PROVE  sent'[j].pkt < sent'[k].pkt
    <3>1. j \in 1 .. Len(sent) /\ (k \in 1 .. Len(sent) \/ k = Len(sent) + 1)
      BY <1>0, <2>2, <2>13
    <3>2. sent'[j] = sent[j]
      BY <2>2, <3>1
    <3>3. CASE k \in 1 .. Len(sent)
      <4>1. sent'[k] = sent[k] /\ sent[j].pkt < sent[k].pkt
        BY <1>0, <2>2, <2>13, <3>1, <3>3 DEF OrderInv, SentInOrder
      <4> QED
        BY <3>2, <4>1
    <3>4. CASE k = Len(sent) + 1
      BY <2>2, <2>11, <3>1, <3>2, <3>4
    <3> QED
      BY <3>1, <3>3, <3>4
  <2>14. SentInOrder'
    BY <2>13 DEF SentInOrder
  <2>15. spc' = "put" => ring'[head'].pkt = arrived' /\ arrived' # 0
    BY <1>0, <2>1 DEF OrderInv
  <2> QED
    BY <2>7, <2>8, <2>12, <2>14, <2>15 DEF OrderInv
<1> QED
  BY <1>1, <1>2, <1>3, <1>4, <1>5 DEF Next, Sniffer, Delayer

-----------------------------------------------------------------------------
(* Time.                                                                   *)

\* A clock that counts goes on by one, or stands at Old.
LEMMA Clocks ==
    ASSUME NEW a \in Nat
    PROVE  /\ Older(a) \in Nat /\ Older(a) >= a /\ Older(a) <= a + 1
           /\ a < Old => Older(a) = a + 1
           /\ \A b \in Nat : a <= b => Older(a) <= Older(b)
BY ConstantsAssumption DEF Older, Old

\* Most steps leave ages alone.
LEMMA TimeFrame ==
    ASSUME TypeOK, TimeInv, UNCHANGED <<head, tail, sent, late>>,
           spc' = "put" => held' = 0 \/ (spc = "put" /\ held' = held),
           dpc' = "wait" => dpc = "wait" /\ waited' = waited,
           dpc' # "ended" => dpc # "ended",
           \A p \in Places : Pending(p) => ring'[p].age = ring[p].age /\ ring'[p].valid = ring[p].valid
    PROVE  TimeInv'
<1>1. \A p \in Places : Pos(p)' = Pos(p) /\ (Pending(p)' <=> Pending(p))
  BY DEF Pending, Pos, From
<1>2. \A p, q \in Places : Pending(q) /\ Pos(p) < Pos(q) => Pending(p)
  <2>1. head \in Places /\ tail \in Places
    BY DEF TypeOK
  <2> QED
    BY ConstantsAssumption, <2>1 DEF Pending, Pos, From, Places
<1>3. /\ \A p \in Places : Pending(p)' => ring'[p].valid
      /\ \A j \in DOMAIN sent' : sent'[j].age >= Delay
  BY <1>1 DEF TimeInv
<1>4. ASSUME ~late' PROVE Punctual'
  <2>1. Punctual
    BY <1>4 DEF TimeInv
  <2>2. \A p, q \in Places : Pending(q)' /\ Pos(p)' < Pos(q)' => ring'[p].age >= ring'[q].age
    BY <1>1, <1>2, <2>1 DEF Punctual
  <2>3. /\ \A p \in Places : Pending(p)' /\ dpc' = "wait" => ring'[p].age < Delay + waited'
        /\ \A p \in Places : Pending(p)' /\ dpc' # "ended" => ring'[p].age < 2 * Delay
    BY <1>1, <2>1 DEF Punctual
  <2>4. \A j \in DOMAIN sent' : sent'[j].age < 2 * Delay
    BY <2>1 DEF Punctual
  <2> QED
    BY <2>1, <2>2, <2>3, <2>4 DEF Punctual
<1> QED
  BY <1>3, <1>4 DEF TimeInv

LEMMA TimeStep == IInv /\ [Next]_vars => TimeInv'
<1> SUFFICES ASSUME IInv, [Next]_vars PROVE TimeInv'
  OBVIOUS
<1> USE ConstantsAssumption
<1>0. /\ TypeOK /\ TimeInv
      /\ head \in Places /\ tail \in Places /\ held \in Nat /\ waited \in Nat
      /\ \A p \in Places : ring[p].age \in Nat
      /\ Len(sent) \in Nat /\ DOMAIN sent = 1 .. Len(sent)
      /\ \A j \in DOMAIN sent : sent[j].age \in Nat
  BY Numbers DEF IInv
<1>a. \A p \in Places : Pending(p) => p # head
  BY <1>0 DEF Pending, Pos, From, Places
<1>b. \A p, q \in Places : Pending(q) /\ Pos(p) < Pos(q) => Pending(p)
  BY <1>0 DEF Pending, Pos, From, Places
<1>1. CASE \/ SLoop \/ SNothing \/ SClosed \/ SLeave
           \/ DLoop \/ DWake \/ DSpurious \/ DLeave
           \/ StopHandler \/ UNCHANGED vars
  <2>1. /\ UNCHANGED <<head, tail, ring, sent, late, held>>
        /\ spc' = "put" => spc = "put"
        /\ dpc' = "wait" => dpc = "wait" /\ waited' = waited
        /\ dpc' # "ended" => dpc # "ended"
    BY <1>1 DEF SLoop, SNothing, SClosed, SLeave, DLoop, DWake, DSpurious, DLeave,
                StopHandler, vars
  <2> QED
    BY <1>0, <2>1, TimeFrame
<1>2. CASE SDelayed \/ SAtOnce
  <2>1. /\ UNCHANGED <<head, tail, sent, late, dpc, waited>>
        /\ spc' = "put" => held' = 0
        /\ ring' = [ring EXCEPT ![head].pkt = arrived']
    BY <1>2 DEF SDelayed, SAtOnce, Receive
  <2>2. \A p \in Places : p # head => ring'[p] = ring[p]
    BY <1>0, <2>1 DEF TypeOK
  <2> QED
    BY <1>0, <1>a, <2>1, <2>2, TimeFrame
<1>3. CASE DWait
  <2>1. /\ UNCHANGED <<head, tail, ring, sent, late, spc, held>>
        /\ dpc = "send" /\ ~Due /\ dpc' = "wait" /\ waited' = 0
    BY <1>3 DEF DWait
  <2>2. \A p \in Places : Pos(p)' = Pos(p) /\ (Pending(p)' <=> Pending(p))
    BY <2>1 DEF Pending, Pos, From
  <2>3. /\ \A p \in Places : Pending(p)' => ring'[p].valid
        /\ \A j \in DOMAIN sent' : sent'[j].age >= Delay
    BY <1>0, <2>1, <2>2 DEF TimeInv
  <2>4. ASSUME ~late' PROVE Punctual'
    <3>1. Punctual
      BY <1>0, <2>1, <2>4 DEF TimeInv
    <3>2. ASSUME NEW p \in Places, Pending(p) PROVE ring[p].age < Delay
      <4>1. tail # head
        BY <1>0, <3>2 DEF Pending, Pos, From, Places
      <4>2. Pending(tail) /\ (p # tail => Pos(tail) < Pos(p))
        BY <1>0, <4>1, TailMoves DEF Pending, Pos
      <4>3. ring[tail].age < Delay
        BY <1>0, <2>1, <4>1, <4>2 DEF Due, Queued, Aged, TimeInv
      <4>4. ring[tail].age >= ring[p].age
        BY <1>0, <3>1, <3>2, <4>2 DEF Punctual
      <4> QED
        BY <1>0, <4>3, <4>4
    <3>3. \A p, q \in Places : Pending(q)' /\ Pos(p)' < Pos(q)' => ring'[p].age >= ring'[q].age
      BY <2>1, <2>2, <3>1 DEF Punctual
    <3>4. \A p \in Places : Pending(p)' => ring'[p].age < Delay + waited' /\ ring'[p].age < 2 * Delay
      BY <1>0, <2>1, <2>2, <3>2
    <3>5. /\ spc' = "put" => held' = 0
          /\ \A j \in DOMAIN sent' : sent'[j].age < 2 * Delay
      BY <2>1, <3>1 DEF Punctual
    <3> QED
      BY <2>1, <3>3, <3>4, <3>5 DEF Punctual
  <2> QED
    BY <2>3, <2>4 DEF TimeInv
<1>4. CASE SPut
  <2>1. /\ UNCHANGED <<tail, sent, late, dpc, waited>> /\ head' = After(head)
        /\ spc = "put" /\ spc' = "loop"
        /\ ring'[head].age = held /\ ring'[head].valid = TRUE
        /\ \A p \in Places : p # head => ring'[p] = ring[p]
    BY <1>0, <1>4 DEF SPut, TypeOK
  <2>2. /\ \A p \in Places : Pos(p)' = Pos(p)
        /\ \A p \in Places : Pending(p)' => Pending(p) \/ p = head
    <3>1. \A p \in Places : Pos(p)' = Pos(p)
      BY <2>1 DEF Pos, From
    <3>2. \A p \in Places : Pending(p)' <=> From(tail, p) < From(tail, After(head))
      BY <2>1 DEF Pending, Pos, From
    <3> QED
      BY <1>0, <3>1, <3>2, HeadMoves DEF Pending, Pos
  <2>3. /\ \A p \in Places : Pending(p)' => ring'[p].valid
        /\ \A j \in DOMAIN sent' : sent'[j].age >= Delay
    BY <1>0, <2>1, <2>2 DEF TimeInv
  <2>4. ASSUME ~late' PROVE Punctual'
    <3>1. Punctual /\ held = 0
      BY <1>0, <2>1, <2>4 DEF TimeInv, Punctual
    <3>2. ASSUME NEW p \in Places, NEW q \in Places, Pending(q)', Pos(p)' < Pos(q)'
          PROVE  ring'[p].age >= ring'[q].age
      <4>1. Pos(p) < Pos(q) /\ (Pending(q) \/ q = head)
        BY <2>2, <3>2
      <4>2. CASE Pending(q)
        <5>1. p # head /\ q # head
          BY <1>a, <1>b, <4>1, <4>2
        <5> QED
          BY <2>1, <3>1, <4>1, <4>2, <5>1 DEF Punctual
      <4>3. CASE q = head
        <5>1. p # head
          BY <1>0, <4>1, <4>3 DEF Pos, From, Places
        <5> QED
          BY <1>0, <2>1, <3>1, <4>3, <5>1
      <4> QED
        BY <4>1, <4>2, <4>3
    <3>3. ASSUME NEW p \in Places, Pending(p)'
          PROVE  /\ dpc' = "wait" => ring'[p].age < Delay + waited'
                 /\ dpc' # "ended" => ring'[p].age < 2 * Delay
      <4>1. CASE p = head
        BY <1>0, <2>1, <3>1, <4>1
      <4>2. CASE p # head
        BY <2>1, <2>2, <3>1, <3>3, <4>2 DEF Punctual
      <4> QED
        BY <4>1, <4>2
    <3>4. \A j \in DOMAIN sent' : sent'[j].age < 2 * Delay
      BY <2>1, <3>1 DEF Punctual
    <3> QED
      BY <2>1, <3>1, <3>2, <3>3, <3>4 DEF Punctual
  <2> QED
    BY <2>3, <2>4 DEF TimeInv
<1>5. CASE DSend
  <2>1. /\ UNCHANGED <<head, spc, held, dpc, waited, late>>
        /\ tail' = After(tail) /\ tail # head
        /\ dpc = "send" /\ ring[tail].age >= Delay
        /\ \A p \in Places : p # tail => ring'[p] = ring[p]
    BY <1>0, <1>5 DEF DSend, Due, Queued, Aged, TypeOK
  <2>2. /\ DOMAIN sent' = 1 .. Len(sent) + 1
        /\ sent'[Len(sent) + 1].age = ring[tail].age
        /\ \A j \in 1 .. Len(sent) : sent'[j] = sent[j]
    BY <1>0, <1>5, SentGrows DEF IInv
  <2>3. Pending(tail)
    BY <1>0, <2>1, TailMoves DEF Pending, Pos
  <2>4. /\ \A p \in Places : Pending(p)' => p # tail /\ Pending(p)
        /\ \A p, q \in Places : p # tail /\ q # tail /\ Pos(p)' < Pos(q)' => Pos(p) < Pos(q)
    <3>1. \A p \in Places : Pos(p)' = From(After(tail), p)
      BY <2>1 DEF Pos, From
    <3>2. Pos(head)' = From(After(tail), head)
      BY <2>1 DEF Pos, From
    <3> QED
      BY <1>0, <2>1, <3>1, <3>2, TailMoves DEF Pending, Pos
  <2>5. \A p, q \in Places : Pending(q)' /\ Pos(p)' < Pos(q)' => Pending(p)'
    <3>1. tail' \in Places /\ head' \in Places
      BY <1>0, <2>1, AfterWraps
    <3>2. \A p \in Places : Pos(p)' \in Int
      BY <3>1 DEF Pos, From, Places
    <3> QED
      BY <3>1, <3>2 DEF Pending
  <2>6. \A j \in DOMAIN sent' : j \in 1 .. Len(sent) \/ j = Len(sent) + 1
    BY <1>0, <2>2
  <2>7. /\ \A p \in Places : Pending(p)' => ring'[p].valid
        /\ \A j \in DOMAIN sent' : sent'[j].age >= Delay
    BY <1>0, <2>1, <2>2, <2>4, <2>6 DEF TimeInv
  <2>8. ASSUME ~late' PROVE Punctual'
    <3>1. Punctual
      BY <1>0, <2>1, <2>8 DEF TimeInv
    <3>2. \A p, q \in Places : Pending(q)' /\ Pos(p)' < Pos(q)' => ring'[p].age >= ring'[q].age
      BY <2>1, <2>4, <2>5, <3>1 DEF Punctual
    <3>3. \A p \in Places : Pending(p)' => ring'[p].age < 2 * Delay
      BY <2>1, <2>4, <3>1 DEF Punctual
    <3>4. \A j \in DOMAIN sent' : sent'[j].age < 2 * Delay
      BY <1>0, <2>1, <2>2, <2>3, <2>6, <3>1 DEF Punctual
    <3> QED
      BY <2>1, <3>1, <3>2, <3>3, <3>4 DEF Punctual
  <2> QED
    BY <2>7, <2>8 DEF TimeInv
<1>6. CASE Tick
  <2>1. /\ UNCHANGED <<head, tail, sent, spc, dpc>>
        /\ late' = (late \/ Overdue)
        /\ waited' = OlderIf(dpc = "wait", waited)
        /\ \A p \in Places : /\ ring'[p].valid = ring[p].valid
                             /\ ring[p].valid => ring'[p].age = Older(ring[p].age)
    BY <1>0, <1>6 DEF Tick, TypeOK, OlderIf
  <2>2. \A p \in Places : Pos(p)' = Pos(p) /\ (Pending(p)' <=> Pending(p))
    BY <2>1 DEF Pending, Pos, From
  <2>3. \A p \in Places : Pending(p) => ring[p].valid /\ ring'[p].age = Older(ring[p].age)
    BY <1>0, <2>1 DEF TimeInv
  <2>4. /\ \A p \in Places : Pending(p)' => ring'[p].valid
        /\ \A j \in DOMAIN sent' : sent'[j].age >= Delay
    BY <1>0, <2>1, <2>2, <2>3 DEF TimeInv
  <2>5. ASSUME ~late' PROVE Punctual'
    <3>1. ~late /\ ~Overdue
      BY <2>1, <2>5, Zenon
    <3>2. Punctual
      BY <1>0, <3>1 DEF TimeInv
    <3>3. spc # "put" /\ dpc \in {"wait", "ended"} /\ (dpc = "wait" => waited < Delay)
      BY <1>0, <3>1 DEF Overdue, Expired, TypeOK
    <3>4. ASSUME NEW p \in Places, NEW q \in Places, Pending(q)', Pos(p)' < Pos(q)'
          PROVE  ring'[p].age >= ring'[q].age
      <4>1. Pending(q) /\ Pending(p) /\ ring[p].age >= ring[q].age
        BY <1>b, <2>2, <3>2, <3>4 DEF Punctual
      <4>2. ring[p].age \in Nat /\ ring[q].age \in Nat /\ ring[q].age <= ring[p].age
        BY <1>0, <4>1
      <4>3. Older(ring[q].age) <= Older(ring[p].age)
        BY <4>2, Clocks
      <4>4. ring'[p].age = Older(ring[p].age) /\ ring'[q].age = Older(ring[q].age)
        BY <2>3, <4>1
      <4>5. Older(ring[p].age) \in Nat /\ Older(ring[q].age) \in Nat
        BY <4>2, Clocks
      <4> QED
        BY <4>3, <4>4, <4>5
    <3>5. dpc = "wait" => waited' = waited + 1 /\ waited' <= Delay
      <4>1. waited < Delay => waited < Old
        BY <1>0 DEF Old
      <4> QED
        BY <1>0, <2>1, <3>3, <4>1, Clocks DEF OlderIf
    <3>6. ASSUME NEW p \in Places, Pending(p)', dpc' = "wait"
          PROVE  ring'[p].age < Delay + waited' /\ ring'[p].age < 2 * Delay
      <4>1. Pending(p) /\ dpc = "wait" /\ ring[p].age < Delay + waited
        BY <2>1, <2>2, <3>2, <3>6 DEF Punctual
      <4>2. ring'[p].age <= ring[p].age + 1 /\ ring'[p].age \in Nat
        BY <1>0, <2>3, <4>1, Clocks
      <4> QED
        BY <1>0, <3>3, <3>5, <4>1, <4>2
    <3>7. \A j \in DOMAIN sent' : sent'[j].age < 2 * Delay
      BY <2>1, <3>2 DEF Punctual
    <3> QED
      BY <2>1, <3>3, <3>4, <3>5, <3>6, <3>7 DEF Punctual
  <2> QED
    BY <2>4, <2>5 DEF TimeInv
<1> QED
  BY <1>1, <1>2, <1>3, <1>4, <1>5, <1>6 DEF Next, Sniffer, Delayer

-----------------------------------------------------------------------------
(* The theorems.                                                           *)

\* IInv is an invariant: types, order and ages hold each other up.
THEOREM Inductive == Spec => []IInv
<1>1. Init => IInv
  <2> SUFFICES ASSUME Init PROVE IInv
    OBVIOUS
  <2> USE ConstantsAssumption
  <2>1. TypeOK
    <3>1. sent \in Seq([pkt : Packets, age : 0 .. Old])
      BY EmptySeq DEF Init
    <3>2. ring \in [Places -> [pkt : Packets \cup {None}, age : 0 .. Old, valid : BOOLEAN]]
      BY DEF Init, Old
    <3>3. 0 \in Places /\ 0 \in 0 .. Old /\ 0 \in 0 .. MaxPkts
      BY DEF Places, Old
    <3> QED
      BY <3>1, <3>2, <3>3 DEF Init, TypeOK
  <2>2. DOMAIN sent = {} /\ spc = "loop" /\ dpc = "loop"
    BY EmptySeq DEF Init
  <2>3. \A p \in Places : ~Pending(p)
    BY DEF Init, Pending, Pos, From, Places
  <2> QED
    BY <2>1, <2>2, <2>3 DEF IInv, OrderInv, TimeInv, Punctual, SentInOrder
<1>2. IInv /\ [Next]_vars => IInv'
  BY TypeStep, OrderStep, TimeStep DEF IInv
<1> QED
  BY <1>1, <1>2, PTL DEF Spec

\* Every variable keeps its type, whatever the size of the ring.
THEOREM RingTypes == Spec => []TypeOK
<1>1. IInv => TypeOK
  BY DEF IInv
<1> QED
  BY <1>1, Inductive, PTL

\* Delayed packets leave in the order they arrived, each at most once, although
\* nothing keeps the head of the ring from running over its tail.
THEOREM InOrder == Spec => []SentInOrder
<1>1. IInv => SentInOrder
  BY DEF IInv, OrderInv
<1> QED
  BY <1>1, Inductive, PTL

\* No packet leaves before its delay is over, and none as late as twice the delay
\* as long as the threads are not held up.
THEOREM Timely == Spec => []OnTime
<1>1. IInv => OnTime
  <2> SUFFICES ASSUME IInv, NEW j \in DOMAIN sent
               PROVE  /\ sent[j].age >= Delay
                      /\ sent[j].age >= 2 * Delay => late
    BY DEF OnTime
  <2>1. sent[j].age \in Nat /\ 2 * Delay \in Nat
    BY Numbers, ConstantsAssumption DEF IInv
  <2>2. ~late => sent[j].age < 2 * Delay
    BY DEF IInv, TimeInv, Punctual
  <2>3. sent[j].age >= Delay
    BY DEF IInv, TimeInv
  <2> QED
    BY <2>1, <2>2, <2>3
<1> QED
  BY <1>1, Inductive, PTL

-----------------------------------------------------------------------------
(* The ring is a line.                                                     *)

\* Remainders of numbers up to twice the size.
LEMMA Wraps ==
    ASSUME NEW x \in 0 .. 2 * Size - 1
    PROVE  x % Size = IF x < Size THEN x ELSE x - Size
<1>1. CASE x < Size
  BY ConstantsAssumption, <1>1
<1>2. CASE x >= Size
  <2>1. x - Size \in 0 .. Size - 1
    BY ConstantsAssumption, <1>2
  <2>2. (x - Size) % Size = x - Size
    BY ConstantsAssumption, <2>1
  <2> QED
    BY ConstantsAssumption, <1>2, <2>1, <2>2
<1> QED
  BY ConstantsAssumption, <1>1, <1>2

\* The i-th place from the place t on.
Nth(t, i) == IF t + i - 1 < Size THEN t + i - 1 ELSE t + i - 1 - Size

\* What Waiting is for a ring r with its tail at t and its head at h.
Contents(t, h, r) == [i \in 1 .. From(t, h) |-> r[Nth(t, i)].pkt]

\* Seen from the tail, what waits is in the places before the head.
LEMMA ContentsOf ==
    ASSUME NEW t \in Places, NEW h \in Places, NEW r,
           \A p \in Places : From(t, p) < From(t, h) => r[p].pkt \in Packets,
           NEW w, w = [i \in 1 .. (h + Size - t) % Size |-> r[(t + i - 1) % Size].pkt]
    PROVE  /\ From(t, h) \in 0 .. Size - 1
           /\ w = Contents(t, h, r)
           /\ \A i \in 1 .. From(t, h) : Nth(t, i) \in Places /\ From(t, Nth(t, i)) < From(t, h)
           /\ w \in Seq(Packets) /\ Len(w) = From(t, h)
<1> USE ConstantsAssumption
<1> DEFINE n == From(t, h)
<1>1. n \in 0 .. Size - 1 /\ (h + Size - t) % Size = n
  <2>1. h + Size - t \in 0 .. 2 * Size - 1
    BY DEF Places
  <2>2. n \in 0 .. Size - 1
    BY DEF From, Places
  <2>3. PICK x \in 0 .. 2 * Size - 1 : x = h + Size - t
    BY <2>1
  <2>4. x % Size = IF x < Size THEN x ELSE x - Size
    BY Wraps
  <2>5. n = IF x < Size THEN x ELSE x - Size
    BY <2>3 DEF From, Places
  <2>6. (h + Size - t) % Size = x % Size
    BY <2>3
  <2> QED
    BY <2>2, <2>4, <2>5, <2>6
<1>2. ASSUME NEW i \in 1 .. n
      PROVE  /\ (t + i - 1) % Size = Nth(t, i)
             /\ Nth(t, i) \in Places /\ From(t, Nth(t, i)) < n
  <2>1. t + i - 1 \in 0 .. 2 * Size - 1 /\ i \in 1 .. Size - 1
    BY <1>1 DEF Places
  <2>2. Nth(t, i) \in Places /\ From(t, Nth(t, i)) = i - 1
    BY <2>1 DEF Nth, Places, From
  <2>3. (t + i - 1) % Size = Nth(t, i)
    <3>1. PICK x \in 0 .. 2 * Size - 1 : x = t + i - 1
      BY <2>1
    <3>2. x % Size = IF x < Size THEN x ELSE x - Size
      BY Wraps
    <3>3. (t + i - 1) % Size = x % Size
      BY <3>1
    <3>4. Nth(t, i) = IF x < Size THEN x ELSE x - Size
      BY <2>1, <3>1 DEF Nth, Places
    <3> QED
      BY <3>2, <3>3, <3>4
  <2> QED
    BY <1>1, <2>2, <2>3
<1>3. w = Contents(t, h, r)
  BY <1>1, <1>2 DEF Contents
<1>4. \A i \in 1 .. n : r[Nth(t, i)].pkt \in Packets
  BY <1>2
<1> HIDE DEF n
<1>5. Contents(t, h, r) \in Seq(Packets) /\ Len(Contents(t, h, r)) = n
  BY <1>1, <1>4 DEF Contents, n
<1> QED
  BY <1>1, <1>2, <1>3, <1>5 DEF n

\* So it is in the ring as it is ...
LEMMA WaitingIs ==
    ASSUME TypeOK, OrderInv
    PROVE  /\ From(tail, head) \in 0 .. Size - 1
           /\ Waiting = Contents(tail, head, ring)
           /\ \A i \in 1 .. From(tail, head) : Nth(tail, i) \in Places /\ Pending(Nth(tail, i))
           /\ Waiting \in Seq(Packets) /\ Len(Waiting) = From(tail, head)
<1>1. tail \in Places /\ head \in Places
  BY DEF TypeOK
<1>2. \A p \in Places : From(tail, p) < From(tail, head) => ring[p].pkt \in Packets
  BY ConstantsAssumption DEF OrderInv, Pending, Pos, Handled, Packets, TypeOK
<1>3. Waiting = [i \in 1 .. (head + Size - tail) % Size |-> ring[(tail + i - 1) % Size].pkt]
  BY DEF Waiting
<1> QED
  BY <1>1, <1>2, <1>3, ContentsOf DEF Pending, Pos

\* ... and as it is after a step.
LEMMA WaitingNext ==
    ASSUME TypeOK', OrderInv'
    PROVE  /\ Waiting' = Contents(tail', head', ring') /\ Waiting' \in Seq(Packets)
           /\ Len(Waiting') = From(tail', head')
<1>1. tail' \in Places /\ head' \in Places
  BY DEF TypeOK
<1>2. \A p \in Places : From(tail', p) < From(tail', head') => ring'[p].pkt \in Packets
  BY ConstantsAssumption DEF OrderInv, Pending, Pos, From, Handled, Packets, TypeOK
<1>3. Waiting' = [i \in 1 .. (head' + Size - tail') % Size |-> ring'[(tail' + i - 1) % Size].pkt]
  BY DEF Waiting
<1> QED
  BY <1>1, <1>2, <1>3, ContentsOf

\* The packets of what went out.
LEMMA PktsOf ==
    ASSUME NEW s \in Seq([pkt : Packets, age : 0 .. Old]), NEW q, q = [i \in DOMAIN s |-> s[i].pkt]
    PROVE  /\ q \in Seq(Packets) /\ Len(q) = Len(s) /\ Len(s) \in Nat
           /\ \A i \in 1 .. Len(s) : q[i] = s[i].pkt
<1>1. Len(s) \in Nat /\ DOMAIN s = 1 .. Len(s)
  BY LenProperties
<1>2. \A i \in 1 .. Len(s) : s[i].pkt \in Packets
  <2>1. \A i \in 1 .. Len(s) : s[i] \in [pkt : Packets, age : 0 .. Old]
    BY ElementOfSeq
  <2> QED
    BY <2>1
<1>3. q = [i \in 1 .. Len(s) |-> s[i].pkt]
  BY <1>1
<1> QED
  BY <1>1, <1>2, <1>3

\* A step that touches no place that waits leaves the line alone.
LEMMA LineFrame ==
    ASSUME TypeOK, OrderInv, TypeOK', OrderInv', UNCHANGED <<head, tail, sent>>,
           \A p \in Places : Pending(p) => ring'[p].pkt = ring[p].pkt
    PROVE  UNCHANGED <<Waiting, SentPkts>>
<1>1. Contents(tail', head', ring') = Contents(tail, head, ring)
  BY WaitingIs DEF Contents
<1> QED
  BY <1>1, WaitingIs, WaitingNext DEF SentPkts

\* Queueing the packet in hand puts it into the line.
LEMMA PutStep == ASSUME IInv, SPut, IInv' PROVE Line!Put
<1> USE ConstantsAssumption
<1>0. TypeOK /\ OrderInv /\ head \in Places /\ tail \in Places
  BY DEF IInv, TypeOK
<1>1. /\ tail' = tail /\ sent' = sent /\ head' = After(head)
      /\ \A p \in Places : ring'[p].pkt = ring[p].pkt
  BY <1>0 DEF SPut, TypeOK
<1>2. ring[head].pkt \in Packets
  BY <1>0 DEF SPut, OrderInv, TypeOK, Packets
<1>3. PICK n \in 0 .. Size - 1 : n = From(tail, head)
  BY <1>0, WaitingIs
<1>4. /\ Waiting = [i \in 1 .. n |-> ring[Nth(tail, i)].pkt]
      /\ \A i \in 1 .. n : Nth(tail, i) \in Places
      /\ Waiting \in Seq(Packets) /\ Len(Waiting) = n
  BY <1>0, <1>3, WaitingIs DEF Contents
<1>5. From(tail', head') = IF n + 1 = Size THEN 0 ELSE n + 1
  <2>1. head' = IF head = Size - 1 THEN 0 ELSE head + 1
    BY <1>0, <1>1, AfterWraps
  <2> QED
    BY <1>0, <1>1, <1>3, <2>1 DEF From, Places
<1>6. /\ Waiting' = [i \in 1 .. From(tail', head') |-> ring'[Nth(tail', i)].pkt]
      /\ Waiting' \in Seq(Packets) /\ Len(Waiting') = From(tail', head')
  <2>1. TypeOK' /\ OrderInv'
    BY DEF IInv
  <2> QED
    BY <2>1, WaitingNext DEF Contents
<1>7. SentPkts' = SentPkts
  BY <1>1 DEF SentPkts
<1>8. CASE n + 1 = Size
  <2>1. Waiting' = <<>>
    BY <1>5, <1>6, <1>8, EmptySeq
  <2> QED
    BY <1>2, <1>4, <1>7, <1>8, <2>1 DEF Line!Put
<1>9. CASE n + 1 # Size
  <2>1. Nth(tail, n + 1) = head
    BY <1>0, <1>3 DEF Nth, From, Places
  <2>2. /\ Append(Waiting, ring[head].pkt) \in Seq(Packets)
        /\ Len(Append(Waiting, ring[head].pkt)) = n + 1
        /\ \A i \in 1 .. n : Append(Waiting, ring[head].pkt)[i] = Waiting[i]
        /\ Append(Waiting, ring[head].pkt)[n + 1] = ring[head].pkt
    BY <1>2, <1>4, AppendProperties
  <2>3. \A i \in 1 .. n + 1 : Waiting'[i] = Append(Waiting, ring[head].pkt)[i]
    <3>1. \A i \in 1 .. n + 1 : Waiting'[i] = ring'[Nth(tail, i)].pkt
      BY <1>1, <1>5, <1>6, <1>9
    <3>2. \A i \in 1 .. n : Waiting[i] = ring[Nth(tail, i)].pkt
      BY <1>4
    <3> QED
      BY <1>0, <1>1, <1>4, <2>1, <2>2, <3>1, <3>2
  <2>4. Waiting' = Append(Waiting, ring[head].pkt)
    BY <1>5, <1>6, <1>9, <2>2, <2>3, SeqEqual
  <2> QED
    BY <1>2, <1>4, <1>7, <1>9, <2>4 DEF Line!Put
<1> QED
  BY <1>8, <1>9

\* Sending the packet at the tail takes the first one out of the line.
LEMMA SendStep == ASSUME IInv, DSend, IInv' PROVE Line!Send
<1> USE ConstantsAssumption
<1>0. TypeOK /\ OrderInv /\ TypeOK' /\ OrderInv' /\ head \in Places /\ tail \in Places
  BY DEF IInv, TypeOK
<1>1. /\ head' = head /\ tail' = After(tail) /\ tail # head
      /\ \A p \in Places : ring'[p].pkt = ring[p].pkt
  BY <1>0 DEF DSend, Due, Queued, TypeOK
<1>2. PICK n \in 0 .. Size - 1 : n = From(tail, head)
  BY <1>0, WaitingIs
<1>3. /\ Waiting = [i \in 1 .. n |-> ring[Nth(tail, i)].pkt]
      /\ \A i \in 1 .. n : Nth(tail, i) \in Places
      /\ Waiting \in Seq(Packets) /\ Len(Waiting) = n
  BY <1>0, <1>2, WaitingIs DEF Contents
<1>4. n >= 1 /\ From(tail', head') = n - 1 /\ tail' = (IF tail = Size - 1 THEN 0 ELSE tail + 1)
  <2>1. tail' = IF tail = Size - 1 THEN 0 ELSE tail + 1
    BY <1>0, <1>1, AfterWraps
  <2> QED
    BY <1>0, <1>1, <1>2, <2>1 DEF From, Places
<1>5. /\ Waiting' = [i \in 1 .. n - 1 |-> ring'[Nth(tail', i)].pkt]
      /\ Waiting' \in Seq(Packets) /\ Len(Waiting') = n - 1
  <2>1. /\ Waiting' = [i \in 1 .. From(tail', head') |-> ring'[Nth(tail', i)].pkt]
        /\ Waiting' \in Seq(Packets) /\ Len(Waiting') = From(tail', head')
    BY <1>0, WaitingNext DEF Contents
  <2> QED
    BY <1>4, <2>1
<1>6. Waiting # <<>> /\ Head(Waiting) = ring[tail].pkt
  <2>1. Waiting # <<>> /\ Head(Waiting) = Waiting[1]
    BY <1>3, <1>4, EmptySeq
  <2>2. Nth(tail, 1) = tail
    BY <1>0 DEF Nth, Places
  <2> QED
    BY <1>3, <1>4, <2>1, <2>2
<1>7. Waiting' = Tail(Waiting)
  <2>1. /\ Tail(Waiting) \in Seq(Packets) /\ Len(Tail(Waiting)) = n - 1
        /\ \A i \in 1 .. n - 1 : Tail(Waiting)[i] = Waiting[i + 1]
    BY <1>3, <1>6, HeadTailProperties
  <2>2. ASSUME NEW i \in 1 .. n - 1 PROVE Waiting'[i] = Tail(Waiting)[i]
    <3>1. Nth(tail', i) = Nth(tail, i + 1) /\ i + 1 \in 1 .. n
      BY <1>0, <1>4, <2>2 DEF Nth, Places
    <3>2. Waiting'[i] = ring'[Nth(tail', i)].pkt
      BY <1>5
    <3>3. Waiting[i + 1] = ring[Nth(tail, i + 1)].pkt
      BY <1>3, <3>1
    <3> QED
      BY <1>1, <1>3, <2>1, <3>1, <3>2, <3>3
  <2> QED
    BY <1>5, <2>1, <2>2, SeqEqual
<1>8. SentPkts' = Append(SentPkts, Head(Waiting))
  <2>1. /\ SentPkts \in Seq(Packets) /\ Len(SentPkts) = Len(sent) /\ Len(sent) \in Nat
        /\ \A i \in 1 .. Len(sent) : SentPkts[i] = sent[i].pkt
    BY <1>0, PktsOf DEF SentPkts, TypeOK
  <2>2. /\ SentPkts' \in Seq(Packets) /\ Len(SentPkts') = Len(sent')
        /\ \A i \in 1 .. Len(sent') : SentPkts'[i] = sent'[i].pkt
    <3>1. sent' \in Seq([pkt : Packets, age : 0 .. Old])
      BY <1>0 DEF TypeOK
    <3>2. SentPkts' = [i \in DOMAIN sent' |-> sent'[i].pkt]
      BY DEF SentPkts
    <3> QED
      BY <3>1, <3>2, PktsOf
  <2>3. /\ Len(sent') = Len(sent) + 1 /\ sent'[Len(sent) + 1].pkt = ring[tail].pkt
        /\ \A i \in 1 .. Len(sent) : sent'[i] = sent[i]
    BY <1>0, SentGrows
  <2>4. Head(Waiting) \in Packets
    BY <1>3, <1>6, HeadTailProperties
  <2>5. /\ Append(SentPkts, Head(Waiting)) \in Seq(Packets)
        /\ Len(Append(SentPkts, Head(Waiting))) = Len(sent) + 1
        /\ \A i \in 1 .. Len(sent) : Append(SentPkts, Head(Waiting))[i] = SentPkts[i]
        /\ Append(SentPkts, Head(Waiting))[Len(sent) + 1] = Head(Waiting)
    BY <2>1, <2>4, AppendProperties
  <2>6. ASSUME NEW i \in 1 .. Len(sent) + 1
        PROVE  SentPkts'[i] = Append(SentPkts, Head(Waiting))[i]
    <3>1. CASE i \in 1 .. Len(sent)
      BY <2>1, <2>2, <2>3, <2>5, <3>1
    <3>2. CASE i = Len(sent) + 1
      BY <1>6, <2>1, <2>2, <2>3, <2>5, <3>2
    <3> QED
      BY <2>1, <3>1, <3>2
  <2> QED
    BY <2>2, <2>3, <2>5, <2>6, SeqEqual
<1> QED
  BY <1>6, <1>7, <1>8 DEF Line!Send

\* The ring is a DelayLine, whatever its size: it starts as an empty one, and every
\* step puts one packet in, takes the first one out, or leaves the line alone.
THEOREM RingIsLine == Spec => LineSpec
<1>1. Init => Line!Init
  <2> SUFFICES ASSUME Init PROVE Waiting = <<>> /\ SentPkts = <<>>
    BY DEF Line!Init
  <2>1. (head + Size - tail) % Size = 0
    BY ConstantsAssumption, Wraps DEF Init
  <2>2. Waiting = <<>>
    BY <2>1 DEF Waiting
  <2>3. SentPkts = <<>>
    BY DEF Init, SentPkts
  <2> QED
    BY <2>2, <2>3
<1>2. IInv /\ [Next]_vars /\ IInv' => [Line!Next]_<<Waiting, SentPkts>>
  <2> SUFFICES ASSUME IInv, [Next]_vars, IInv' PROVE [Line!Next]_<<Waiting, SentPkts>>
    OBVIOUS
  <2>0. TypeOK /\ OrderInv /\ TypeOK' /\ OrderInv' /\ head \in Places
    BY DEF IInv, TypeOK
  <2>1. CASE SPut
    BY <2>1, PutStep DEF Line!Next
  <2>2. CASE DSend
    BY <2>2, SendStep DEF Line!Next
  <2>3. CASE SDelayed \/ SAtOnce
    <3>1. ~Pending(head)
      <4>1. tail \in Places /\ From(tail, head) \in 0 .. Size - 1
        BY <2>0, WaitingIs DEF TypeOK
      <4> QED
        BY <4>1 DEF Pending, Pos
    <3>2. \A p \in Places : Pending(p) => ring'[p].pkt = ring[p].pkt
      BY <2>0, <2>3, <3>1 DEF SDelayed, SAtOnce, Receive, TypeOK
    <3>3. UNCHANGED <<head, tail, sent>>
      BY <2>3 DEF SDelayed, SAtOnce, Receive
    <3> QED
      BY <2>0, <3>2, <3>3, LineFrame
  <2>4. CASE Tick
    <3>1. \A p \in Places : ring'[p].pkt = ring[p].pkt
      BY <2>0, <2>4 DEF Tick, TypeOK
    <3>2. UNCHANGED <<head, tail, sent>>
      BY <2>4 DEF Tick
    <3> QED
      BY <2>0, <3>1, <3>2, LineFrame
  <2>5. CASE \/ SLoop \/ SNothing \/ SClosed \/ SLeave
             \/ DLoop \/ DWait \/ DWake \/ DSpurious \/ DLeave
             \/ StopHandler \/ UNCHANGED vars
    <3>1. UNCHANGED <<head, tail, ring, sent>>
      BY <2>5 DEF SLoop, SNothing, SClosed, SLeave, DLoop, DWait, DWake, DSpurious, DLeave,
                  StopHandler, vars
    <3> QED
      BY <2>0, <3>1, LineFrame
  <2> QED
    BY <2>1, <2>2, <2>3, <2>4, <2>5 DEF Next, Sniffer, Delayer
<1> QED
  BY <1>1, <1>2, Inductive, PTL DEF Spec, LineSpec, Line!Spec
=============================================================================
