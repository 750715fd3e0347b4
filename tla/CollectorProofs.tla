--------------------------- MODULE CollectorProofs ---------------------------
(***************************************************************************)
(* Theorems about RateCollector, for any number of clients, starts, lengths *)
(* and order of the reports, in both programs.  An element is a function of *)
(* how many reports each client has sent (Got); it may be taken out of the  *)
(* queue when no further report falls into its interval (Done).             *)
(***************************************************************************)
EXTENDS RateCollector, SequenceTheorems, FiniteSetTheorems, TLAPS

Kinds == {"none", "rate", "end"}
Elem  == [seq : Nat, rates : [Clients -> Kinds], ready : BOOLEAN]
Entry == [seq : Nat, rates : [Clients -> Kinds], fairness : BOOLEAN]

Types ==
    /\ program \in {"master", "test-case"}
    /\ start \in [Clients -> Nat] /\ last \in [Clients -> Nat]
    /\ next \in [Clients -> Nat]
    /\ queue \in Seq(Elem) /\ waitSeq \in Nat
    /\ finArr \in [Clients -> BOOLEAN] /\ finCount \in Nat /\ finished \in BOOLEAN
    /\ published \in Seq(Entry)

\* What client j has told of interval s so far, and whether it may tell more.
Got(j, s) ==
    IF s < start[j] \/ s >= start[j] + next[j] THEN "none"
    ELSE IF s - start[j] = last[j] THEN "end" ELSE "rate"
Over(j)    == next[j] > last[j]
Done(s)    == \A j \in Clients : s < start[j] + next[j] \/ Over(j)

\* Reports end with the last, and none is beyond the elements made.
ReportInv ==
    \A j \in Clients :
        /\ 0 < last[j] /\ next[j] <= last[j] + 1
        /\ next[j] > 0 => start[j] + next[j] <= waitSeq

\* The numbers go on from the records to the elements of the queue.
SeqInv ==
    /\ waitSeq = Len(published) + Len(queue)
    /\ \A k \in 1 .. Len(queue) : queue[k].seq = Len(published) + k - 1
    /\ \A k \in 1 .. Len(published) : published[k].seq = k - 1

\* Elements and records hold what was told; ready ones and records are done.
DataInv ==
    /\ \A k \in 1 .. Len(queue) :
          /\ \A j \in Clients : queue[k].rates[j] = Got(j, Len(published) + k - 1)
          /\ queue[k].ready => Done(Len(published) + k - 1)
    /\ \A k \in 1 .. Len(published) :
          /\ \A j \in Clients : published[k].rates[j] = Got(j, k - 1)
          /\ Done(k - 1)

\* finished_arr, finished_count and finished only say what is true.
FinInv ==
    /\ \A j \in Clients : finArr[j] => Over(j)
    /\ finCount = Cardinality({j \in Clients : finArr[j]})
    /\ finished => \A j \in Clients : finArr[j]
    /\ kpc = "done" => finished /\ queue = <<>>

\* The record with the fairness is the last, and is not left out.
FairInv ==
    /\ \A k \in 1 .. Len(published) : published[k].fairness =>
          k = Len(published) /\ queue = <<>> /\ \A j \in Clients : Over(j)
    /\ program = "master" /\ queue = <<>> /\ (\A j \in Clients : finArr[j])
          => Len(published) > 0 /\ published[Len(published)].fairness

CInv == Types /\ ReportInv /\ SeqInv /\ DataInv /\ FinInv /\ FairInv /\ NotLate

-----------------------------------------------------------------------------
(* Counting the clients that finished.                                     *)

LEMMA ClientsFinite ==
    IsFiniteSet(Clients) /\ Cardinality(Clients) = NumClients /\ Clients # {}
<1>1. IsFiniteSet(0 .. NumClients - 1) /\ Cardinality(0 .. NumClients - 1) = NumClients
  <2>1. NumClients - 1 \in Int /\ 0 \in Int /\ ~(0 > NumClients - 1)
    BY ConstantsAssumption
  <2>2. NumClients - 1 - 0 + 1 = NumClients
    BY ConstantsAssumption
  <2> QED
    BY <2>1, <2>2, FS_Interval
<1>2. 0 \in Clients
  BY ConstantsAssumption DEF Clients
<1> QED
  BY <1>1, <1>2 DEF Clients

\* finished_count is client_num when all have finished, and no earlier.
LEMMA AllFinished ==
    ASSUME Types, FinInv
    PROVE  finCount = NumClients <=> \A j \in Clients : finArr[j]
<1> DEFINE F == {j \in Clients : finArr[j]}
<1>1. F \in SUBSET Clients
  OBVIOUS
<1>2. Cardinality(Clients) = Cardinality(F) => Clients = F
  BY ONLY <1>1, FS_Subset, ClientsFinite
<1>3. finCount = Cardinality(F)
  BY DEF FinInv
<1>4. Clients = F <=> \A j \in Clients : finArr[j]
  OBVIOUS
<1> HIDE DEF F
<1> QED
  BY <1>2, <1>3, <1>4, ClientsFinite

-----------------------------------------------------------------------------
(* The elements a report makes.                                            *)

\* The element with number Len(published) + k - 1, made when it is not there.
Cell(k) == IF k <= Len(queue) THEN queue[k] ELSE NewElem(Len(published) + k - 1)

\* The index into the queue is not negative: a client that goes on reporting is
\* behind no record.
LEMMA IndexHolds ==
    ASSUME CInv, NEW i \in Clients, next[i] <= last[i]
    PROVE  TrueSeq(i) \in Nat /\ TrueSeq(i) >= Len(published)
<1>1. Len(published) \in Nat /\ next[i] \in Nat /\ start[i] \in Nat /\ last[i] \in Nat
  BY DEF CInv, Types
<1>2. SUFFICES ASSUME start[i] + next[i] < Len(published)
               PROVE  FALSE
  BY <1>1 DEF TrueSeq
<1>3. \A k \in 1 .. Len(published) : k - 1 < start[i] + next[i] \/ next[i] > last[i]
  BY DEF CInv, DataInv, Done, Over
<1>4. start[i] + next[i] + 1 \in 1 .. Len(published)
  BY <1>1, <1>2
<1> QED
  BY <1>1, <1>3, <1>4

LEMMA GrownShape ==
    ASSUME Types, SeqInv, NEW t \in Nat, t >= Len(published)
    PROVE  /\ Grown(t) \in Seq(Elem)
           /\ Len(Grown(t)) >= Len(queue) /\ t - Len(published) + 1 \in 1 .. Len(Grown(t))
           /\ Len(Grown(t)) > Len(queue) => Len(Grown(t)) = t - Len(published) + 1
           /\ \A k \in 1 .. Len(Grown(t)) : Grown(t)[k] = Cell(k)
<1> DEFINE b == Len(published)
           L == Len(queue)
           newest == IF waitSeq <= t THEN t
                     ELSE IF queue = <<>> THEN waitSeq ELSE waitSeq - 1
           more == [k \in 1 .. newest + 1 - waitSeq |-> NewElem(waitSeq + k - 1)]
<1>1. b \in Nat /\ L \in Nat /\ waitSeq = b + L /\ (queue = <<>> <=> L = 0)
  BY EmptySeq DEF Types, SeqInv
<1>2. queue # <<>> \/ waitSeq <= t
  BY <1>1
<1>3. newest = IF b + L <= t THEN t ELSE b + L - 1
  BY <1>1, <1>2
<1>4. newest + 1 - waitSeq \in Nat
  BY <1>1, <1>3
<1>5. \A k \in 1 .. newest + 1 - waitSeq : NewElem(waitSeq + k - 1) \in Elem
  <2> SUFFICES ASSUME NEW k \in 1 .. newest + 1 - waitSeq
               PROVE  NewElem(waitSeq + k - 1) \in Elem
    OBVIOUS
  <2>1. waitSeq + k - 1 \in Nat
    BY <1>1, <1>4
  <2> QED
    BY <2>1 DEF NewElem, Elem, Kinds
<1>6. /\ more \in Seq(Elem) /\ Len(more) = newest + 1 - waitSeq
      /\ \A k \in 1 .. newest + 1 - waitSeq : more[k] = NewElem(waitSeq + k - 1)
  BY <1>4, <1>5
<1>7. Grown(t) = queue \o more
  BY DEF Grown
<1> HIDE DEF more, newest
<1>8. /\ queue \o more \in Seq(Elem)
      /\ Len(queue \o more) = L + (newest + 1 - waitSeq)
      /\ \A k \in 1 .. L + (newest + 1 - waitSeq) :
            (queue \o more)[k] = IF k <= L THEN queue[k] ELSE more[k - L]
  BY <1>6, ConcatProperties DEF Types
<1>9. \A k \in 1 .. L + (newest + 1 - waitSeq) : (queue \o more)[k] = Cell(k)
  <2> SUFFICES ASSUME NEW k \in 1 .. L + (newest + 1 - waitSeq)
               PROVE  (queue \o more)[k] = Cell(k)
    OBVIOUS
  <2>1. CASE k <= L
    BY <2>1, <1>8 DEF Cell
  <2>2. CASE ~(k <= L)
    <3>1. k - L \in 1 .. newest + 1 - waitSeq /\ waitSeq + (k - L) - 1 = b + k - 1
      BY <2>2, <1>1, <1>4
    <3> QED
      BY <3>1, <2>2, <1>6, <1>8 DEF Cell
  <2> QED
    BY <2>1, <2>2
<1> QED
  BY <1>1, <1>3, <1>4, <1>7, <1>8, <1>9

\* What an element holds before the report, made or not.
LEMMA CellHolds ==
    ASSUME CInv, NEW k \in Nat \ {0}
    PROVE  /\ Cell(k) \in Elem
           /\ Cell(k).seq = Len(published) + k - 1
           /\ \A j \in Clients : Cell(k).rates[j] = Got(j, Len(published) + k - 1)
           /\ Cell(k).ready => k <= Len(queue) /\ Done(Len(published) + k - 1)
<1>1. Len(published) \in Nat /\ Len(queue) \in Nat
  BY DEF CInv, Types
<1>2. CASE k <= Len(queue)
  <2>1. k \in 1 .. Len(queue) /\ Cell(k) = queue[k]
    BY <1>1, <1>2 DEF Cell
  <2>2. queue[k] \in Elem
    BY <2>1, ElementOfSeq DEF CInv, Types
  <2> QED
    BY <1>2, <2>1, <2>2 DEF CInv, SeqInv, DataInv
<1>3. CASE ~(k <= Len(queue))
  <2>1. Cell(k) = NewElem(Len(published) + k - 1) /\ Len(published) + k - 1 \in Nat
    BY <1>1, <1>3 DEF Cell
  <2>2. /\ Cell(k) \in Elem /\ Cell(k).seq = Len(published) + k - 1
        /\ ~Cell(k).ready /\ \A j \in Clients : Cell(k).rates[j] = "none"
    BY <2>1 DEF NewElem, Elem, Kinds
  <2>3. \A j \in Clients : Got(j, Len(published) + k - 1) = "none"
    <3> SUFFICES ASSUME NEW j \in Clients
                 PROVE  Got(j, Len(published) + k - 1) = "none"
      OBVIOUS
    <3>1. start[j] \in Nat /\ next[j] \in Nat
      BY DEF CInv, Types
    <3>2. next[j] > 0 => start[j] + next[j] <= Len(published) + Len(queue)
      BY DEF CInv, ReportInv, SeqInv
    <3> QED
      BY <1>1, <1>3, <3>1, <3>2 DEF Got
  <2> QED
    BY <2>2, <2>3
<1> QED
  BY <1>2, <1>3

Kind(i) == IF next[i] = last[i] THEN "end" ELSE "rate"
At(i)   == TrueSeq(i) - Len(published) + 1
Told(i) == [Cell(At(i)) EXCEPT !.rates[i] = Kind(i)]

\* What a report makes of the queue.
LEMMA ReportShape ==
    ASSUME CInv, NEW i \in Clients, Report(i)
    PROVE  /\ queue' \in Seq(Elem) /\ At(i) \in 1 .. Len(queue')
           /\ Len(queue') >= Len(queue)
           /\ Len(queue') > Len(queue) => Len(queue') = At(i)
           /\ waitSeq' = Len(published) + Len(queue')
           /\ \A k \in 1 .. Len(queue') : k # At(i) => queue'[k] = Cell(k)
           /\ queue'[At(i)] = [Told(i) EXCEPT !.ready = @ \/ AllReady(Told(i), i)]
<1> DEFINE t == TrueSeq(i)
           grown == Grown(t)
           at == t - grown[1].seq + 1
           told == [grown[at] EXCEPT !.rates[i] = Kind(i)]
           full == [told EXCEPT !.ready = @ \/ AllReady(told, i)]
<1>1. next[i] <= last[i] /\ queue' = [grown EXCEPT ![at] = full]
      /\ waitSeq' = waitSeq + Len(grown) - Len(queue)
  BY DEF Report, Kind
<1>2. t \in Nat /\ t >= Len(published)
  BY <1>1, IndexHolds
<1>3. /\ grown \in Seq(Elem)
      /\ Len(grown) >= Len(queue) /\ t - Len(published) + 1 \in 1 .. Len(grown)
      /\ Len(grown) > Len(queue) => Len(grown) = t - Len(published) + 1
      /\ \A k \in 1 .. Len(grown) : grown[k] = Cell(k)
  BY <1>2, GrownShape DEF CInv
<1> HIDE DEF grown
<1>4. /\ Len(published) \in Nat /\ Len(queue) \in Nat /\ Len(grown) \in Nat
      /\ waitSeq = Len(published) + Len(queue)
  BY <1>3 DEF CInv, Types, SeqInv
<1>5. grown[1].seq = Len(published)
  <2>1. 1 \in 1 .. Len(grown) /\ 1 \in Nat \ {0}
    BY <1>3, <1>4
  <2>2. Cell(1).seq = Len(published) + 1 - 1
    BY <2>1, CellHolds
  <2> QED
    BY <1>3, <1>4, <2>1, <2>2
<1>6. at = At(i) /\ at \in 1 .. Len(grown) /\ at \in Nat \ {0}
  BY <1>3, <1>4, <1>5, <1>2 DEF At
<1>7. told = Told(i)
  BY <1>3, <1>6 DEF Told
<1>8. full \in Elem
  <2>1. Told(i) \in Elem
    <3>1. Cell(At(i)) \in Elem
      BY <1>6, CellHolds
    <3>2. Kind(i) \in Kinds
      BY DEF Kind, Kinds
    <3> HIDE DEF told, full, at
    <3> QED
      BY <3>1, <3>2 DEF Told, Elem
  <2>2. AllReady(Told(i), i) \in BOOLEAN
    BY DEF AllReady
  <2> HIDE DEF told, at
  <2> QED
    BY <1>7, <2>1, <2>2 DEF Elem
<1> HIDE DEF told, full
<1>9. /\ queue' \in Seq(Elem) /\ Len(queue') = Len(grown)
      /\ \A k \in 1 .. Len(grown) : queue'[k] = IF k = at THEN full ELSE grown[k]
  <2> HIDE DEF at
  <2> QED
    BY <1>1, <1>3, <1>6, <1>8, ExceptSeq
<1>10. full = [Told(i) EXCEPT !.ready = @ \/ AllReady(Told(i), i)]
  BY <1>7 DEF full
<1> HIDE DEF at, t
<1>11. waitSeq' = Len(published) + Len(queue')
  BY <1>1, <1>4, <1>9
<1>12. /\ Len(grown) > Len(queue) => Len(grown) = At(i)
       /\ Len(grown) >= Len(queue)
  BY <1>3, <1>6 DEF At, t
<1> QED
  BY <1>3, <1>6, <1>9, <1>10, <1>11, <1>12

-----------------------------------------------------------------------------
(* A report.                                                               *)

\* What was told is told still, and the interval of the report is filled.
LEMMA ReportTells ==
    ASSUME CInv, NEW i \in Clients, Report(i)
    PROVE  /\ \A j \in Clients, s \in Nat :
                 Got(j, s)' = IF j = i /\ s = TrueSeq(i) THEN Kind(i) ELSE Got(j, s)
           /\ \A j \in Clients : Over(j) => Over(j)'
           /\ \A s \in Nat : Done(s) => Done(s)'
<1>1. /\ next \in [Clients -> Nat] /\ start \in [Clients -> Nat] /\ last \in [Clients -> Nat]
      /\ start' = start /\ last' = last /\ next[i] <= last[i]
      /\ next' = [next EXCEPT ![i] = @ + 1]
  BY DEF Report, CInv, Types, setting
<1>2. ASSUME NEW j \in Clients, NEW s \in Nat
      PROVE  Got(j, s)' = IF j = i /\ s = TrueSeq(i) THEN Kind(i) ELSE Got(j, s)
  <2>1. CASE j = i
    <3>1. next'[j] = next[j] + 1 /\ next[j] \in Nat /\ start[j] \in Nat /\ last[j] \in Nat
      BY <1>1, <2>1
    <3> QED
      BY <1>1, <2>1, <3>1 DEF Got, Kind, TrueSeq
  <2>2. CASE j # i
    BY <1>1, <2>2 DEF Got
  <2> QED
    BY <2>1, <2>2
<1>3. ASSUME NEW j \in Clients
      PROVE  next'[j] >= next[j] /\ next'[j] \in Nat /\ next[j] \in Nat
  BY <1>1
<1>4. \A j \in Clients : Over(j) => Over(j)'
  BY <1>1, <1>3 DEF Over
<1>5. ASSUME NEW s \in Nat, Done(s)
      PROVE  Done(s)'
  <2> SUFFICES ASSUME NEW j \in Clients
               PROVE  s < start'[j] + next'[j] \/ Over(j)'
    BY DEF Done
  <2>1. s < start[j] + next[j] \/ Over(j)
    BY <1>5 DEF Done
  <2> QED
    BY <1>1, <1>3, <1>4, <2>1
<1> QED
  BY <1>2, <1>4, <1>5

\* When an element gets ready no report on its interval is to come.
LEMMA ReadyIsDone ==
    ASSUME CInv, NEW i \in Clients, Report(i), AllReady(Told(i), i),
           NEW s \in Nat, s = TrueSeq(i)
    PROVE  Done(s)'
<1>1. /\ next \in [Clients -> Nat] /\ start \in [Clients -> Nat] /\ last \in [Clients -> Nat]
      /\ start' = start /\ next[i] <= last[i]
      /\ next' = [next EXCEPT ![i] = @ + 1]
  BY DEF Report, CInv, Types, setting
<1>2. /\ TrueSeq(i) = start[i] + next[i] /\ TrueSeq(i) \in Nat
      /\ Len(published) + At(i) - 1 = TrueSeq(i) /\ At(i) \in Nat \ {0}
  <2>1. Len(published) \in Nat /\ TrueSeq(i) \in Nat /\ TrueSeq(i) >= Len(published)
    BY <1>1, IndexHolds DEF CInv, Types
  <2>2. TrueSeq(i) = start[i] + next[i]
    BY <1>1 DEF TrueSeq
  <2> QED
    BY <2>1, <2>2 DEF At
<1>3. /\ Cell(At(i)) \in Elem /\ Cell(At(i)).seq = TrueSeq(i)
      /\ \A j \in Clients : Cell(At(i)).rates[j] = Got(j, TrueSeq(i))
  BY <1>2, CellHolds
<1>4. /\ Told(i).seq = TrueSeq(i)
      /\ \A j \in Clients : j # i => Told(i).rates[j] = Got(j, TrueSeq(i))
  BY <1>3 DEF Told, Elem
<1> SUFFICES ASSUME NEW j \in Clients
             PROVE  s < start'[j] + next'[j] \/ Over(j)'
  BY DEF Done
<1>5. CASE j = i
  BY <1>1, <1>2, <1>5
<1>6. CASE j # i /\ j \in Asked(Told(i), i)
  <2>1. Told(i).rates[j] # "none" \/ finArr[j]
    BY <1>6 DEF AllReady
  <2>2. CASE finArr[j]
    BY <2>2, ReportTells DEF CInv, FinInv
  <2>3. CASE Told(i).rates[j] # "none"
    <3>1. Got(j, TrueSeq(i)) # "none"
      BY <1>4, <1>6, <2>3
    <3>2. TrueSeq(i) < start[j] + next[j]
      BY <1>1, <1>2, <3>1 DEF Got
    <3> QED
      BY <1>1, <1>6, <3>2
  <2> QED
    BY <2>1, <2>2, <2>3
<1>7. CASE j # i /\ j \notin Asked(Told(i), i)
  <2>1. ~(Told(i).seq >= start[j])
    BY <1>7 DEF Asked
  <2> QED
    BY <1>1, <1>2, <1>4, <1>7, <2>1
<1> QED
  BY <1>5, <1>6, <1>7

LEMMA ReportTypes ==
    ASSUME CInv, NEW i \in Clients, Report(i)
    PROVE  Types' /\ ReportInv' /\ SeqInv'
<1>1. /\ next \in [Clients -> Nat] /\ start \in [Clients -> Nat] /\ last \in [Clients -> Nat]
      /\ next[i] <= last[i] /\ Len(published) \in Nat /\ Len(queue) \in Nat
      /\ next' = [next EXCEPT ![i] = @ + 1]
      /\ UNCHANGED <<program, start, last, finished, published>>
      /\ finArr' \in [Clients -> BOOLEAN] /\ finCount' \in Nat
  <2>1. finArr \in [Clients -> BOOLEAN] /\ finCount \in Nat
    BY DEF CInv, Types
  <2>2. \/ finCount' = finCount + 1 /\ finArr' = [finArr EXCEPT ![i] = TRUE]
        \/ finCount' = finCount /\ finArr' = finArr
    BY DEF Report
  <2>3. finCount' \in Nat
    BY <2>1, <2>2
  <2>4. finArr' \in [Clients -> BOOLEAN]
    BY <2>1, <2>2, Zenon
  <2>5. /\ next[i] <= last[i] /\ next' = [next EXCEPT ![i] = @ + 1]
        /\ UNCHANGED <<program, start, last, finished, published>>
    BY DEF Report, setting
  <2> QED
    BY <2>3, <2>4, <2>5 DEF CInv, Types
<1>2. /\ queue' \in Seq(Elem) /\ At(i) \in 1 .. Len(queue') /\ Len(queue') \in Nat
      /\ Len(queue') >= Len(queue)
      /\ waitSeq' = Len(published) + Len(queue')
      /\ \A k \in 1 .. Len(queue') : k # At(i) => queue'[k] = Cell(k)
      /\ queue'[At(i)] = [Told(i) EXCEPT !.ready = @ \/ AllReady(Told(i), i)]
  BY ReportShape
<1>3. Types'
  BY <1>1, <1>2 DEF CInv, Types
<1>4. ReportInv'
  <2> SUFFICES ASSUME NEW j \in Clients
               PROVE  /\ 0 < last'[j] /\ next'[j] <= last'[j] + 1
                      /\ next'[j] > 0 => start'[j] + next'[j] <= waitSeq'
    BY DEF ReportInv
  <2>1. /\ 0 < last[j] /\ next[j] <= last[j] + 1
        /\ next[j] > 0 => start[j] + next[j] <= Len(published) + Len(queue)
    BY DEF CInv, ReportInv, SeqInv
  <2>2. CASE j = i
    <3>1. At(i) = start[i] + next[i] - Len(published) + 1
      BY <1>1 DEF At, TrueSeq
    <3>2. next'[i] = next[i] + 1 /\ next[i] \in Nat /\ start[i] \in Nat /\ last[i] \in Nat
      BY <1>1
    <3> QED
      BY <1>1, <1>2, <2>1, <2>2, <3>1, <3>2
  <2>3. CASE j # i
    <3>1. next'[j] = next[j] /\ next[j] \in Nat /\ start[j] \in Nat
      BY <1>1, <2>3
    <3> QED
      BY <1>1, <1>2, <2>1, <3>1
  <2> QED
    BY <2>2, <2>3
<1>5. SeqInv'
  <2>1. ASSUME NEW k \in 1 .. Len(queue')
        PROVE  queue'[k].seq = Len(published) + k - 1
    <3>1. k \in Nat \ {0}
      OBVIOUS
    <3>2. Cell(k).seq = Len(published) + k - 1 /\ Cell(k) \in Elem
      BY <3>1, CellHolds
    <3>3. CASE k = At(i)
      BY <1>2, <3>2, <3>3 DEF Told, Elem
    <3> QED
      BY <1>2, <3>2, <3>3
  <2> QED
    BY <1>1, <1>2, <2>1 DEF CInv, SeqInv
<1> QED
  BY <1>3, <1>4, <1>5

LEMMA ReportData ==
    ASSUME CInv, NEW i \in Clients, Report(i)
    PROVE  DataInv'
<1>1. /\ queue' \in Seq(Elem) /\ At(i) \in 1 .. Len(queue') /\ Len(queue') \in Nat
      /\ \A k \in 1 .. Len(queue') : k # At(i) => queue'[k] = Cell(k)
      /\ queue'[At(i)] = [Told(i) EXCEPT !.ready = @ \/ AllReady(Told(i), i)]
  BY ReportShape
<1>2. /\ published' = published /\ Len(published) \in Nat /\ TrueSeq(i) \in Nat
      /\ TrueSeq(i) >= Len(published) /\ TrueSeq(i) = Len(published) + At(i) - 1
  <2>1. published' = published /\ next[i] <= last[i] /\ Len(published) \in Nat
    BY DEF Report, CInv, Types
  <2>2. TrueSeq(i) \in Nat /\ TrueSeq(i) >= Len(published)
    BY <2>1, IndexHolds
  <2> QED
    BY <2>1, <2>2 DEF At
<1>3. ASSUME NEW k \in 1 .. Len(queue'), NEW u \in Nat, u = Len(published) + k - 1
      PROVE  /\ \A j \in Clients : queue'[k].rates[j] = Got(j, u)'
             /\ queue'[k].ready => Done(u)'
  <2>1. k \in Nat \ {0}
    OBVIOUS
  <2>2. /\ Cell(k) \in Elem
        /\ \A j \in Clients : Cell(k).rates[j] = Got(j, u)
        /\ Cell(k).ready => Done(u)
    BY <2>1, <1>3, CellHolds
  <2>3. CASE k = At(i)
    <3>1. u = TrueSeq(i)
      BY <1>2, <1>3, <2>3
    <3>2. \A j \in Clients : queue'[k].rates[j] = IF j = i THEN Kind(i) ELSE Cell(k).rates[j]
      BY <1>1, <2>2, <2>3 DEF Told, Elem
    <3>3. queue'[k].ready => Cell(k).ready \/ AllReady(Told(i), i)
      BY <1>1, <2>2, <2>3 DEF Told, Elem
    <3>4. \A j \in Clients : Got(j, u)' = IF j = i THEN Kind(i) ELSE Got(j, u)
      BY <3>1, ReportTells
    <3>5. Cell(k).ready => Done(u)'
      BY <2>2, ReportTells
    <3>6. AllReady(Told(i), i) => Done(u)'
      BY <3>1, ReadyIsDone
    <3> QED
      BY <2>2, <3>2, <3>3, <3>4, <3>5, <3>6
  <2>4. CASE k # At(i)
    <3>1. u # TrueSeq(i)
      BY <1>1, <1>2, <1>3, <2>4
    <3>2. \A j \in Clients : Got(j, u)' = Got(j, u)
      BY <3>1, ReportTells
    <3>3. Done(u) => Done(u)'
      BY ReportTells
    <3> QED
      BY <1>1, <2>2, <2>4, <3>2, <3>3
  <2> QED
    BY <2>3, <2>4
<1>4. ASSUME NEW k \in 1 .. Len(published), NEW u \in Nat, u = k - 1
      PROVE  (\A j \in Clients : published[k].rates[j] = Got(j, u)') /\ Done(u)'
  <2>1. u # TrueSeq(i)
    BY <1>2, <1>4
  <2>2. (\A j \in Clients : published[k].rates[j] = Got(j, u)) /\ Done(u)
    BY <1>4 DEF CInv, DataInv
  <2> QED
    BY <2>1, <2>2, ReportTells
<1>5. \A k \in 1 .. Len(queue') :
         /\ \A j \in Clients : queue'[k].rates[j] = Got(j, Len(published) + k - 1)'
         /\ queue'[k].ready => Done(Len(published) + k - 1)'
  <2> SUFFICES ASSUME NEW k \in 1 .. Len(queue')
               PROVE  /\ \A j \in Clients : queue'[k].rates[j] = Got(j, Len(published) + k - 1)'
                      /\ queue'[k].ready => Done(Len(published) + k - 1)'
    OBVIOUS
  <2>1. PICK u \in Nat : u = Len(published) + k - 1
    BY <1>2
  <2> QED
    BY <1>2, <1>3, <2>1 DEF Got, Done, Over
<1>6. \A k \in 1 .. Len(published) :
         (\A j \in Clients : published[k].rates[j] = Got(j, k - 1)') /\ Done(k - 1)'
  <2> SUFFICES ASSUME NEW k \in 1 .. Len(published)
               PROVE  (\A j \in Clients : published[k].rates[j] = Got(j, k - 1)') /\ Done(k - 1)'
    OBVIOUS
  <2>1. PICK u \in Nat : u = k - 1
    BY <1>2
  <2> QED
    BY <1>4, <2>1 DEF Got, Done, Over
<1> QED
  BY <1>2, <1>5, <1>6 DEF DataInv

LEMMA ReportFin ==
    ASSUME CInv, NEW i \in Clients, Report(i)
    PROVE  FinInv' /\ FairInv'
<1>1. /\ next \in [Clients -> Nat] /\ last \in [Clients -> Nat]
      /\ finArr \in [Clients -> BOOLEAN] /\ finCount \in Nat
      /\ next[i] <= last[i] /\ next' = [next EXCEPT ![i] = @ + 1]
      /\ UNCHANGED <<program, start, last, finished, published>>
  BY DEF Report, CInv, Types, setting
<1>2. ~Over(i) /\ ~finArr[i] /\ ~finished
  <2>1. ~Over(i)
    BY <1>1 DEF Over
  <2> QED
    BY <2>1 DEF CInv, FinInv
<1>3. \/ finCount' = finCount + 1 /\ finArr' = [finArr EXCEPT ![i] = TRUE] /\ next[i] = last[i]
      \/ finCount' = finCount /\ finArr' = finArr
  BY DEF Report
<1>4. kpc' # "done"
  <2>1. kpc # "done"
    BY <1>2 DEF CInv, FinInv
  <2> QED
    BY <2>1 DEF Report, Notified
<1>5. \A j \in Clients : Over(j) => Over(j)'
  BY ReportTells
<1>6. ASSUME NEW j \in Clients, finArr'[j]
      PROVE  Over(j)'
  <2>1. CASE finArr[j]
    BY <1>5, <2>1 DEF CInv, FinInv
  <2>2. CASE ~finArr[j]
    <3>1. j = i /\ next[i] = last[i]
      BY <1>1, <1>3, <1>6, <2>2
    <3> QED
      BY <1>1, <3>1 DEF Over
  <2> QED
    BY <2>1, <2>2
<1>7. finCount' = Cardinality({j \in Clients : finArr'[j]})
  <2> DEFINE F == {j \in Clients : finArr[j]}
             G == {j \in Clients : finArr'[j]}
  <2>1. finCount = Cardinality(F)
    BY DEF CInv, FinInv
  <2>2. CASE finCount' = finCount /\ finArr' = finArr
    BY <2>1, <2>2
  <2>3. CASE finCount' = finCount + 1 /\ finArr' = [finArr EXCEPT ![i] = TRUE]
    <3>1. G = F \cup {i} /\ i \notin F /\ F \in SUBSET Clients
      BY <1>1, <1>2, <2>3, Zenon
    <3>2. IsFiniteSet(F)
      BY ONLY <3>1, ClientsFinite, FS_Subset
    <3> HIDE DEF F, G
    <3>3. Cardinality(F \cup {i}) = Cardinality(F) + 1
      BY <3>1, <3>2, FS_AddElement
    <3> QED
      BY <2>1, <2>3, <3>1, <3>3 DEF G
  <2> QED
    BY <1>3, <2>2, <2>3
<1>8. FinInv'
  BY <1>1, <1>2, <1>4, <1>6, <1>7 DEF FinInv
<1>9. FairInv'
  <2>1. \A k \in 1 .. Len(published) : ~published[k].fairness
    BY <1>2 DEF CInv, FairInv
  <2>2. queue' # <<>>
    <3>0. queue' \in Seq(Elem) /\ At(i) \in 1 .. Len(queue')
      BY ReportShape
    <3>1. Len(queue') \in Nat /\ 1 <= Len(queue')
      BY <3>0
    <3>2. Len(<<>>) = 0
      BY EmptySeq
    <3> QED
      BY <3>1, <3>2
  <2> QED
    BY <1>1, <2>1, <2>2 DEF FairInv
<1> QED
  BY <1>8, <1>9

LEMMA ReportNotLate ==
    ASSUME CInv, NEW i \in Clients, Report(i)
    PROVE  NotLate'
<1>1. /\ queue' \in Seq(Elem) /\ At(i) \in 1 .. Len(queue') /\ Len(queue') \in Nat
      /\ \A k \in 1 .. Len(queue') : k # At(i) => queue'[k] = Cell(k)
      /\ queue'[At(i)] = [Told(i) EXCEPT !.ready = @ \/ AllReady(Told(i), i)]
  BY ReportShape
<1>2. program' = program /\ start' = start /\ last' = last
      /\ Len(queue) \in Nat /\ DOMAIN queue = 1 .. Len(queue) /\ DOMAIN queue' = 1 .. Len(queue')
  BY <1>1 DEF Report, CInv, Types, setting
<1> DEFINE Due(elem) == {j \in Clients : elem.seq >= start[j]}
           Timely(elem) ==
              /\ Due(elem) = Clients \/ (Due(elem) # {} /\ program = "master")
              /\ \A j \in Due(elem) : elem.seq <= start[j] + last[j] /\ elem.rates[j] # "none"
              => elem.ready
<1>3. SUFFICES ASSUME NEW k \in 1 .. Len(queue')
               PROVE  Timely(queue'[k])
  BY <1>2 DEF NotLate
<1>4. \A h \in 1 .. Len(queue) : Timely(queue[h])
  BY <1>2 DEF CInv, NotLate
<1>5. CASE k # At(i) /\ k <= Len(queue)
  <2>1. queue'[k] = queue[k] /\ k \in 1 .. Len(queue)
    BY <1>1, <1>2, <1>5 DEF Cell
  <2> HIDE DEF Timely
  <2> QED
    BY <1>4, <2>1
<1>6. CASE k # At(i) /\ ~(k <= Len(queue))
  <2>1. queue'[k] = NewElem(Len(published) + k - 1)
    BY <1>1, <1>6 DEF Cell
  <2>2. \A j \in Clients : queue'[k].rates[j] = "none"
    BY <2>1 DEF NewElem
  <2>3. Due(queue'[k]) = Clients => Due(queue'[k]) # {}
    BY ClientsFinite
  <2> QED
    BY <2>2, <2>3
<1>7. CASE k = At(i)
  <2>1. Told(i) \in Elem
    <3>1. Cell(At(i)) \in Elem
      BY <1>1, CellHolds
    <3>2. Kind(i) \in Kinds
      BY DEF Kind, Kinds
    <3> QED
      BY <3>1, <3>2 DEF Told, Elem
  <2>2. /\ queue'[k].seq = Told(i).seq /\ queue'[k].rates = Told(i).rates
        /\ AllReady(Told(i), i) => queue'[k].ready
    BY <1>1, <1>7, <2>1 DEF Elem
  <2>3. SUFFICES ASSUME Due(Told(i)) = Clients \/ program = "master",
                        \A j \in Due(Told(i)) : Told(i).rates[j] # "none"
                 PROVE  AllReady(Told(i), i)
    BY <2>2
  <2> QED
    BY <2>3 DEF AllReady, Asked
<1> QED
  BY <1>5, <1>6, <1>7

-----------------------------------------------------------------------------
(* A record.                                                               *)

LEMMA PublishStep ==
    ASSUME CInv, KPublish
    PROVE  CInv'
<1> DEFINE b == Len(published)
           entry == [seq |-> queue[1].seq, rates |-> queue[1].rates, fairness |-> LastRecord]
<1>1. /\ UNCHANGED <<program, start, last, next, waitSeq, finArr, finCount, finished>>
      /\ queue # <<>> /\ MayPublish /\ kpc' = "test"
      /\ published' = Append(published, entry) /\ queue' = Tail(queue)
  BY DEF KPublish, collectorVars, setting
<1>2. /\ queue \in Seq(Elem) /\ published \in Seq(Entry) /\ b \in Nat
      /\ Len(queue) \in Nat \ {0}
  BY <1>1, EmptySeq DEF CInv, Types
<1>3. 1 \in 1 .. Len(queue) /\ queue[1] \in Elem
  BY <1>2, ElementOfSeq
<1>4. LastRecord \in BOOLEAN /\ entry \in Entry
  BY <1>3 DEF LastRecord, Entry, Elem
<1>5. /\ queue' \in Seq(Elem) /\ Len(queue') = Len(queue) - 1
      /\ \A k \in 1 .. Len(queue) - 1 : queue'[k] = queue[k + 1]
  BY <1>1, <1>2, HeadTailProperties
<1> HIDE DEF entry
<1>6. /\ published' \in Seq(Entry) /\ Len(published') = b + 1
      /\ \A k \in 1 .. b + 1 : published'[k] = IF k = b + 1 THEN entry ELSE published[k]
  BY <1>1, <1>2, <1>4
<1>7. Types'
  BY <1>1, <1>5, <1>6 DEF CInv, Types
<1>8. ReportInv'
  BY <1>1 DEF CInv, ReportInv
<1>9. entry.seq = b /\ entry.rates = queue[1].rates /\ entry.fairness = LastRecord
  BY <1>2, <1>3 DEF entry, CInv, SeqInv
<1>10. SeqInv'
  <2>1. waitSeq' = Len(published') + Len(queue')
    BY <1>1, <1>2, <1>5, <1>6 DEF CInv, SeqInv
  <2>2. ASSUME NEW k \in 1 .. Len(queue')
        PROVE  queue'[k].seq = Len(published') + k - 1
    <3>1. k + 1 \in 1 .. Len(queue) /\ k \in 1 .. Len(queue) - 1
      BY <1>2, <1>5
    <3>2. queue[k + 1].seq = b + (k + 1) - 1
      BY <3>1 DEF CInv, SeqInv
    <3> QED
      BY <1>2, <1>5, <1>6, <3>1, <3>2
  <2>3. ASSUME NEW k \in 1 .. Len(published')
        PROVE  published'[k].seq = k - 1
    <3>1. CASE k = b + 1
      BY <1>2, <1>6, <1>9, <3>1
    <3>2. CASE k # b + 1
      <4>1. k \in 1 .. b /\ published'[k] = published[k]
        BY <1>2, <1>6, <3>2
      <4> QED
        BY <4>1 DEF CInv, SeqInv
    <3> QED
      BY <3>1, <3>2
  <2> QED
    BY <2>1, <2>2, <2>3 DEF SeqInv
<1>11. /\ \A j \in Clients, s \in Nat : Got(j, s)' = Got(j, s)
       /\ \A s \in Nat : Done(s)' = Done(s)
       /\ \A j \in Clients : Over(j)' = Over(j)
  BY <1>1 DEF Got, Done, Over
<1>12. (\A j \in Clients : entry.rates[j] = Got(j, b)) /\ Done(b)
  <2>1. /\ \A j \in Clients : queue[1].rates[j] = Got(j, b)
        /\ queue[1].ready => Done(b)
    <3>1. /\ \A j \in Clients : queue[1].rates[j] = Got(j, b + 1 - 1)
          /\ queue[1].ready => Done(b + 1 - 1)
      BY <1>3 DEF CInv, DataInv
    <3>2. b + 1 - 1 = b
      BY <1>2
    <3> QED
      BY <3>1, <3>2
  <2>2. finished => Done(b)
    BY DEF CInv, FinInv, Done
  <2> QED
    BY <1>1, <1>9, <2>1, <2>2 DEF MayPublish
<1>13. DataInv'
  <2>1. ASSUME NEW k \in 1 .. Len(queue'), NEW u \in Nat, u = b + k
        PROVE  /\ \A j \in Clients : queue'[k].rates[j] = Got(j, u)'
               /\ queue'[k].ready => Done(u)'
    <3>1. k + 1 \in 1 .. Len(queue) /\ k \in 1 .. Len(queue) - 1 /\ b + (k + 1) - 1 = u
      BY <1>2, <1>5, <2>1
    <3>2. /\ \A j \in Clients : queue[k + 1].rates[j] = Got(j, b + (k + 1) - 1)
          /\ queue[k + 1].ready => Done(b + (k + 1) - 1)
      BY <3>1 DEF CInv, DataInv
    <3>3. /\ \A j \in Clients : queue[k + 1].rates[j] = Got(j, u)
          /\ queue[k + 1].ready => Done(u)
      BY <3>1, <3>2
    <3> QED
      BY <1>5, <1>11, <3>1, <3>3
  <2>2. ASSUME NEW k \in 1 .. Len(published'), NEW u \in Nat, u = k - 1
        PROVE  (\A j \in Clients : published'[k].rates[j] = Got(j, u)') /\ Done(u)'
    <3>1. CASE k = b + 1
      <4>1. u = b /\ published'[k] = entry
        BY <1>2, <1>6, <2>2, <3>1
      <4> QED
        BY <1>11, <1>12, <4>1
    <3>2. CASE k # b + 1
      <4>1. k \in 1 .. b /\ published'[k] = published[k]
        BY <1>2, <1>6, <3>2
      <4>2. (\A j \in Clients : published[k].rates[j] = Got(j, u)) /\ Done(u)
        BY <2>2, <4>1 DEF CInv, DataInv
      <4> QED
        BY <1>11, <4>1, <4>2
    <3> QED
      BY <3>1, <3>2
  <2>3. \A k \in 1 .. Len(queue') :
           /\ \A j \in Clients : queue'[k].rates[j] = Got(j, Len(published) + k - 1)'
           /\ queue'[k].ready => Done(Len(published) + k - 1)'
    <3> SUFFICES ASSUME NEW k \in 1 .. Len(queue')
                 PROVE  /\ \A j \in Clients : queue'[k].rates[j] = Got(j, Len(published) + k - 1)'
                        /\ queue'[k].ready => Done(Len(published) + k - 1)'
      OBVIOUS
    <3>1. PICK u \in Nat : u = b + k
      BY <1>2
    <3>2. Len(published') + k - 1 = u
      BY <1>2, <1>6, <3>1
    <3>3. /\ \A j \in Clients : Got(j, u)' = Got(j, Len(published) + k - 1)'
          /\ Done(u)' = Done(Len(published) + k - 1)'
      BY <3>2 DEF Got, Done, Over
    <3>4. /\ \A j \in Clients : queue'[k].rates[j] = Got(j, u)'
          /\ queue'[k].ready => Done(u)'
      BY <2>1, <3>1
    <3> QED
      BY <3>3, <3>4
  <2>4. \A k \in 1 .. Len(published') :
           (\A j \in Clients : published'[k].rates[j] = Got(j, k - 1)') /\ Done(k - 1)'
    <3> SUFFICES ASSUME NEW k \in 1 .. Len(published')
                 PROVE  (\A j \in Clients : published'[k].rates[j] = Got(j, k - 1)') /\ Done(k - 1)'
      OBVIOUS
    <3>1. PICK u \in Nat : u = k - 1
      OBVIOUS
    <3>2. /\ \A j \in Clients : Got(j, u)' = Got(j, k - 1)'
          /\ Done(u)' = Done(k - 1)'
      BY <3>1 DEF Got, Done, Over
    <3>3. (\A j \in Clients : published'[k].rates[j] = Got(j, u)') /\ Done(u)'
      BY <2>2, <3>1
    <3> QED
      BY <3>2, <3>3
  <2> QED
    BY <2>3, <2>4 DEF DataInv
<1>14. FinInv'
  BY <1>1 DEF CInv, FinInv, Over
<1>15. FairInv'
  <2>1. LastRecord => Len(queue) = 1 /\ \A j \in Clients : finArr[j]
    BY AllFinished DEF LastRecord, CInv
  <2>2. ASSUME NEW k \in 1 .. Len(published'), published'[k].fairness
        PROVE  k = Len(published') /\ queue' = <<>> /\ \A j \in Clients : Over(j)'
    <3>1. CASE k = b + 1
      <4>1. LastRecord
        BY <1>6, <1>9, <2>2, <3>1
      <4>2. queue' = <<>>
        <5>1. Len(queue) = 1
          BY <2>1, <4>1
        <5>2. queue' \in Seq(Elem) /\ Len(queue') = 0
          BY <1>5, <5>1
        <5> QED
          BY <5>2, EmptySeq
      <4> QED
        BY <1>6, <1>11, <2>1, <3>1, <4>1, <4>2 DEF CInv, FinInv
    <3>2. CASE k # b + 1
      <4>1. k \in 1 .. b /\ published[k].fairness
        BY <1>2, <1>6, <2>2, <3>2
      <4> QED
        BY <1>1, <4>1 DEF CInv, FairInv
    <3> QED
      BY <3>1, <3>2
  <2>3. ASSUME program' = "master", queue' = <<>>, \A j \in Clients : finArr'[j]
        PROVE  Len(published') > 0 /\ published'[Len(published')].fairness
    <3>1. Len(queue) = 1
      BY <1>2, <1>5, <2>3
    <3>2. LastRecord
      BY <1>1, <2>3, <3>1, AllFinished DEF LastRecord, CInv
    <3>3. published'[b + 1] = entry
      BY <1>2, <1>6
    <3>4. entry.fairness
      BY <1>9, <3>2
    <3>5. Len(published') = b + 1 /\ b + 1 > 0
      BY <1>2, <1>6
    <3> HIDE DEF b
    <3> QED
      BY <3>3, <3>4, <3>5
  <2> QED
    BY <2>2, <2>3 DEF FairInv
<1>16. NotLate'
  <2> DEFINE Due(elem) == {j \in Clients : elem.seq >= start[j]}
             Timely(elem) ==
                /\ Due(elem) = Clients \/ (Due(elem) # {} /\ program = "master")
                /\ \A j \in Due(elem) : elem.seq <= start[j] + last[j] /\ elem.rates[j] # "none"
                => elem.ready
  <2>1. \A k \in 1 .. Len(queue) : Timely(queue[k])
    BY <1>2 DEF CInv, NotLate
  <2>2. SUFFICES ASSUME NEW k \in 1 .. Len(queue')
                 PROVE  Timely(queue'[k])
    BY <1>1, <1>5 DEF NotLate
  <2>3. k + 1 \in 1 .. Len(queue) /\ queue'[k] = queue[k + 1]
    BY <1>2, <1>5
  <2> HIDE DEF Timely
  <2> QED
    BY <2>1, <2>3
<1> QED
  BY <1>7, <1>8, <1>10, <1>13, <1>14, <1>15, <1>16 DEF CInv

-----------------------------------------------------------------------------
(* The other steps: they only touch the flags of the threads.               *)

queueAndReports == <<program, start, last, next, queueVars, published>>

LEMMA FlagStep ==
    ASSUME CInv, UNCHANGED queueAndReports,
           finished' \in BOOLEAN,
           finished' => finished \/ finCount = NumClients,
           kpc' = "done" => finished' /\ queue = <<>>
    PROVE  CInv'
<1>1. /\ UNCHANGED <<program, start, last, next, queue, waitSeq, finArr, finCount>>
      /\ published' = published
  BY DEF queueAndReports, queueVars
<1>2. Types' /\ ReportInv' /\ SeqInv'
  BY <1>1 DEF CInv, Types, ReportInv, SeqInv
<1>3. DataInv'
  BY <1>1 DEF CInv, DataInv, Got, Done, Over
<1>4. finished' => \A j \in Clients : finArr[j]
  BY AllFinished DEF CInv, FinInv
<1>5. FinInv'
  BY <1>1, <1>4 DEF CInv, FinInv, Over
<1>6. FairInv' /\ NotLate'
  BY <1>1 DEF CInv, FairInv, NotLate, Over
<1> QED
  BY <1>2, <1>3, <1>5, <1>6 DEF CInv

LEMMA CollectorInit == Init => CInv
<1> SUFFICES ASSUME Init
             PROVE  CInv
  OBVIOUS
<1>1. start \in [Clients -> Nat]
  <2>1. CASE start = [i \in Clients |-> i * Offset]
    <3>1. \A i \in Clients : i \in Nat /\ Offset \in Nat
      BY ConstantsAssumption DEF Clients
    <3>2. \A i \in Clients : i * Offset \in Nat
      BY <3>1
    <3> QED
      BY <2>1, <3>2
  <2>2. CASE start \in [Clients -> Delays]
    BY <2>2, ConstantsAssumption
  <2> QED
    BY <2>1, <2>2 DEF Init
<1>2. /\ last \in [Clients -> Nat] /\ \A j \in Clients : 0 < last[j]
      /\ next = [i \in Clients |-> 0] /\ finArr = [i \in Clients |-> FALSE]
      /\ queue = <<>> /\ published = <<>> /\ waitSeq = 0 /\ finCount = 0
      /\ finished = FALSE /\ kpc = "test" /\ program \in {"master", "test-case"}
  <2>1. last \in [Clients -> MinLast .. MaxLast]
    BY DEF Init
  <2>2. last \in [Clients -> Nat] /\ \A j \in Clients : 0 < last[j]
    BY <2>1, ConstantsAssumption
  <2> QED
    BY <2>2 DEF Init
<1>3. /\ Len(queue) = 0 /\ Len(published) = 0
      /\ queue \in Seq(Elem) /\ published \in Seq(Entry)
  BY <1>2, EmptySeq
<1>4. Types
  BY <1>1, <1>2, <1>3 DEF Types
<1>5. ReportInv /\ SeqInv /\ DataInv
  BY <1>1, <1>2, <1>3 DEF ReportInv, SeqInv, DataInv
<1>6. {j \in Clients : finArr[j]} = {} /\ ~\A j \in Clients : finArr[j]
  BY <1>2, ClientsFinite
<1>7. FinInv
  BY <1>2, <1>6, FS_EmptySet DEF FinInv
<1>8. FairInv /\ NotLate
  BY <1>2, <1>3, <1>6 DEF FairInv, NotLate
<1> QED
  BY <1>4, <1>5, <1>7, <1>8 DEF CInv

LEMMA CollectorStep == CInv /\ [Next]_vars => CInv'
<1> SUFFICES ASSUME CInv, [Next]_vars
             PROVE  CInv'
  OBVIOUS
<1> USE DEF queueAndReports, collectorVars, setting, queueVars
<1>0. finished \in BOOLEAN /\ (kpc = "done" => finished /\ queue = <<>>)
  BY DEF CInv, Types, FinInv
<1>1. ASSUME NEW i \in Clients, Report(i)
      PROVE  CInv'
  BY <1>1, ReportTypes, ReportData, ReportFin, ReportNotLate DEF CInv
<1>2. ASSUME NEW i \in Clients, Closed(i)
      PROVE  CInv'
  BY <1>0, <1>2, FlagStep DEF Closed
<1>3. ASSUME NEW i \in Clients, SetFinished(i)
      PROVE  CInv'
  <2>1. finished' = (finished \/ finCount = NumClients)
    BY <1>3 DEF SetFinished
  <2>2. finished' \in BOOLEAN /\ (finished' => finished \/ finCount = NumClients)
    BY <2>1
  <2>3. UNCHANGED queueAndReports /\ kpc' = kpc
    BY <1>3 DEF SetFinished
  <2> QED
    BY <1>0, <2>1, <2>2, <2>3, FlagStep
<1>4. ASSUME NEW i \in Clients, NotifyFinished(i)
      PROVE  CInv'
  BY <1>0, <1>4, FlagStep DEF NotifyFinished, Notified
<1>5. CASE KTest
  BY <1>0, <1>5, FlagStep DEF KTest
<1>6. CASE KFall
  BY <1>0, <1>6, FlagStep DEF KFall
<1>7. CASE KSleep \/ KSpurious
  BY <1>0, <1>7, FlagStep DEF KSleep, KSpurious
<1>8. CASE KBreak
  BY <1>0, <1>8, FlagStep DEF KBreak
<1>9. CASE KPublish
  BY <1>9, PublishStep
<1>10. CASE UNCHANGED vars
  BY <1>0, <1>10, FlagStep DEF vars
<1> QED
  BY <1>1, <1>2, <1>3, <1>4, <1>5, <1>6, <1>7, <1>8, <1>9, <1>10
     DEF Next, Collector, Checker

\* The queue, the records and the flags always agree with the reports.
THEOREM CollectorInductive == Spec => []CInv
BY CollectorInit, CollectorStep, PTL DEF Spec

-----------------------------------------------------------------------------
(* What follows.                                                           *)

LEMMA IndexFollows == CInv => NoUnderflow
<1> SUFFICES ASSUME CInv, NEW i \in Clients, next[i] <= last[i], TrueSeq(i) < waitSeq
             PROVE  queue # <<>> /\ queue[1].seq <= TrueSeq(i)
  BY DEF NoUnderflow
<1>1. TrueSeq(i) \in Nat /\ TrueSeq(i) >= Len(published)
  BY IndexHolds
<1>2. /\ waitSeq = Len(published) + Len(queue) /\ Len(queue) \in Nat /\ Len(published) \in Nat
      /\ \A k \in 1 .. Len(queue) : queue[k].seq = Len(published) + k - 1
  BY DEF CInv, Types, SeqInv
<1>3. 1 \in 1 .. Len(queue)
  BY <1>1, <1>2
<1>4. queue # <<>>
  BY <1>3, EmptySeq
<1>5. queue[1].seq = Len(published) + 1 - 1
  BY <1>2, <1>3
<1> QED
  BY <1>1, <1>2, <1>4, <1>5

LEMMA CompleteFollows == CInv => InOrderComplete
<1> SUFFICES ASSUME CInv, NEW k \in DOMAIN published, NEW i \in Clients
             PROVE  published[k].seq = k - 1 /\ published[k].rates[i] = Expected(i, k - 1)
  BY ClientsFinite DEF InOrderComplete
<1>1. /\ k \in 1 .. Len(published) /\ Len(published) \in Nat
      /\ start[i] \in Nat /\ next[i] \in Nat /\ last[i] \in Nat
  BY LenProperties DEF CInv, Types
<1>2. /\ published[k].seq = k - 1 /\ published[k].rates[i] = Got(i, k - 1)
      /\ k - 1 < start[i] + next[i] \/ next[i] > last[i]
      /\ next[i] <= last[i] + 1
  BY <1>1 DEF CInv, SeqInv, DataInv, ReportInv, Done, Over
<1>3. Got(i, k - 1) = Expected(i, k - 1)
  BY <1>1, <1>2 DEF Got, Expected
<1> QED
  BY <1>2, <1>3

\* Fairness and stability are computed from the records before: they go out
\* once, with the last record of the job, and nothing comes after it.
FairnessLast ==
    /\ \A k \in DOMAIN published : published[k].fairness =>
            /\ k = Len(published) /\ queue = <<>>
            /\ \A i \in Clients : next[i] > last[i]
    /\ program = "master" /\ kpc = "done" => published[Len(published)].fairness

LEMMA FairnessFollows == CInv => FairnessLast
<1> SUFFICES ASSUME CInv
             PROVE  FairnessLast
  OBVIOUS
<1>1. DOMAIN published = 1 .. Len(published)
  BY LenProperties DEF CInv, Types
<1>2. \A k \in DOMAIN published : published[k].fairness =>
         k = Len(published) /\ queue = <<>> /\ \A i \in Clients : next[i] > last[i]
  BY <1>1 DEF CInv, FairInv, Over
<1>3. program = "master" /\ kpc = "done" => published[Len(published)].fairness
  BY DEF CInv, FairInv, FinInv
<1> QED
  BY <1>2, <1>3 DEF FairnessLast

\* No collector ever uses a negative index into the queue.
THEOREM IndexNeverNegative == Spec => []NoUnderflow
BY CollectorInductive, IndexFollows, PTL

\* The records go out in order, each with everything that was due.
THEOREM RecordsComplete == Spec => []InOrderComplete
BY CollectorInductive, CompleteFollows, PTL

\* The figures of fairness go out once, with the last record.
THEOREM FairnessOnce == Spec => []FairnessLast
BY CollectorInductive, FairnessFollows, PTL

\* An element that has all it waits for is ready for the checker.
THEOREM ElementsInTime == Spec => []NotLate
<1>1. CInv => NotLate
  BY DEF CInv
<1> QED
  BY <1>1, CollectorInductive, PTL

-----------------------------------------------------------------------------
(* Why the checker cannot sleep for ever.                                  *)

\* A noticed last report is counted; when all that counts is counted and every
\* collector has left, the last to leave has set the flag; and a checker that sleeps, or
\* is about to, with the flag set has a notification coming, or had it too early.
WakeInv ==
    /\ cpc \in [Clients -> {"recv", "left", "notify", "ended"}]
    /\ \A j \in Clients : Noticed(last[j]) /\ Over(j) => finArr[j]
    /\ (\A j \in Clients : finArr[j] /\ cpc[j] \in {"notify", "ended"}) => finished
    /\ finished /\ kpc \in {"falling", "asleep"} => missed \/ \E j \in Clients : cpc[j] = "notify"

\* When every client has sent a last report that is noticed, and every collector has ended,
\* nobody will wake the checker again: it must not sleep.
SleepsOnlyIfMissed ==
    /\ \A j \in Clients : Noticed(last[j]) /\ next[j] > last[j] /\ cpc[j] = "ended"
    /\ kpc \in {"falling", "asleep"}
    => missed

LEMMA WakeStep ==
    ASSUME CInv, WakeInv, [Next]_vars
    PROVE  WakeInv'
<1>0. Types /\ FinInv /\ \A j \in Clients : last[j] \in Nat /\ next[j] \in Nat
  BY DEF CInv, Types
<1> USE DEF collectorVars, setting, queueVars
<1>1. ASSUME NEW i \in Clients, Report(i)
      PROVE  WakeInv'
  <2>1. /\ cpc[i] = "recv" /\ cpc' = cpc /\ UNCHANGED <<program, last, finished, missed>>
        /\ next[i] <= last[i] /\ next' = [next EXCEPT ![i] = @ + 1]
        /\ finArr' = finArr \/ finArr' = [finArr EXCEPT ![i] = TRUE]
        /\ next[i] = last[i] /\ Noticed(next[i]) => finArr' = [finArr EXCEPT ![i] = TRUE]
        /\ kpc' = kpc \/ kpc' = Notified
    BY <1>1 DEF Report
  <2>2. \A j \in Clients : Noticed(last[j])' <=> Noticed(last[j])
    BY <2>1 DEF Noticed
  <2>3. \A j \in Clients : /\ finArr[j] => finArr'[j]
                           /\ j # i => next'[j] = next[j]
    BY <1>0, <2>1 DEF Types
  <2>4. Noticed(last[i]) /\ next'[i] > last[i] => finArr'[i]
    <3>1. next'[i] = next[i] + 1
      BY <1>0, <2>1 DEF Types
    <3>2. next'[i] > last[i] => next[i] = last[i]
      <4>1. \A n, l \in Nat : n <= l /\ n + 1 > l => n = l
        OBVIOUS
      <4> QED
        BY <1>0, <2>1, <3>1, <4>1
    <3> QED
      BY <1>0, <2>1, <3>2 DEF Types
  <2>5. (\A j \in Clients : Noticed(last[j]) /\ Over(j) => finArr[j])'
    <3>1. ASSUME NEW j \in Clients, Noticed(last[j]), next'[j] > last[j]
          PROVE  finArr'[j]
      BY <2>3, <2>4, <3>1 DEF WakeInv, Over
    <3>2. \A j \in Clients : Noticed(last[j])' /\ next'[j] > last'[j] => finArr'[j]
      BY <2>1, <2>2, <3>1
    <3> QED
      BY <3>2 DEF Over
  <2>6. kpc' \in {"falling", "asleep"} => kpc \in {"falling", "asleep"}
    BY <2>1 DEF Notified
  <2>7. (\A j \in Clients : finArr[j] /\ cpc[j] \in {"notify", "ended"})' => finished'
    BY <2>1
  <2> QED
    BY <2>1, <2>5, <2>6, <2>7 DEF WakeInv
<1>2. ASSUME UNCHANGED <<program, last, next, finArr>>
      PROVE  (\A j \in Clients : Noticed(last[j]) /\ Over(j) => finArr[j])'
  BY <1>2 DEF WakeInv, Noticed, Over
<1>3. ASSUME NEW i \in Clients, Closed(i)
      PROVE  WakeInv'
  <2>1. /\ UNCHANGED <<program, last, next, finArr, finished, kpc, missed>>
        /\ cpc[i] = "recv" /\ cpc' = [cpc EXCEPT ![i] = "left"]
    BY <1>3 DEF Closed
  <2> QED
    BY <1>2, <2>1 DEF WakeInv
<1>4. ASSUME NEW i \in Clients, SetFinished(i)
      PROVE  WakeInv'
  <2>1. /\ UNCHANGED <<program, last, next, finArr, finCount, kpc, missed>>
        /\ cpc[i] = "left" /\ finished' = (finished \/ finCount = NumClients)
        /\ cpc' = [cpc EXCEPT ![i] = IF finCount = NumClients THEN "notify" ELSE "ended"]
    BY <1>4 DEF SetFinished
  <2>2. finCount = NumClients <=> \A j \in Clients : finArr[j]
    BY <1>0, AllFinished
  <2>3. /\ cpc' \in [Clients -> {"recv", "left", "notify", "ended"}]
        /\ finCount = NumClients => cpc'[i] = "notify"
        /\ \A j \in Clients : j # i => cpc'[j] = cpc[j]
    BY <2>1 DEF WakeInv
  <2>4. (\A j \in Clients : finArr'[j]) => finished'
    BY <2>1, <2>2
  <2>5. finished' /\ kpc' \in {"falling", "asleep"} => missed' \/ \E j \in Clients : cpc'[j] = "notify"
    <3>1. CASE finCount = NumClients
      BY <2>3, <3>1
    <3>2. CASE finCount # NumClients
      <4>1. finished' = finished
        BY <1>0, <2>1, <3>2 DEF Types
      <4> QED
        BY <2>1, <2>3, <4>1 DEF WakeInv
    <3> QED
      BY <3>1, <3>2
  <2> QED
    BY <1>2, <2>1, <2>3, <2>4, <2>5 DEF WakeInv
<1>5. ASSUME NEW i \in Clients, NotifyFinished(i)
      PROVE  WakeInv'
  <2>1. /\ UNCHANGED <<program, last, next, finArr, finished>> /\ kpc' = Notified
        /\ cpc[i] = "notify" /\ cpc' = [cpc EXCEPT ![i] = "ended"]
        /\ missed' = (missed \/ kpc = "falling")
    BY <1>5 DEF NotifyFinished
  <2>2. kpc' \in {"falling", "asleep"} => missed'
    BY <2>1 DEF Notified
  <2>3. /\ cpc' \in [Clients -> {"recv", "left", "notify", "ended"}]
        /\ \A j \in Clients : cpc'[j] \in {"notify", "ended"} => cpc[j] \in {"notify", "ended"}
    BY <2>1 DEF WakeInv
  <2> QED
    BY <1>2, <2>1, <2>2, <2>3 DEF WakeInv
<1>6. ASSUME UNCHANGED <<program, last, next, cpc, finArr, finished, missed>>,
             kpc' \in {"falling", "asleep"} => kpc \in {"falling", "asleep"} \/ ~finished
      PROVE  WakeInv'
  BY <1>2, <1>6 DEF WakeInv
<1>7. CASE Checker \/ KSpurious
  BY <1>6, <1>7 DEF Checker, KTest, KFall, KSleep, KBreak, KPublish, KSpurious, MayPublish
<1>8. CASE UNCHANGED vars
  BY <1>6, <1>8 DEF vars
<1> QED
  BY <1>1, <1>3, <1>4, <1>5, <1>7, <1>8 DEF Next, Collector

\* The checker that waits when all is over does so only because the one notification came
\* in the gap between its test and its sleep, for any number of clients.
THEOREM NobodySleeps == Spec => []SleepsOnlyIfMissed
<1>1. Init => WakeInv
  <2> SUFFICES ASSUME Init
               PROVE  WakeInv
    OBVIOUS
  <2>1. /\ cpc = [j \in Clients |-> "recv"] /\ kpc = "test" /\ finished = FALSE
        /\ next = [j \in Clients |-> 0] /\ \A j \in Clients : last[j] \in Nat
    BY CollectorInit DEF Init, CInv, Types
  <2>2. \A j \in Clients : ~Over(j) /\ cpc[j] = "recv"
    BY <2>1 DEF Over
  <2> QED
    BY <2>1, <2>2, ClientsFinite DEF WakeInv
<1>2. CInv /\ WakeInv /\ [Next]_vars => WakeInv'
  BY WakeStep
<1>3. WakeInv => SleepsOnlyIfMissed
  BY ClientsFinite DEF WakeInv, SleepsOnlyIfMissed, Over
<1> QED
  BY <1>1, <1>2, <1>3, CollectorInductive, PTL DEF Spec
-----------------------------------------------------------------------------
(* The gathering is a publication.                                         *)

\* No element is made but for a report: the newest is the last one of some client so far.
PublicInv == waitSeq > 0 => \E j \in Clients : waitSeq <= start[j] + next[j]

LEMMA PublicInvStep ==
    ASSUME CInv, PublicInv, [Next]_vars
    PROVE  PublicInv'
<1>0. next \in [Clients -> Nat] /\ start \in [Clients -> Nat] /\ waitSeq \in Nat
  BY DEF CInv, Types
<1>1. ASSUME NEW i \in Clients, Report(i)
      PROVE  PublicInv'
  <2>1. /\ UNCHANGED start /\ next' = [next EXCEPT ![i] = @ + 1]
    BY <1>1 DEF Report, setting
  <2> DEFINE n == Len(queue')
             m == Len(queue)
             b == Len(published)
  <2>2. n >= m /\ (n > m => n = At(i)) /\ waitSeq' = b + n /\ n \in Nat
    <3>1. n >= m /\ (n > m => n = At(i)) /\ waitSeq' = b + n /\ queue' \in Seq(Elem)
      BY <1>1, ReportShape
    <3> QED
      BY <3>1, LenProperties
  <2>3. waitSeq = b + m /\ m \in Nat /\ b \in Nat
    BY DEF CInv, Types, SeqInv
  <2>4. At(i) = start[i] + next[i] - b + 1
    BY <1>0 DEF At, TrueSeq
  <2> HIDE DEF n, m, b
  <2>5. \A j \in Clients : next'[j] >= next[j] /\ next'[j] \in Nat /\ start[j] \in Nat
    BY <1>0, <2>1
  <2>6. CASE n > m
    <3>1. next'[i] = next[i] + 1 /\ next[i] \in Nat /\ start[i] \in Nat
      BY <1>0, <2>1
    <3>2. waitSeq' = start[i] + next'[i]
      BY <2>2, <2>6, <2>3, <2>4, <3>1
    <3> QED
      BY <2>1, <2>5, <3>1, <3>2 DEF PublicInv
  <2>7. CASE ~(n > m)
    <3>1. waitSeq' = waitSeq
      BY <2>2, <2>7, <2>3
    <3>2. \A j \in Clients : waitSeq <= start[j] + next[j] => waitSeq <= start[j] + next'[j]
      BY <1>0, <2>5
    <3> QED
      BY <2>1, <3>1, <3>2 DEF PublicInv
  <2> QED
    BY <2>6, <2>7
<1>2. ASSUME UNCHANGED <<waitSeq, start, next>>
      PROVE  PublicInv'
  BY <1>2 DEF PublicInv
<1>3. ASSUME NEW i \in Clients, Closed(i) \/ SetFinished(i) \/ NotifyFinished(i)
      PROVE  PublicInv'
  BY <1>2, <1>3 DEF Closed, SetFinished, NotifyFinished, setting, queueVars
<1>4. CASE Checker \/ KSpurious
  BY <1>2, <1>4 DEF Checker, KTest, KFall, KSleep, KBreak, KPublish, KSpurious,
                    collectorVars, setting, queueVars
<1>5. CASE UNCHANGED vars
  BY <1>2, <1>5 DEF vars, collectorVars, setting, queueVars
<1> QED
  BY <1>1, <1>3, <1>4, <1>5 DEF Next, Collector

\* When every client is through, nobody owes a report behind the elements made.
LEMMA OverOwesNothing ==
    ASSUME CInv, \A j \in Clients : Over(j)
    PROVE  Public!NothingFrom(waitSeq)
<1> SUFFICES ASSUME NEW j \in Clients
             PROVE  start[j] + last[j] < waitSeq
  BY DEF Public!NothingFrom
<1>1. start[j] \in Nat /\ last[j] \in Nat /\ next[j] \in Nat /\ waitSeq \in Nat
  BY DEF CInv, Types
<1>2. next[j] > last[j] /\ next[j] <= last[j] + 1
  BY DEF CInv, ReportInv, Over
<1>3. start[j] + next[j] <= waitSeq
  BY <1>1, <1>2 DEF CInv, ReportInv
<1> QED
  BY <1>1, <1>2, <1>3

LEMMA PublishesRecord ==
    ASSUME CInv, PublicInv, KPublish
    PROVE  Public!Publish
<1> DEFINE b == Len(published)
           entry == [seq |-> queue[1].seq, rates |-> queue[1].rates, fairness |-> LastRecord]
           record == [seq |-> b, rates |-> [i \in Clients |-> Public!Owed(i, b)],
                      fairness |-> LastRecord]
<1>1. /\ UNCHANGED <<program, start, last>> /\ kpc = "locked" /\ kpc' = "test"
      /\ queue # <<>> /\ published' = Append(published, entry)
  BY DEF KPublish, collectorVars, setting
<1>2. /\ queue \in Seq(Elem) /\ b \in Nat /\ Len(queue) \in Nat \ {0}
      /\ waitSeq = b + Len(queue)
  BY <1>1, EmptySeq DEF CInv, Types, SeqInv
<1>3. entry = record
  <2>1. 1 \in 1 .. Len(queue) /\ b + 1 - 1 = b
    BY <1>2
  <2>2. /\ queue[1].seq = b /\ \A i \in Clients : queue[1].rates[i] = Got(i, b)
        /\ queue[1].ready => Done(b)
    BY <2>1 DEF CInv, SeqInv, DataInv
  <2>3. Done(b)
    <3>1. CASE finished
      <4>1. \A i \in Clients : Over(i)
        BY <3>1 DEF CInv, FinInv
      <4> QED
        BY <4>1 DEF Done
    <3>2. CASE queue[1].ready
      BY <2>2, <3>2
    <3> QED
      BY <3>1, <3>2 DEF KPublish, MayPublish
  <2>4. ASSUME NEW i \in Clients
        PROVE  Got(i, b) = Public!Owed(i, b)
    <3>1. start[i] \in Nat /\ last[i] \in Nat /\ next[i] \in Nat /\ next[i] <= last[i] + 1
      BY DEF CInv, Types, ReportInv
    <3>2. b < start[i] + next[i] \/ next[i] > last[i]
      BY <2>3 DEF Done, Over
    <3>3. b \in Nat
      BY <1>2
    <3> HIDE DEF b
    <3>4. CASE b < start[i]
      BY <3>1, <3>3, <3>4 DEF Got, Public!Owed
    <3>5. CASE b >= start[i] /\ b < start[i] + next[i]
      BY <3>1, <3>3, <3>5 DEF Got, Public!Owed
    <3>6. CASE b >= start[i] + next[i]
      BY <3>1, <3>2, <3>3, <3>6 DEF Got, Public!Owed
    <3> QED
      BY <3>1, <3>3, <3>4, <3>5, <3>6
  <2>5. queue[1] \in Elem
    BY <1>2, <2>1, ElementOfSeq
  <2>6. queue[1].rates = [i \in Clients |-> Public!Owed(i, b)]
    BY <2>2, <2>4, <2>5 DEF Elem
  <2> QED
    BY <2>2, <2>6
<1>4. ~Public!NothingFrom(b)
  <2>1. PICK j \in Clients : waitSeq <= start[j] + next[j]
    BY <1>2 DEF PublicInv
  <2>2. start[j] \in Nat /\ last[j] \in Nat /\ next[j] \in Nat /\ next[j] <= last[j] + 1
    BY DEF CInv, Types, ReportInv
  <2>3. ~(start[j] + last[j] < b)
    BY <1>2, <2>1, <2>2
  <2> QED
    BY <2>3 DEF Public!NothingFrom
<1>5. LastRecord => program = "master" /\ Public!NothingFrom(b + 1)
  <2> SUFFICES ASSUME LastRecord
               PROVE  program = "master" /\ Public!NothingFrom(b + 1)
    OBVIOUS
  <2>1. \A j \in Clients : Over(j)
    BY AllFinished DEF LastRecord, CInv, FinInv
  <2>2. waitSeq = b + 1
    BY <1>2 DEF LastRecord
  <2> QED
    BY <2>1, <2>2, OverOwesNothing DEF LastRecord
<1>6. LastRecord \in BOOLEAN
  BY DEF LastRecord
<1>7. published' = Append(published, record)
  BY <1>1, <1>3
<1> QED
  BY <1>1, <1>4, <1>5, <1>6, <1>7 DEF Public!Publish

LEMMA PublicationEnds ==
    ASSUME CInv, UNCHANGED <<program, start, last, published>>,
           finished, queue = <<>>, kpc # "done", kpc' = "done"
    PROVE  Public!End
<1>1. \A j \in Clients : finArr[j] /\ Over(j)
  BY DEF CInv, FinInv
<1>2. waitSeq = Len(published) /\ Len(published) \in Nat
  BY EmptySeq DEF CInv, Types, SeqInv
<1>3. Public!NothingFrom(Len(published))
  BY <1>1, <1>2, OverOwesNothing
<1>4. program = "master" => Len(published) > 0 /\ published[Len(published)].fairness
  BY <1>1 DEF CInv, FairInv
<1>5. Len(published) > 0 => published # <<>>
  BY EmptySeq DEF CInv, Types
<1> QED
  BY <1>3, <1>4, <1>5 DEF Public!End

\* Every step of the collectors and the checker is a step of Publication or none.
LEMMA PublicStep ==
    ASSUME CInv, PublicInv, [Next]_vars
    PROVE  [Public!Next]_(Public!vars)
<1>1. ASSUME UNCHANGED <<program, start, last, published>>, kpc' = "done" <=> kpc = "done"
      PROVE  UNCHANGED Public!vars
  BY <1>1 DEF Public!vars
<1>2. ASSUME NEW i \in Clients, Collector(i)
      PROVE  UNCHANGED Public!vars
  BY <1>1, <1>2 DEF Collector, Report, Closed, SetFinished, NotifyFinished, Notified, setting
<1>3. CASE KFall \/ KSleep \/ KSpurious
  BY <1>1, <1>3 DEF KFall, KSleep, KSpurious, collectorVars, setting
<1>4. CASE KTest
  <2>1. UNCHANGED <<program, start, last, published>> /\ kpc = "test"
        /\ kpc' = IF finished /\ queue = <<>> THEN "done" ELSE "locked"
    BY <1>4 DEF KTest, collectorVars, setting
  <2>2. CASE finished /\ queue = <<>>
    BY <2>1, <2>2, PublicationEnds DEF Public!Next
  <2>3. CASE ~(finished /\ queue = <<>>)
    BY <1>1, <2>1, <2>3
  <2> QED
    BY <2>2, <2>3
<1>5. CASE KBreak
  BY <1>5, PublicationEnds DEF KBreak, collectorVars, setting, Public!Next
<1>6. CASE KPublish
  BY <1>6, PublishesRecord DEF Public!Next
<1>7. CASE UNCHANGED vars
  BY <1>1, <1>7 DEF vars, collectorVars, setting
<1> QED
  BY <1>2, <1>3, <1>4, <1>5, <1>6, <1>7 DEF Next, Checker

\* For any number of clients, any starts and lengths, and connections lost or not, what the
\* collectors and the checker do together is a publication.
THEOREM CollectorPublishes == Spec => PublishSpec
<1>1. Init => PublicInv /\ Public!Init
  <2> SUFFICES ASSUME Init
               PROVE  PublicInv /\ Public!Init
    OBVIOUS
  <2>1. start \in [Clients -> Nat] /\ last \in [Clients -> Nat]
    BY CollectorInit DEF CInv, Types
  <2>2. waitSeq = 0 /\ published = <<>> /\ kpc = "test"
    BY DEF Init
  <2> QED
    BY <2>1, <2>2 DEF PublicInv, Public!Init
<1>2. CInv /\ PublicInv /\ [Next]_vars => PublicInv'
  BY PublicInvStep
<1>3. CInv /\ PublicInv /\ [Next]_vars => [Public!Next]_(Public!vars)
  BY PublicStep
<1> QED
  BY <1>1, <1>2, <1>3, CollectorInductive, PTL DEF Spec, PublishSpec, Public!Spec
=============================================================================
