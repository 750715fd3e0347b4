--------------------------- MODULE LocalConfProofs ---------------------------
(***************************************************************************)
(* Kept, for any number of users, processes, keys and values.               *)
(***************************************************************************)
EXTENDS LocalConf, TLAPS

\* The values of an object are values the parser accepts.
LEMMA ResolvedValues ==
    ASSUME NEW t \in Texts
    PROVE  Resolved(t) \in [Fields -> Values]
<1> USE ConstantsAssumption
<1> SUFFICES ASSUME NEW f \in Fields
             PROVE  (CASE t[f] = Absent -> Default[f] [] t[f] = Bad -> Repair[f] [] OTHER -> t[f]) \in Values
  BY DEF Resolved
<1>1. t[f] \in Values \/ t[f] = Absent \/ t[f] = Bad
  BY DEF Texts
<1> QED
  BY <1>1

\* Complete and valid values are resolved to themselves, and nothing in them is rejected.
LEMMA ResolvedAgain ==
    ASSUME NEW v \in [Fields -> Values]
    PROVE  /\ v \in Texts /\ Resolved(v) = v
           /\ \A f \in Fields : v[f] # Bad
<1> USE ConstantsAssumption
<1>1. v \in Texts
  BY DEF Texts
<1>2. ASSUME NEW f \in Fields PROVE v[f] # Bad /\ v[f] # Absent
  BY <1>2
<1>3. Resolved(v) = [f \in Fields |-> v[f]]
  BY <1>2 DEF Resolved
<1> QED
  BY <1>1, <1>2, <1>3

\* Where nothing is said, the defaults are wanted.
LEMMA ResolvedBlank == Blank \in Texts /\ Resolved(Blank) = Default
  BY ConstantsAssumption DEF Blank, Texts, Resolved

\* A file with a text is neither missing nor empty.
LEMMA TextIsThere ==
    ASSUME NEW t \in Texts
    PROVE  /\ Text(t).text = t /\ Text(t).length = Size[t] /\ Size[t] \in Nat \ {0}
           /\ Text(t) # Missing /\ Text(t) # Empty /\ Missing # Empty
  BY ConstantsAssumption DEF Text, Missing, Empty

-----------------------------------------------------------------------------
(* Type correctness.                                                       *)

LEMMA WantedValues == TypeOK => Wanted \in [Fields -> Values]
  BY ResolvedValues DEF TypeOK, Wanted

LEMMA TypeStep == TypeOK /\ [Next]_vars => TypeOK'
<1> SUFFICES ASSUME TypeOK, [Next]_vars PROVE TypeOK'
  OBVIOUS
<1> USE ConstantsAssumption DEF TypeOK, Places
<1>1. ASSUME NEW u \in Users, Open(u) PROVE TypeOK'
  BY <1>1 DEF Open
<1>2. ASSUME NEW u \in Users, Read(u) PROVE TypeOK'
  <2>1. Resolved(file.text) \in [Fields -> Values] /\ Rejected(file) \in BOOLEAN
    BY ResolvedValues DEF Rejected, Garbage
  <2>2. CASE file = Empty
    BY <1>2, <2>2 DEF Read
  <2>3. CASE file # Empty
    <3>1. /\ pc' = [pc EXCEPT ![u] = "rest"]
          /\ mem' = [mem EXCEPT ![u] = Resolved(file.text)]
          /\ seen' = [seen EXCEPT ![u] = file.length]
          /\ error' = [error EXCEPT ![u] = Rejected(file)]
          /\ UNCHANGED <<stale, spoiled, file, asked, edits, kills>>
      BY <1>2, <2>3 DEF Read
    <3>2. pc' \in [Users -> Places] /\ mem' \in [Users -> [Fields -> Values]]
      BY <2>1, <3>1
    <3>3. seen' \in [Users -> Int] /\ error' \in [Users -> BOOLEAN]
      BY <2>1, <3>1
    <3> QED
      BY <3>1, <3>2, <3>3
  <2> QED
    BY <2>2, <2>3
<1>3. ASSUME NEW u \in Users, ReadRest(u) PROVE TypeOK'
  <2>1. error' \in [Users -> BOOLEAN]
    BY <1>3 DEF ReadRest, Garbage
  <2> QED
    BY <1>3, <2>1 DEF ReadRest, AfterLoad
<1>4. ASSUME NEW u \in Users, Finish(u) PROVE TypeOK'
  BY <1>4 DEF Finish
<1>5. ASSUME NEW u \in Users, Truncate(u) PROVE TypeOK'
  BY <1>5, ResolvedBlank DEF Truncate, Empty
<1>6. ASSUME NEW u \in Users, Write(u) PROVE TypeOK'
  <2>1. mem[u] \in Texts /\ Size[mem[u]] \in Nat
    BY ResolvedAgain
  <2>2. file' \in [text : Texts, length : Int]
    BY <1>6, <2>1 DEF Write, Saved, Text, LargerOf
  <2> QED
    BY <1>6, <2>2 DEF Write
<1>7. ASSUME NEW v \in Texts, Edit(v) PROVE TypeOK'
  BY <1>7, TextIsThere DEF Edit, Text, HaveOld
<1>8. ASSUME NEW p, Kill(p) PROVE TypeOK'
  BY <1>8 DEF Kill
<1>9. CASE UNCHANGED vars
  BY <1>9 DEF vars
<1> QED
  BY <1>1, <1>2, <1>3, <1>4, <1>5, <1>6, <1>7, <1>8, <1>9 DEF Next

-----------------------------------------------------------------------------
(* The inductive invariant.  As long as the file is not spoiled it is in one of *)
(* four forms, and what a user that is not stale has loaded or is about to write *)
(* is what the operator wanted; a file found too long or with a bad value is one *)
(* the operator wrote so.                                                        *)

FileInv ==
    /\ file \in {Missing, Empty, Text(asked), Text(Wanted)}
    /\ file = Missing => asked = Blank /\ \A u \in Users : pc[u] \in {"idle", "create"}
    /\ file = Empty => \E u \in Users : pc[u] \in {"fill", "write"}

UserInv(u) ==
    /\ pc[u] \in {"rest", "run", "save", "write"} => mem[u] = Wanted
    /\ pc[u] \in {"create", "fill"} => mem[u] = Default /\ asked = Blank
    /\ pc[u] \in {"fill", "write"} => file \in {Empty, Text(Wanted)}
    /\ pc[u] = "rest" => seen[u] \in {Size[asked], Size[Wanted]}
    /\ error[u] => asked # Wanted

\* Who is not using the file, or has only opened it, is in no error and not stale.
IdleInv(u) ==
    pc[u] \in {"idle", "read"} => ~error[u] /\ u \notin stale

IInv == /\ TypeOK
        /\ \A u \in Users : IdleInv(u)
        /\ ~spoiled => FileInv /\ \A u \in Users \ stale : UserInv(u)

\* What Wanted and the forms of the file are.
LEMMA Forms ==
    ASSUME TypeOK
    PROVE  /\ Wanted \in [Fields -> Values] /\ Wanted \in Texts /\ asked \in Texts
           /\ Resolved(Wanted) = Wanted /\ Resolved(asked) = Wanted
           /\ \A f \in Fields : Wanted[f] # Bad
           /\ Size[asked] \in Nat \ {0} /\ Size[Wanted] \in Nat \ {0}
           /\ asked = Blank => Wanted = Default
  BY WantedValues, ResolvedAgain, ResolvedBlank, TextIsThere DEF TypeOK, Wanted

LEMMA IdleStep ==
    ASSUME TypeOK, \A w \in Users : IdleInv(w), [Next]_vars
    PROVE  \A w \in Users : IdleInv(w)'
<1> SUFFICES ASSUME NEW w \in Users PROVE IdleInv(w)'
  OBVIOUS
<1> USE DEF IdleInv
<1>1. pc \in [Users -> Places] /\ error \in [Users -> BOOLEAN] /\ stale \in SUBSET Users
  BY DEF TypeOK
<1>2. ASSUME NEW u \in Users, Open(u) \/ Finish(u) \/ Truncate(u) PROVE IdleInv(w)'
  BY <1>1, <1>2 DEF Open, Finish, Truncate
<1>3. ASSUME NEW u \in Users, Read(u) PROVE IdleInv(w)'
  <2>1. CASE file = Empty
    <3>1. /\ pc[u] = "read" /\ pc' = [pc EXCEPT ![u] = "run"] /\ stale' = stale \cup {u}
          /\ error' = error
      BY <1>3, <2>1 DEF Read
    <3> QED
      BY <1>1, <3>1
  <2>2. CASE file # Empty
    <3>1. /\ pc[u] = "read" /\ pc' = [pc EXCEPT ![u] = "rest"] /\ stale' = stale
          /\ error' = [error EXCEPT ![u] = Rejected(file)]
      BY <1>3, <2>2 DEF Read
    <3> QED
      BY <1>1, <3>1
  <2> QED
    BY <2>1, <2>2
<1>4. ASSUME NEW u \in Users, ReadRest(u) PROVE IdleInv(w)'
  <2>1. /\ pc[u] = "rest" /\ stale' = stale
        /\ error' = [error EXCEPT ![u] = error[u] \/ Garbage(file.length - seen[u])]
        /\ pc' = [pc EXCEPT ![u] = IF error'[u] THEN "save" ELSE "run"]
    BY <1>4 DEF ReadRest, AfterLoad
  <2> QED
    BY <1>1, <2>1
<1>5. ASSUME NEW u \in Users, Write(u) PROVE IdleInv(w)'
  <2>1. /\ pc[u] \in {"fill", "write"} /\ stale' = stale \ {u}
        /\ error' = [error EXCEPT ![u] = FALSE]
        /\ pc' = [pc EXCEPT ![u] = IF pc[u] = "fill" THEN "read" ELSE "idle"]
    BY <1>5 DEF Write
  <2> QED
    BY <1>1, <2>1
<1>6. ASSUME NEW v \in Texts, Edit(v) PROVE IdleInv(w)'
  BY <1>1, <1>6 DEF Edit, HaveOld
<1>7. ASSUME NEW p, Kill(p) PROVE IdleInv(w)'
  BY <1>1, <1>7 DEF Kill
<1>8. CASE UNCHANGED vars
  BY <1>8 DEF vars
<1> QED
  BY <1>2, <1>3, <1>4, <1>5, <1>6, <1>7, <1>8 DEF Next

LEMMA KeptStep ==
    ASSUME IInv, [Next]_vars, TypeOK', ~spoiled'
    PROVE  FileInv' /\ \A w \in Users \ stale' : UserInv(w)'
<1> DEFINE Goal == FileInv' /\ \A w \in Users \ stale' : UserInv(w)'
<1>12. ASSUME NEW v \in Texts, Edit(v) PROVE Goal
  <2>1. /\ file' = Text(v) /\ asked' = v /\ UNCHANGED <<pc, mem, seen, error>>
        /\ stale' = {w \in Users : pc[w] \notin {"idle", "read"}}
    BY <1>12 DEF Edit, HaveOld
  <2>2. FileInv'
    BY <2>1, TextIsThere DEF FileInv, Text, Missing, Empty
  <2>3. ASSUME NEW w \in Users \ stale' PROVE UserInv(w)'
    <3>1. pc'[w] \in {"idle", "read"} /\ ~error'[w]
      BY <2>1, <2>3 DEF IInv, IdleInv
    <3> QED
      BY <3>1 DEF UserInv
  <2> QED
    BY <2>2, <2>3
<1>15. SUFFICES ASSUME ~ \E v \in Texts : Edit(v) PROVE Goal
  BY <1>12
<1>0. ~spoiled
  BY <1>15 DEF Next, Open, Read, ReadRest, Finish, Truncate, Write, Kill, vars
<1>1. TypeOK /\ FileInv /\ \A w \in Users \ stale : UserInv(w)
  BY <1>0 DEF IInv
<1>2. /\ Wanted \in [Fields -> Values] /\ Wanted \in Texts /\ asked \in Texts
      /\ Resolved(Wanted) = Wanted /\ Resolved(asked) = Wanted
      /\ \A f \in Fields : Wanted[f] # Bad
      /\ Size[asked] \in Nat \ {0} /\ Size[Wanted] \in Nat \ {0}
      /\ asked = Blank => Wanted = Default
  BY <1>1, Forms
<1>3. /\ Text(asked).text = asked /\ Text(asked).length = Size[asked]
      /\ Text(asked) # Missing /\ Text(asked) # Empty /\ Missing # Empty
      /\ Text(Wanted).text = Wanted /\ Text(Wanted).length = Size[Wanted]
      /\ Text(Wanted) # Missing /\ Text(Wanted) # Empty
  BY <1>2, TextIsThere
<1>4. /\ pc \in [Users -> Places] /\ mem \in [Users -> [Fields -> Values]]
      /\ seen \in [Users -> Int] /\ error \in [Users -> BOOLEAN] /\ stale \in SUBSET Users
  BY <1>1 DEF TypeOK
<1>5. ASSUME UNCHANGED asked PROVE Wanted' = Wanted
  BY <1>5 DEF Wanted
<1>6. ASSUME NEW u \in Users, Open(u) PROVE Goal
  <2>1. /\ UNCHANGED <<file, asked, stale>> /\ Wanted' = Wanted
        /\ pc[u] = "idle" /\ pc' = [pc EXCEPT ![u] = IF file = Missing THEN "create" ELSE "read"]
        /\ mem' = [mem EXCEPT ![u] = Default] /\ error' = [error EXCEPT ![u] = FALSE]
        /\ seen' = [seen EXCEPT ![u] = 0]
    BY <1>5, <1>6 DEF Open
  <2>2. FileInv'
    BY <1>1, <1>3, <1>4, <2>1 DEF FileInv
  <2>3. ASSUME NEW w \in Users \ stale' PROVE UserInv(w)'
    BY <1>1, <1>4, <2>1 DEF UserInv, FileInv
  <2> QED
    BY <2>2, <2>3
<1>7. ASSUME NEW u \in Users, Read(u) PROVE Goal
  <2>0. CASE file # Empty
    <3>1. /\ file # Empty /\ pc[u] = "read"
          /\ UNCHANGED <<file, asked, stale>> /\ Wanted' = Wanted
          /\ pc' = [pc EXCEPT ![u] = "rest"]
          /\ mem' = [mem EXCEPT ![u] = Resolved(file.text)]
          /\ seen' = [seen EXCEPT ![u] = file.length]
          /\ error' = [error EXCEPT ![u] = Rejected(file)]
      BY <1>5, <1>7, <2>0 DEF Read
    <3>2. file \in {Text(asked), Text(Wanted)}
      BY <1>1, <3>1 DEF FileInv
    <3>3. Resolved(file.text) = Wanted /\ file.length \in {Size[asked], Size[Wanted]}
      BY <1>2, <1>3, <3>2
    <3>4. Rejected(file) => asked # Wanted
      <4>1. ~Garbage(file.length - Size[file.text])
        BY <1>2, <1>3, <3>2 DEF Garbage
      <4> QED
        BY <1>2, <1>3, <3>2, <4>1 DEF Rejected
    <3>5. FileInv'
      BY <1>1, <1>3, <1>4, <3>1, <3>2 DEF FileInv
    <3>6. ASSUME NEW w \in Users \ stale' PROVE UserInv(w)'
      BY <1>1, <1>4, <3>1, <3>3, <3>4 DEF UserInv
    <3> QED
      BY <3>5, <3>6
  <2>1. CASE file = Empty
    <3>1. /\ pc[u] = "read" /\ pc' = [pc EXCEPT ![u] = "run"]
          /\ stale' = stale \cup {u} /\ Wanted' = Wanted
          /\ UNCHANGED <<file, asked, mem, seen, error>>
      BY <1>5, <1>7, <2>1 DEF Read
    <3>2. FileInv'
      BY <1>1, <1>3, <1>4, <3>1 DEF FileInv
    <3>3. ASSUME NEW w \in Users \ stale' PROVE UserInv(w)'
      BY <1>1, <1>4, <3>1, <3>3 DEF UserInv
    <3> QED
      BY <3>2, <3>3
  <2> QED
    BY <2>0, <2>1
<1>8. ASSUME NEW u \in Users, ReadRest(u) PROVE Goal
  <2>1. /\ pc[u] = "rest" /\ UNCHANGED <<file, mem, seen, asked, stale>> /\ Wanted' = Wanted
        /\ error' = [error EXCEPT ![u] = error[u] \/ Garbage(file.length - seen[u])]
        /\ pc' = [pc EXCEPT ![u] = IF error'[u] THEN "save" ELSE "run"]
    BY <1>5, <1>8 DEF ReadRest, AfterLoad
  <2>2. u \notin stale => seen[u] \in {Size[asked], Size[Wanted]} /\ mem[u] = Wanted
    BY <1>1, <2>1 DEF UserInv
  <2>3. file.length \in {-1, 0, Size[asked], Size[Wanted]}
    BY <1>1, <1>3 DEF FileInv, Missing, Empty
  <2>4. u \notin stale /\ Garbage(file.length - seen[u]) => asked # Wanted
    BY <1>2, <2>2, <2>3 DEF Garbage
  <2>5. FileInv'
    BY <1>1, <1>3, <1>4, <2>1 DEF FileInv
  <2>6. ASSUME NEW w \in Users \ stale' PROVE UserInv(w)'
    BY <1>1, <1>4, <2>1, <2>2, <2>4 DEF UserInv
  <2> QED
    BY <2>5, <2>6
<1>9. ASSUME NEW u \in Users, Finish(u) PROVE Goal
  <2>1. /\ pc[u] = "run" /\ UNCHANGED <<file, mem, seen, error, asked, stale>> /\ Wanted' = Wanted
        /\ pc' = [pc EXCEPT ![u] = "save"]
    BY <1>5, <1>9 DEF Finish
  <2>2. FileInv'
    BY <1>1, <1>3, <1>4, <2>1 DEF FileInv
  <2>3. ASSUME NEW w \in Users \ stale' PROVE UserInv(w)'
    BY <1>1, <1>4, <2>1 DEF UserInv
  <2> QED
    BY <2>2, <2>3
<1>10. ASSUME NEW u \in Users, Truncate(u) PROVE Goal
  <2>1. /\ pc[u] \in {"create", "save"} /\ file' = Empty
        /\ UNCHANGED <<mem, seen, error, asked, stale>> /\ Wanted' = Wanted /\ u \notin stale
        /\ pc' = [pc EXCEPT ![u] = IF pc[u] = "create" THEN "fill" ELSE "write"]
    BY <1>5, <1>10 DEF Truncate
  <2>2. pc'[u] \in {"fill", "write"}
    BY <1>4, <2>1
  <2>3. FileInv'
    BY <1>3, <2>1, <2>2 DEF FileInv
  <2>4. ASSUME NEW w \in Users \ stale' PROVE UserInv(w)'
    BY <1>1, <1>4, <2>1 DEF UserInv
  <2> QED
    BY <2>3, <2>4
<1>11. ASSUME NEW u \in Users, Write(u) PROVE Goal
  <2>1. /\ pc[u] \in {"fill", "write"}
        /\ file' = [text |-> mem[u], length |-> LargerOf(Size[mem[u]], file.length)]
        /\ pc' = [pc EXCEPT ![u] = IF pc[u] = "fill" THEN "read" ELSE "idle"]
        /\ error' = [error EXCEPT ![u] = FALSE]
        /\ UNCHANGED <<mem, seen, asked>> /\ Wanted' = Wanted /\ u \notin stale /\ stale' = stale \ {u}
    BY <1>5, <1>11 DEF Write, Saved, Text
  <2>2. mem[u] = Wanted /\ file.length \in {0, Size[Wanted]}
    BY <1>1, <1>2, <1>3, <2>1 DEF UserInv, Empty
  <2>3. file' = Text(Wanted)
    BY <1>2, <2>1, <2>2 DEF LargerOf, Text
  <2>4. FileInv'
    BY <1>3, <2>1, <2>3 DEF FileInv, Text
  <2>5. ASSUME NEW w \in Users \ stale' PROVE UserInv(w)'
    BY <1>1, <1>4, <2>1, <2>3 DEF UserInv, Text
  <2> QED
    BY <2>4, <2>5
<1>13. ASSUME NEW p, Kill(p) PROVE Goal
  <2> DEFINE gone == {u \in Users : Home[u] = p}
  <2>1. /\ UNCHANGED <<file, mem, seen, asked>> /\ Wanted' = Wanted
        /\ pc' = [u \in Users |-> IF u \in gone THEN "idle" ELSE pc[u]]
        /\ error' = [u \in Users |-> error[u] /\ u \notin gone]
        /\ \A u \in gone : pc[u] \notin {"fill", "write"}
        /\ stale' = stale \ gone /\ gone \subseteq Users
    BY <1>5, <1>13 DEF Kill
  <2> HIDE DEF gone
  <2>2. FileInv'
    BY <1>1, <1>3, <1>4, <2>1 DEF FileInv
  <2>3. ASSUME NEW w \in Users \ stale' PROVE UserInv(w)'
    BY <1>1, <1>4, <2>1 DEF UserInv
  <2> QED
    BY <2>2, <2>3
<1>14. CASE UNCHANGED vars
  BY <1>1, <1>5, <1>14 DEF vars, FileInv, UserInv
<1> QED
  BY <1>6, <1>7, <1>8, <1>9, <1>10, <1>11, <1>13, <1>14, <1>15 DEF Next

\* The inductive invariant holds in every reachable state.
THEOREM ConfInductive == Spec => []IInv
<1>1. Init => IInv
  <2> SUFFICES ASSUME Init PROVE IInv
    OBVIOUS
  <2>1. /\ file = Missing \/ \E v \in Texts : file = Text(v)
        /\ asked = file.text /\ pc = [u \in Users |-> "idle"]
        /\ mem = [u \in Users |-> Default] /\ seen = [u \in Users |-> 0]
        /\ error = [u \in Users |-> FALSE] /\ stale = {} /\ spoiled = FALSE /\ edits = 0 /\ kills = 0
    BY DEF Init
  <2>2. asked \in Texts /\ file \in [text : Texts, length : Int]
    <3>1. CASE file = Missing
      <4>1. asked \in Texts
        BY <2>1, <3>1, ResolvedBlank DEF Missing
      <4> QED
        BY <3>1, <4>1, ResolvedBlank DEF Missing
    <3>2. ASSUME NEW v \in Texts, file = Text(v)
          PROVE  asked \in Texts /\ file \in [text : Texts, length : Int]
      BY <2>1, <3>2, TextIsThere DEF Text
    <3> QED
      BY <2>1, <3>1, <3>2
  <2>3. /\ file \in {Missing, Text(asked)}
        /\ file = Missing => asked = Blank
        /\ file # Empty
    <3>1. CASE file = Missing
      BY <2>1, <3>1 DEF Missing, Empty
    <3>2. ASSUME NEW v \in Texts, file = Text(v)
          PROVE  file = Text(asked) /\ file # Missing /\ file # Empty
      BY <2>1, <3>2, TextIsThere DEF Text
    <3> QED
      BY <2>1, <3>1, <3>2
  <2>4. TypeOK
    <3>1. mem \in [Users -> [Fields -> Values]]
      BY <2>1, ConstantsAssumption
    <3>2. pc \in [Users -> Places] /\ seen \in [Users -> Int] /\ error \in [Users -> BOOLEAN]
      BY <2>1 DEF Places
    <3> QED
      BY <2>1, <2>2, <3>1, <3>2 DEF TypeOK
  <2>5. FileInv /\ \A u \in Users : UserInv(u) /\ IdleInv(u)
    BY <2>1, <2>3 DEF FileInv, UserInv, IdleInv
  <2> QED
    BY <2>4, <2>5 DEF IInv
<1>2. IInv /\ [Next]_vars => IInv'
  BY TypeStep, IdleStep, KeptStep DEF IInv
<1> QED
  BY <1>1, <1>2, PTL DEF Spec

\* Whatever number of transfers load, save and overwrite the file at once, each runs with
\* what the operator wrote, no complete and valid file is rejected, and outside a save
\* the file says what the operator said; except for the users that found the file empty
\* between another's truncation and its text, or had it loaded when the operator
\* changed it, and only until one of them saves or a process ends in the middle of a save.
THEOREM ConfKept == Spec => []Kept
<1>1. IInv => Kept
  <2> SUFFICES ASSUME IInv, ~spoiled
               PROVE  /\ \A u \in Users \ stale : pc[u] = "run" => mem[u] = Wanted
                      /\ \A u \in Users \ stale : error[u] => asked # Wanted
                      /\ (\A u \in Users : pc[u] \notin {"fill", "write"}) =>
                            Resolved(file.text) = Wanted /\ file.length # 0
    BY DEF Kept
  <2>1. TypeOK /\ FileInv /\ \A u \in Users \ stale : UserInv(u)
    BY DEF IInv
  <2>2. (\A u \in Users : pc[u] \notin {"fill", "write"}) => file # Empty
    BY <2>1 DEF FileInv
  <2>3. file \in {Text(asked), Text(Wanted)} => Resolved(file.text) = Wanted /\ file.length # 0
    BY <2>1, Forms DEF Text
  <2>4. file = Missing => Resolved(file.text) = Wanted /\ file.length # 0
    BY <2>1 DEF FileInv, Missing, Wanted
  <2> QED
    BY <2>1, <2>2, <2>3, <2>4 DEF UserInv, FileInv
<1> QED
  BY <1>1, ConfInductive, PTL
=============================================================================
