--------------------------- MODULE AdmissionProofs ---------------------------
(***************************************************************************)
(* Theorems about Admission, for any number of connections and descriptors, *)
(* any limit and any size of the pool.  As long as no descriptor came back  *)
(* with its old entry, entries and live threads correspond one to one; all  *)
(* that the code counts follows from it.                                    *)
(***************************************************************************)
EXTENDS Admission, FiniteSetTheorems, TLAPS

Phases == {"none", "start", "setup", "register", "serve", "close", "remove", "gone"}

\* The connections accepted have a descriptor; the last may await its admission.
ConnInv ==
    /\ TypeOK
    /\ \A c \in Conns : tpc[c] # "none" => c <= accepted
    /\ \A c \in Conns : c <= accepted => fd[c] \in Fds
    /\ apc = "test" => accepted \in Conns /\ tpc[accepted] = "none"

\* One entry for each live thread.
ListInv ==
    /\ Listed = {fd[c] : c \in Live}
    /\ \A c \in Live : infos[fd[c]] = c
    /\ Cardinality(Listed) = Cardinality(Live)
    /\ Cardinality(Live) <= MaxThreadNum

PeerInv == \A c \in Conns : peer[c] \in {NoConn, c}

\* What is missing from the pool is what the serving threads hold.
PoolInv == free = PoolSize - MrSize * Cardinality(Holding)

AInv == /\ ConnInv
        /\ ~reused => ListInv /\ PeerInv
        /\ ~reused /\ MaxThreadNum * MrSize <= PoolSize => PoolInv

-----------------------------------------------------------------------------
(* Sets of connections and descriptors.                                    *)

LEMMA FiniteConns == IsFiniteSet(Conns)
<1>1. 1 \in Int /\ MaxConns \in Int
  BY ConstantsAssumption
<1> QED
  BY <1>1, FS_Interval DEF Conns

LEMMA Finite ==
    /\ IsFiniteSet(Conns) /\ IsFiniteSet(Fds)
    /\ IsFiniteSet(Live) /\ IsFiniteSet(Holding) /\ IsFiniteSet(Listed)
<1>1. IsFiniteSet(1 .. MaxConns) /\ IsFiniteSet(1 .. MaxFd)
  <2>1. 1 \in Int /\ MaxConns \in Int /\ MaxFd \in Int
    BY ConstantsAssumption
  <2> QED
    BY <2>1, FS_Interval
<1>2. Live \in SUBSET Conns /\ Holding \in SUBSET Conns /\ Listed \in SUBSET Fds
  BY DEF Live, Holding, Listed
<1> QED
  BY <1>1, <1>2, FS_Subset DEF Conns, Fds

\* Products keep the order.
LEMMA Products ==
    ASSUME NEW m \in Nat, NEW a \in Nat, NEW b \in Nat, a <= b
    PROVE  m * a <= m * b /\ m * a \in Nat /\ m * b \in Nat /\ m * (a + 1) = m * a + m
<1>1. b - a \in Nat /\ m * (b - a) \in Nat
  OBVIOUS
<1>2. m * b = m * a + m * (b - a)
  OBVIOUS
<1> QED
  BY <1>1, <1>2

\* Nothing wraps round below the modulus.
LEMMA Below ==
    ASSUME NEW x \in Nat, x < Wrap
    PROVE  x % Wrap = x
BY ConstantsAssumption

LEMMA Wrapped ==
    ASSUME NEW x \in Int
    PROVE  x % Wrap \in 0 .. Wrap - 1
BY ConstantsAssumption

-----------------------------------------------------------------------------
(* Connections and threads.                                                *)

LEMMA ConnInit == Init => ConnInv
<1> SUFFICES ASSUME Init
             PROVE  ConnInv
  OBVIOUS
<1>1. /\ MaxConns \in Nat \ {0} /\ PoolSize \in Nat /\ Wrap \in Nat /\ PoolSize < Wrap
      /\ PoolSize \in 0 .. Wrap - 1
  BY ConstantsAssumption
<1>2. TypeOK
  <2>1. /\ accepted \in 0 .. MaxConns /\ apc \in {"accept", "test"}
        /\ fd \in [Conns -> Fds \cup {0}] /\ open \in SUBSET Fds
        /\ infos \in [Fds -> Conns \cup {NoConn}]
    BY <1>1 DEF Init
  <2>2. /\ tpc \in [Conns -> Phases] /\ peer \in [Conns -> Conns \cup {NoConn}]
        /\ free \in 0 .. Wrap - 1
    BY <1>1 DEF Init, Phases
  <2>3. aborted \in BOOLEAN /\ reused \in BOOLEAN
    BY DEF Init
  <2> QED
    BY <2>1, <2>2, <2>3 DEF TypeOK, Phases
<1>3. \A c \in Conns : ~(c <= 0)
  BY DEF Conns
<1> QED
  BY <1>2, <1>3 DEF Init, ConnInv

\* A thread keeps its number and goes from phase to phase.
LEMMA ThreadKeepsConn ==
    ASSUME ConnInv, NEW c \in Conns, NEW from \in Phases \ {"none"}, NEW to \in Phases \ {"none"},
           Step(c, from, to), TypeOK'
    PROVE  ConnInv'
BY DEF ConnInv, Step, TypeOK, Phases

LEMMA ConnStep == ConnInv /\ [Next]_vars => ConnInv'
<1> SUFFICES ASSUME ConnInv, [Next]_vars
             PROVE  ConnInv'
  OBVIOUS
<1> USE DEF Phases
<1>0. TypeOK /\ MaxConns \in Nat \ {0} /\ Wrap \in Nat \ {0} /\ MrSize \in Nat /\ free \in Int
  BY ConstantsAssumption DEF ConnInv, TypeOK
<1>1. CASE Accept
  <2>1. PICK f \in Fds \ open : /\ fd' = [fd EXCEPT ![accepted + 1] = f]
                                /\ open' = open \cup {f}
    BY <1>1 DEF Accept
  <2>2. /\ accepted' = accepted + 1 /\ apc' = "test" /\ accepted < MaxConns
        /\ UNCHANGED <<infos, tpc, peer, free, aborted, reused>>
        /\ accepted + 1 \in Conns /\ accepted \in Nat
    BY <1>0, <1>1 DEF Accept, TypeOK, Conns
  <2>3. TypeOK'
    BY <1>0, <2>1, <2>2 DEF TypeOK, Conns
  <2>4. tpc[accepted + 1] = "none"
    BY <1>0, <2>2 DEF ConnInv, TypeOK
  <2>5. \A c \in Conns : c <= accepted' => fd'[c] \in Fds
    BY <1>0, <2>1, <2>2 DEF ConnInv, TypeOK, Conns
  <2>6. \A c \in Conns : tpc'[c] # "none" => c <= accepted'
    BY <1>0, <2>2 DEF ConnInv, TypeOK, Conns
  <2> QED
    BY <2>2, <2>3, <2>4, <2>5, <2>6 DEF ConnInv
<1>2. CASE Refuse
  BY <1>0, <1>2 DEF Refuse, ConnInv, TypeOK
<1>3. CASE Admit
  <2>1. /\ accepted \in Conns /\ fd[accepted] \in Fds
        /\ infos' = [infos EXCEPT ![fd[accepted]] = IF @ = NoConn THEN accepted ELSE @]
        /\ tpc' = [tpc EXCEPT ![accepted] = "start"] /\ apc' = "accept"
        /\ UNCHANGED <<accepted, fd, open, peer, free, aborted>>
        /\ reused' = (reused \/ fd[accepted] \in Listed)
    BY <1>0, <1>3 DEF Admit, ConnInv, TypeOK, Conns
  <2>2. reused' \in BOOLEAN
    BY <2>1
  <2>3. TypeOK'
    BY <1>0, <2>1, <2>2 DEF TypeOK
  <2> QED
    BY <1>0, <2>1, <2>3 DEF ConnInv, TypeOK, Conns
<1>4. ASSUME NEW c \in Conns, Thread(c)
      PROVE  ConnInv'
  <2>1. CASE LookUp(c)
    <3>1. TypeOK' /\ Step(c, "start", "setup")
      BY <1>0, <2>1 DEF LookUp, ListedUnder, Step, TypeOK, ConnInv
    <3> QED
      BY <3>1, ThreadKeepsConn
  <2>2. CASE LookUpAsserts(c)
    BY <1>0, <2>2 DEF LookUpAsserts, ConnInv, TypeOK
  <2>3. CASE GiveUp(c)
    <3>1. TypeOK' /\ (Step(c, "start", "close") \/ Step(c, "setup", "close"))
      BY <1>0, <2>3 DEF GiveUp, Step, TypeOK
    <3> QED
      BY <3>1, ThreadKeepsConn
  <2>4. CASE CheckPool(c)
    <3>1. TypeOK' /\ (Step(c, "setup", "close") \/ Step(c, "setup", "register"))
      BY <1>0, <2>4 DEF CheckPool, Step, TypeOK
    <3> QED
      BY <3>1, ThreadKeepsConn
  <2>5. CASE Register(c)
    <3>1. free' \in 0 .. Wrap - 1
      BY <1>0, <2>5, Wrapped DEF Register, Taken
    <3>2. TypeOK' /\ Step(c, "register", "serve")
      BY <1>0, <2>5, <3>1 DEF Register, Step, TypeOK
    <3> QED
      BY <3>2, ThreadKeepsConn
  <2>6. CASE Leave(c)
    <3>1. free' \in 0 .. Wrap - 1
      BY <1>0, <2>6, Wrapped DEF Leave, Returned
    <3>2. TypeOK' /\ Step(c, "serve", "close")
      BY <1>0, <2>6, <3>1 DEF Leave, Step, TypeOK
    <3> QED
      BY <3>2, ThreadKeepsConn
  <2>7. CASE Close(c)
    <3>1. TypeOK' /\ Step(c, "close", "remove")
      BY <1>0, <2>7 DEF Close, Step, TypeOK
    <3> QED
      BY <3>1, ThreadKeepsConn
  <2>8. CASE Remove(c)
    <3>1. TypeOK' /\ Step(c, "remove", "gone")
      BY <1>0, <2>8 DEF Remove, Without, Step, TypeOK
    <3> QED
      BY <3>1, ThreadKeepsConn
  <2> QED
    BY <1>4, <2>1, <2>2, <2>3, <2>4, <2>5, <2>6, <2>7, <2>8 DEF Thread
<1>5. CASE UNCHANGED vars
  BY <1>0, <1>5 DEF vars, ConnInv, TypeOK
<1> QED
  BY <1>1, <1>2, <1>3, <1>4, <1>5 DEF Next

-----------------------------------------------------------------------------
(* Entries and live threads.                                               *)

\* A step between phases of a live thread changes neither.
LEMMA SameLive ==
    ASSUME ConnInv, ListInv, NEW c \in Conns,
           NEW from \in Phases \ {"none", "gone"}, NEW to \in Phases \ {"none", "gone"},
           Step(c, from, to), infos' = infos
    PROVE  ListInv' /\ Live' = Live
<1>1. tpc' = [tpc EXCEPT ![c] = to] /\ tpc[c] = from /\ fd' = fd /\ tpc \in [Conns -> Phases]
  BY DEF Step, ConnInv, TypeOK, Phases
<1>2. Live' = Live
  BY <1>1 DEF Live
<1>3. Listed' = Listed
  BY DEF Listed
<1> QED
  BY <1>1, <1>2, <1>3 DEF ListInv

LEMMA ListAccept ==
    ASSUME ConnInv, ListInv, Accept
    PROVE  ListInv' /\ Live' = Live
<1>1. PICK f \in Fds \ open : fd' = [fd EXCEPT ![accepted + 1] = f]
  BY DEF Accept
<1>2. /\ UNCHANGED <<infos, tpc>> /\ accepted \in Nat /\ fd \in [Conns -> Fds \cup {0}]
  BY DEF Accept, ConnInv, TypeOK
<1>3. Live' = Live /\ Listed' = Listed
  BY <1>2 DEF Live, Listed
<1>4. \A c \in Live : c \in Conns /\ c # accepted + 1
  BY <1>2 DEF Live, ConnInv, Conns
<1>5. \A c \in Live : fd'[c] = fd[c]
  BY <1>1, <1>2, <1>4
<1>6. {fd'[c] : c \in Live} = {fd[c] : c \in Live}
  BY <1>5
<1> QED
  BY <1>2, <1>3, <1>5, <1>6 DEF ListInv

\* A new entry for a new thread.
LEMMA ListAdmit ==
    ASSUME ConnInv, ListInv, Admit, ~reused'
    PROVE  ListInv' /\ Live' = Live \cup {accepted}
<1> DEFINE f == fd[accepted]
<1>0. f \notin Listed
  <2>1. reused' = (reused \/ f \in Listed)
    BY DEF Admit
  <2> QED
    BY <2>1
<1>1. /\ accepted \in Conns /\ tpc[accepted] = "none" /\ f \in Fds /\ f \notin Listed /\ ~Full
      /\ infos' = [infos EXCEPT ![f] = IF @ = NoConn THEN accepted ELSE @]
      /\ tpc' = [tpc EXCEPT ![accepted] = "start"] /\ fd' = fd
      /\ infos \in [Fds -> Conns \cup {NoConn}] /\ tpc \in [Conns -> Phases]
      /\ accepted \in Nat
  BY <1>0 DEF Admit, ConnInv, TypeOK, Phases, Conns
<1>2. infos[f] = NoConn /\ accepted # NoConn
  BY <1>1 DEF Listed, Conns, NoConn
<1>3. infos' = [infos EXCEPT ![f] = accepted]
  BY <1>1, <1>2
<1>4. Listed' = Listed \cup {f}
  BY <1>1, <1>2, <1>3 DEF Listed
<1>5. Live' = Live \cup {accepted} /\ accepted \notin Live
  BY <1>1 DEF Live
<1>6. \A c \in Live : fd[c] # f
  BY <1>1 DEF ListInv
<1>7. Listed' = {fd'[c] : c \in Live'}
  BY <1>1, <1>4, <1>5 DEF ListInv
<1>8. \A c \in Live' : infos'[fd'[c]] = c
  <2>1. \A c \in Live : fd[c] \in Fds
    BY <1>1 DEF ConnInv, Live
  <2> QED
    BY <1>1, <1>3, <1>5, <1>6, <2>1 DEF ListInv
<1>9. Cardinality(Listed') = Cardinality(Listed) + 1 /\ Cardinality(Live') = Cardinality(Live) + 1
  BY <1>1, <1>4, <1>5, Finite, FS_AddElement
<1>10. Cardinality(Live') <= MaxThreadNum
  <2>1. Cardinality(Listed) < MaxThreadNum /\ Cardinality(Listed) = Cardinality(Live)
    <3>1. Cardinality(Listed) \in Nat /\ MaxThreadNum \in Nat
      BY Finite, FS_CardinalityType, ConstantsAssumption
    <3> QED
      BY <1>1, <3>1 DEF Full, ListInv
  <2>2. Cardinality(Live) \in Nat /\ MaxThreadNum \in Nat
    BY Finite, FS_CardinalityType, ConstantsAssumption
  <2> QED
    BY <1>9, <2>1, <2>2
<1> QED
  BY <1>5, <1>7, <1>8, <1>9, <1>10 DEF ListInv

\* A thread takes its entry with it.
LEMMA ListRemove ==
    ASSUME ConnInv, ListInv, NEW c \in Conns, Remove(c)
    PROVE  ListInv' /\ Live' = Live \ {c}
<1>1. /\ tpc[c] = "remove" /\ tpc' = [tpc EXCEPT ![c] = "gone"] /\ fd' = fd
      /\ infos' = [infos EXCEPT ![fd[c]] = NoConn]
      /\ infos \in [Fds -> Conns \cup {NoConn}] /\ tpc \in [Conns -> Phases]
  BY DEF Remove, Step, Without, ConnInv, TypeOK, Phases
<1>2. Live' = Live \ {c} /\ c \in Live
  BY <1>1 DEF Live
<1>3. fd[c] \in Fds /\ \A d \in Live : fd[d] \in Fds
  BY <1>1 DEF ConnInv, Live
<1>4. Listed' = Listed \ {fd[c]}
  BY <1>1, <1>3 DEF Listed
<1>5. \A d \in Live \ {c} : fd[d] # fd[c]
  BY <1>2 DEF ListInv
<1>6. fd[c] \in Listed
  BY <1>2 DEF ListInv
<1>7. Listed' = {fd'[d] : d \in Live'}
  BY <1>1, <1>2, <1>4, <1>5 DEF ListInv
<1>8. \A d \in Live' : infos'[fd'[d]] = d
  BY <1>1, <1>2, <1>3, <1>5 DEF ListInv
<1>9. Cardinality(Listed') = Cardinality(Listed) - 1 /\ Cardinality(Live') = Cardinality(Live) - 1
  BY <1>2, <1>4, <1>6, Finite, FS_RemoveElement
<1>10. Cardinality(Live') <= MaxThreadNum
  <2>1. Cardinality(Live) \in Nat /\ MaxThreadNum \in Nat /\ Cardinality(Live) <= MaxThreadNum
    BY Finite, FS_CardinalityType, ConstantsAssumption DEF ListInv
  <2> QED
    BY <1>9, <2>1
<1> QED
  BY <1>2, <1>7, <1>8, <1>9, <1>10 DEF ListInv

LEMMA ListStep ==
    ASSUME AInv, [Next]_vars, ~reused'
    PROVE  ListInv' /\ PeerInv'
<1> USE DEF Phases
<1>0. ConnInv /\ TypeOK
  BY DEF AInv, ConnInv
<1>1. ListInv /\ PeerInv
  <2>1. ASSUME NEW c \in Conns, Thread(c)
        PROVE  reused' = reused
    BY <2>1 DEF Thread, LookUp, LookUpAsserts, GiveUp, CheckPool, Register, Leave, Close, Remove
  <2>2. reused => reused'
    BY <2>1 DEF Next, Accept, Refuse, Admit, vars
  <2> QED
    BY <2>2 DEF AInv
<1>2. CASE Accept
  BY <1>0, <1>1, <1>2, ListAccept DEF Accept, PeerInv
<1>3. CASE Refuse
  BY <1>1, <1>3 DEF Refuse, ListInv, PeerInv, Listed, Live
<1>4. CASE Admit
  BY <1>0, <1>1, <1>4, ListAdmit DEF Admit, PeerInv
<1>5. ASSUME NEW c \in Conns, Thread(c)
      PROVE  ListInv' /\ PeerInv'
  <2>1. CASE LookUp(c)
    <3>1. Step(c, "start", "setup") /\ infos' = infos /\ peer' = [peer EXCEPT ![c] = infos[fd[c]]]
      BY <2>1 DEF LookUp, ListedUnder
    <3>2. c \in Live
      BY <3>1 DEF Step, Live
    <3>3. PeerInv'
      BY <1>0, <1>1, <3>1, <3>2 DEF PeerInv, ListInv, TypeOK
    <3> QED
      BY <1>0, <1>1, <3>1, <3>3, SameLive
  <2>2. CASE LookUpAsserts(c)
    BY <1>1, <2>2 DEF LookUpAsserts, ListInv, PeerInv, Listed, Live
  <2>3. CASE GiveUp(c)
    BY <1>0, <1>1, <2>3, SameLive DEF GiveUp, PeerInv
  <2>4. CASE CheckPool(c)
    <3>1. infos' = infos /\ peer' = peer
          /\ (Step(c, "setup", "close") \/ Step(c, "setup", "register"))
      BY <2>4 DEF CheckPool
    <3> QED
      BY <1>0, <1>1, <3>1, SameLive DEF PeerInv
  <2>5. CASE Register(c)
    BY <1>0, <1>1, <2>5, SameLive DEF Register, PeerInv
  <2>6. CASE Leave(c)
    BY <1>0, <1>1, <2>6, SameLive DEF Leave, PeerInv
  <2>7. CASE Close(c)
    BY <1>0, <1>1, <2>7, SameLive DEF Close, PeerInv
  <2>8. CASE Remove(c)
    BY <1>0, <1>1, <2>8, ListRemove DEF Remove, PeerInv
  <2> QED
    BY <1>5, <2>1, <2>2, <2>3, <2>4, <2>5, <2>6, <2>7, <2>8 DEF Thread
<1>6. CASE UNCHANGED vars
  BY <1>1, <1>6 DEF vars, ListInv, PeerInv, Listed, Live
<1> QED
  BY <1>2, <1>3, <1>4, <1>5, <1>6 DEF Next

-----------------------------------------------------------------------------
(* The pool.                                                               *)

\* While a thread that may register waits there is room for it, though others
\* may have registered since it looked.
LEMMA RoomForAll ==
    ASSUME ConnInv, ListInv, PoolInv, MaxThreadNum * MrSize <= PoolSize,
           NEW c \in Conns, tpc[c] = "register"
    PROVE  free >= MrSize
<1> DEFINE h == Cardinality(Holding)
           l == Cardinality(Live)
<1>1. h \in Nat /\ l \in Nat
  BY Finite, FS_CardinalityType
<1>2. /\ MrSize \in Nat /\ PoolSize \in Nat /\ MaxThreadNum \in Nat
  BY ConstantsAssumption
<1>3. h + 1 <= l
  <2>1. c \notin Holding /\ Holding \cup {c} \in SUBSET Live
    BY DEF Holding, Live
  <2>2. Cardinality(Holding \cup {c}) = h + 1
    BY <2>1, Finite, FS_AddElement
  <2> QED
    BY <2>1, <2>2, Finite, FS_Subset
<1>4. h + 1 <= MaxThreadNum
  BY <1>1, <1>2, <1>3 DEF ListInv
<1> HIDE DEF h, l
<1>5. MrSize * (h + 1) <= MrSize * MaxThreadNum /\ MrSize * (h + 1) = MrSize * h + MrSize
  BY <1>1, <1>2, <1>4, Products
<1>6. MrSize * MaxThreadNum = MaxThreadNum * MrSize
  BY <1>2
<1>7. MrSize * h \in Nat /\ MrSize * MaxThreadNum \in Nat
  BY <1>1, <1>2
<1>8. free = PoolSize - MrSize * h
  BY DEF PoolInv, h
<1> QED
  BY <1>2, <1>5, <1>6, <1>7, <1>8

\* Steps that neither take nor return memory.
LEMMA SamePool ==
    ASSUME PoolInv, free' = free, Holding' = Holding
    PROVE  PoolInv'
BY DEF PoolInv

LEMMA PoolStep ==
    ASSUME AInv, [Next]_vars, ~reused', MaxThreadNum * MrSize <= PoolSize
    PROVE  PoolInv'
<1> DEFINE h == Cardinality(Holding)
<1>0. /\ ConnInv /\ tpc \in [Conns -> Phases] /\ h \in Nat
      /\ MrSize \in Nat \ {0} /\ PoolSize \in Nat /\ Wrap \in Nat /\ PoolSize < Wrap
  BY ConstantsAssumption, Finite, FS_CardinalityType DEF AInv, ConnInv, TypeOK, Phases
<1>1. ListInv /\ PoolInv
  <2>1. ASSUME NEW c \in Conns, Thread(c)
        PROVE  reused' = reused
    BY <2>1 DEF Thread, LookUp, LookUpAsserts, GiveUp, CheckPool, Register, Leave, Close, Remove
  <2>2. reused => reused'
    BY <2>1 DEF Next, Accept, Refuse, Admit, vars
  <2> QED
    BY <2>2 DEF AInv
<1>2. CASE Accept \/ Refuse
  BY <1>1, <1>2, SamePool DEF Accept, Refuse, Holding
<1>3. CASE Admit
  <2>1. tpc[accepted] = "none" /\ tpc' = [tpc EXCEPT ![accepted] = "start"] /\ free' = free
    BY <1>0, <1>3 DEF Admit, ConnInv
  <2>2. Holding' = Holding
    BY <1>0, <2>1 DEF Holding
  <2> QED
    BY <1>1, <2>1, <2>2, SamePool
<1>4. ASSUME NEW c \in Conns, Thread(c)
      PROVE  PoolInv'
  <2>1. ASSUME NEW from \in Phases, NEW to \in Phases,
               Step(c, from, to), from # "serve", to # "serve", free' = free
        PROVE  PoolInv'
    <3>1. Holding' = Holding
      BY <1>0, <2>1 DEF Step, Holding
    <3> QED
      BY <1>1, <2>1, <3>1, SamePool
  <2>2. CASE LookUp(c)
    BY <2>1, <2>2 DEF LookUp, Phases
  <2>3. CASE LookUpAsserts(c)
    BY <1>1, <2>3, SamePool DEF LookUpAsserts, Holding
  <2>4. CASE GiveUp(c)
    BY <2>1, <2>4 DEF GiveUp, Phases
  <2>5. CASE CheckPool(c)
    BY <2>1, <2>5 DEF CheckPool, Phases
  <2>6. CASE Register(c)
    <3>1. tpc[c] = "register" /\ tpc' = [tpc EXCEPT ![c] = "serve"] /\ free' = (free - MrSize) % Wrap
      BY <2>6 DEF Register, Step, Taken
    <3>2. Holding' = Holding \cup {c} /\ c \notin Holding
      BY <1>0, <3>1 DEF Holding
    <3>3. Cardinality(Holding') = h + 1
      BY <3>2, Finite, FS_AddElement
    <3>4. free = PoolSize - MrSize * h /\ MrSize * h \in Nat /\ free >= MrSize
      BY <1>0, <1>1, <3>1, RoomForAll DEF PoolInv
    <3>5. free' = free - MrSize
      <4>1. free - MrSize \in Nat /\ free - MrSize < Wrap
        BY <1>0, <3>4
      <4> QED
        BY <3>1, <4>1, Below
    <3> HIDE DEF h
    <3>6. MrSize * (h + 1) = MrSize * h + MrSize
      BY <1>0, Products
    <3> QED
      BY <1>0, <3>3, <3>4, <3>5, <3>6 DEF PoolInv
  <2>7. CASE Leave(c)
    <3>1. tpc[c] = "serve" /\ tpc' = [tpc EXCEPT ![c] = "close"] /\ free' = (free + MrSize) % Wrap
      BY <2>7 DEF Leave, Step, Returned
    <3>2. Holding' = Holding \ {c} /\ c \in Holding
      BY <1>0, <3>1 DEF Holding
    <3>3. Cardinality(Holding') = h - 1 /\ Cardinality(Holding') \in Nat
      <4>1. Cardinality(Holding') = h - 1
        BY <3>2, Finite, FS_RemoveElement
      <4>2. IsFiniteSet(Holding')
        BY <3>2, Finite, FS_RemoveElement
      <4> QED
        BY <4>1, <4>2, FS_CardinalityType
    <3>4. PICK g \in Nat : g = h - 1
      BY <3>3
    <3>5. MrSize * (g + 1) = MrSize * g + MrSize /\ MrSize * g \in Nat
      BY <1>0, <3>4, Products
    <3>6. free = PoolSize - MrSize * (g + 1)
      <4>1. h = g + 1
        BY <1>0, <3>4
      <4> QED
        BY <1>1, <4>1 DEF PoolInv
    <3>7. free \in Nat
      BY <1>0 DEF ConnInv, TypeOK
    <3> HIDE DEF h
    <3>8. free + MrSize \in Nat /\ free + MrSize < Wrap /\ free + MrSize = PoolSize - MrSize * g
      BY <1>0, <3>5, <3>6, <3>7
    <3> QED
      BY <3>1, <3>3, <3>4, <3>8, Below DEF PoolInv
  <2>8. CASE Close(c)
    BY <2>1, <2>8 DEF Close, Phases
  <2>9. CASE Remove(c)
    BY <2>1, <2>9 DEF Remove, Phases
  <2> QED
    BY <1>4, <2>2, <2>3, <2>4, <2>5, <2>6, <2>7, <2>8, <2>9 DEF Thread
<1>5. CASE UNCHANGED vars
  BY <1>1, <1>5, SamePool DEF vars, Holding
<1> QED
  BY <1>2, <1>3, <1>4, <1>5 DEF Next

-----------------------------------------------------------------------------
(* What follows.                                                           *)

LEMMA AdmissionInit == Init => AInv
<1> SUFFICES ASSUME Init
             PROVE  AInv
  OBVIOUS
<1>1. ConnInv
  BY ConnInit
<1>2. Live = {} /\ Holding = {} /\ Listed = {}
  BY DEF Init, Live, Holding, Listed
<1>3. Cardinality({}) = 0 /\ MaxThreadNum \in Nat /\ MrSize \in Nat /\ PoolSize \in Nat
  BY FS_EmptySet, ConstantsAssumption
<1>4. ListInv
  BY <1>2, <1>3 DEF ListInv
<1>5. PeerInv
  BY DEF Init, PeerInv
<1>6. PoolInv
  BY <1>2, <1>3 DEF PoolInv, Init
<1> QED
  BY <1>1, <1>4, <1>5, <1>6 DEF AInv

\* Types, entries, peers and pool together are inductive.
THEOREM AdmissionInductive == Spec => []AInv
<1>1. AInv /\ [Next]_vars => AInv'
  BY ConnStep, ListStep, PoolStep DEF AInv
<1> QED
  BY <1>1, AdmissionInit, PTL DEF Spec

\* Every variable of the server keeps its type: an accepted connection has a
\* descriptor, an entry names an accepted connection.  It says nothing of the
\* pool's counter but its width; PoolNeverWraps does.
THEOREM ServerTypes == Spec => []TypeOK
<1>1. AInv => TypeOK
  BY DEF AInv, ConnInv
<1> QED
  BY <1>1, AdmissionInductive, PTL

\* The list of clients is the set of live threads, never more than the limit.
THEOREM EntriesAreThreads == Spec => []ListIsThreads
<1>1. AInv => ListIsThreads
  BY DEF AInv, ListInv, ListIsThreads
<1> QED
  BY <1>1, AdmissionInductive, PTL

\* Every thread was given the address of its own peer.
THEOREM PeersAreOwn == Spec => []OwnPeer
<1>1. AInv => OwnPeer
  BY DEF AInv, PeerInv, OwnPeer
<1> QED
  BY <1>1, AdmissionInductive, PTL

\* The pool has what the serving threads do not hold, and room for those that
\* have looked and not yet taken.
THEOREM PoolIsEnough == Spec => []PoolHolds
<1>1. AInv => PoolHolds
  BY RoomForAll DEF AInv, PoolInv, PoolHolds
<1> QED
  BY <1>1, AdmissionInductive, PTL

\* No step takes from the pool what is not there: the unsigned counter never wraps
\* round, with any number of threads between the test and the mutex.
THEOREM PoolNeverWraps == Spec => NoWrap
<1> DEFINE Exactly == ~reused' /\ MaxThreadNum * MrSize <= PoolSize =>
               free' - free = MrSize * (Cardinality(Holding) - Cardinality(Holding'))
<1>1. AInv /\ AInv' /\ [Next]_vars => [Exactly]_vars
  <2> SUFFICES ASSUME AInv, AInv', Next, ~reused', MaxThreadNum * MrSize <= PoolSize
               PROVE  free' - free = MrSize * (Cardinality(Holding) - Cardinality(Holding'))
    BY DEF vars
  <2>1. reused => reused'
    <3>1. ASSUME NEW c \in Conns, Thread(c)
          PROVE  reused' = reused
      BY <3>1 DEF Thread, LookUp, LookUpAsserts, GiveUp, CheckPool, Register, Leave, Close, Remove
    <3> QED
      BY <3>1 DEF Next, Accept, Refuse, Admit
  <2> DEFINE h == Cardinality(Holding)
             k == Cardinality(Holding')
  <2>2. free = PoolSize - MrSize * h /\ free' = PoolSize - MrSize * k
    BY <2>1 DEF AInv, PoolInv
  <2>3. MrSize \in Nat /\ PoolSize \in Nat /\ h \in Nat
    BY ConstantsAssumption, Finite, FS_CardinalityType
  <2>4. k \in Nat
    <3>1. Holding' \in SUBSET Conns
      BY DEF Holding
    <3> QED
      BY <3>1, FiniteConns, FS_Subset, FS_CardinalityType
  <2> HIDE DEF h, k
  <2>5. MrSize * (h - k) = MrSize * h - MrSize * k /\ MrSize * h \in Nat /\ MrSize * k \in Nat
    BY <2>3, <2>4
  <2>6. free' - free = MrSize * (h - k)
    BY <2>2, <2>3, <2>5
  <2> QED
    BY <2>6 DEF h, k
<1> QED
  BY <1>1, AdmissionInductive, PTL DEF Spec, NoWrap
=============================================================================
