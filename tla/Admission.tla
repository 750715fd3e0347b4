----------------------------- MODULE Admission -----------------------------
(***************************************************************************)
(* The file server's admission of clients: the accept loop of server.cpp,   *)
(* the ClientList it shares with the threads it detaches, the life of such  *)
(* a thread (recvData), and the pool of registered memory all threads draw  *)
(* on (HwRdma).  Descriptors are numbers the kernel gives out again as soon *)
(* as they are closed, lowest first.                                        *)
(***************************************************************************)
EXTENDS Integers, FiniteSets

CONSTANTS
    MaxConns,     \* bound: connections made in all
    MaxFd,        \* bound: descriptors, more than can be open at once
    MaxThreadNum, \* getMaxThreadNum()
    PoolSize,     \* free_size at the start: 64K * BlockNum * MaxThreadNum
    MrSize,       \* what one thread registers: block_size * BlockNum
    Wrap          \* free_size is unsigned: 2^64, here a small modulus

ASSUME ConstantsAssumption ==
    /\ {MaxConns, MaxFd, MaxThreadNum, PoolSize, MrSize, Wrap} \subseteq Nat \ {0}
    /\ PoolSize < Wrap /\ MrSize < Wrap

Conns  == 1 .. MaxConns     \* a connection, its peer's address, and its thread
Fds    == 1 .. MaxFd
NoConn == 0

VARIABLES
    accepted,  \* connections accepted so far: they are numbered in order
    apc,       \* accept loop: "accept", "test"
    fd,        \* the descriptor of each accepted connection
    open,      \* the descriptors open
    infos,     \* clientInfos: whose address is kept under a descriptor
    tpc,       \* thread of a connection: "none", "start", "setup", "register",
               \* "serve", "close", "remove", "gone"
    peer,      \* peer_addr: the address a thread's StreamControl was given
    free,      \* free_size
    aborted,   \* an assert failed and the server is gone
    reused     \* history: a descriptor came back with its old entry still listed

vars == <<accepted, apc, fd, open, infos, tpc, peer, free, aborted, reused>>

Init ==
    /\ accepted = 0 /\ apc = "accept"
    /\ fd = [c \in Conns |-> 0] /\ open = {}
    /\ infos = [f \in Fds |-> NoConn]
    /\ tpc = [c \in Conns |-> "none"] /\ peer = [c \in Conns |-> NoConn]
    /\ free = PoolSize /\ aborted = FALSE /\ reused = FALSE

-----------------------------------------------------------------------------
(* The accept loop.                                                        *)

Listed == {f \in Fds : infos[f] # NoConn}

\* getClientNum() >= getMaxThreadNum()
Full_OneMore == Cardinality(Listed) > MaxThreadNum   \* mutant
Full == Cardinality(Listed) >= MaxThreadNum

\* accept() returns the lowest descriptor that is not open.
Accept ==
    /\ ~aborted /\ apc = "accept" /\ accepted < MaxConns
    /\ \E f \in Fds \ open :
          /\ \A g \in Fds \ open : f <= g
          /\ fd' = [fd EXCEPT ![accepted + 1] = f]
          /\ open' = open \cup {f}
    /\ accepted' = accepted + 1
    /\ apc' = "test"
    /\ UNCHANGED <<infos, tpc, peer, free, aborted, reused>>

\* The server is full: the connection is closed.
Refuse ==
    /\ ~aborted /\ apc = "test" /\ Full
    /\ open' = open \ {fd[accepted]}
    /\ apc' = "accept"
    /\ UNCHANGED <<accepted, fd, infos, tpc, peer, free, aborted, reused>>

\* addClient does nothing when the descriptor is listed; the thread starts.
Admit ==
    LET f == fd[accepted]
    IN  /\ ~aborted /\ apc = "test" /\ ~Full
        /\ infos' = [infos EXCEPT ![f] = IF @ = NoConn THEN accepted ELSE @]
        /\ reused' = (reused \/ f \in Listed)
        /\ tpc' = [tpc EXCEPT ![accepted] = "start"]
        /\ apc' = "accept"
        /\ UNCHANGED <<accepted, fd, open, peer, free, aborted>>

-----------------------------------------------------------------------------
(* The thread of connection c.                                             *)

Step(c, from, to) ==
    /\ ~aborted /\ tpc[c] = from
    /\ tpc' = [tpc EXCEPT ![c] = to]
    /\ UNCHANGED <<accepted, apc, fd>>

\* The address getClientInfo(peer_fd) returns.
ListedUnder_Latest(c) == accepted   \* mutant
ListedUnder(c) == infos[fd[c]]

\* The client said which transport it wants; its address is looked up.
LookUp(c) ==
    /\ Step(c, "start", "setup")
    /\ ListedUnder(c) # NoConn
    /\ peer' = [peer EXCEPT ![c] = ListedUnder(c)]
    /\ UNCHANGED <<open, infos, free, aborted, reused>>

\* The assert in getClientInfo fails.
LookUpAsserts(c) ==
    /\ ~aborted /\ tpc[c] = "start"
    /\ ListedUnder(c) = NoConn
    /\ aborted' = TRUE
    /\ UNCHANGED <<accepted, apc, fd, open, infos, tpc, peer, free, reused>>

\* The connection is lost, or the queue pairs cannot be connected.
GiveUp(c) ==
    /\ Step(c, "start", "close") \/ Step(c, "setup", "close")
    /\ UNCHANGED <<open, infos, peer, free, aborted, reused>>

\* create_mr looks at free_size without the mutex ...
CheckPool(c) ==
    /\ Step(c, "setup", IF free < MrSize THEN "close" ELSE "register")
    /\ UNCHANGED <<open, infos, peer, free, aborted, reused>>

\* free_size -= length and free_size += length, unsigned.
Taken == (free - MrSize) % Wrap
Returned_Nothing == free   \* mutant
Returned == (free + MrSize) % Wrap

\* ... and takes the memory from it later, under the mutex.
Register(c) ==
    /\ Step(c, "register", "serve")
    /\ free' = Taken
    /\ UNCHANGED <<open, infos, peer, aborted, reused>>

\* recvData returns: the StreamControl is destroyed, with its memory region ...
Leave(c) ==
    /\ Step(c, "serve", "close")
    /\ free' = Returned
    /\ UNCHANGED <<open, infos, peer, aborted, reused>>

\* ... then the descriptor is closed ...
Close(c) ==
    /\ Step(c, "close", "remove")
    /\ open' = open \ {fd[c]}
    /\ UNCHANGED <<infos, peer, free, aborted, reused>>

\* clientInfos after removeClient(f).
Without_NotErased(f) == infos   \* mutant
Without(f) == [infos EXCEPT ![f] = NoConn]

\* ... and then what is listed under its number is erased.
Remove(c) ==
    /\ Step(c, "remove", "gone")
    /\ infos' = Without(fd[c])
    /\ UNCHANGED <<open, peer, free, aborted, reused>>

-----------------------------------------------------------------------------
Thread(c) ==
    \/ LookUp(c) \/ LookUpAsserts(c) \/ GiveUp(c) \/ CheckPool(c)
    \/ Register(c) \/ Leave(c) \/ Close(c) \/ Remove(c)

Next == Accept \/ Refuse \/ Admit \/ \E c \in Conns : Thread(c)

Spec == Init /\ [][Next]_vars

\* The loop deals with whom it accepted, the threads run, and a transfer ends.
Fairness == /\ WF_vars(Refuse \/ Admit)
            /\ \A c \in Conns : WF_vars(Thread(c))

FairSpec == Spec /\ Fairness

-----------------------------------------------------------------------------
(* Correctness.                                                            *)

\* Type invariant.  The counter is a number of its width by construction: that it
\* does not wrap round is NoWrap.
TypeOK ==
    /\ accepted \in 0 .. MaxConns /\ apc \in {"accept", "test"}
    /\ fd \in [Conns -> Fds \cup {0}] /\ open \in SUBSET Fds
    /\ infos \in [Fds -> Conns \cup {NoConn}]
    /\ tpc \in [Conns -> {"none", "start", "setup", "register", "serve",
                          "close", "remove", "gone"}]
    /\ peer \in [Conns -> Conns \cup {NoConn}]
    /\ free \in 0 .. Wrap - 1 /\ aborted \in BOOLEAN /\ reused \in BOOLEAN

Live    == {c \in Conns : tpc[c] \notin {"none", "gone"}}
Holding == {c \in Conns : tpc[c] = "serve"}

\* As long as no descriptor came back too early, the list has exactly one entry
\* per live thread, the thread's own, so the count the accept loop tests is the
\* number of threads, never more than MaxThreadNum.
ListIsThreads ==
    ~reused => /\ Listed = {fd[c] : c \in Live}
               /\ \A c \in Live : infos[fd[c]] = c
               /\ Cardinality(Live) <= MaxThreadNum

\* A thread controls the rate of its own peer, not of an earlier connection.
OwnPeer == ~reused => \A c \in Conns : peer[c] \in {NoConn, c}

\* The pool never gives out more than it has, though it is looked at outside the
\* mutex: MaxThreadNum threads fit in it.
PoolHolds ==
    ~reused /\ MaxThreadNum * MrSize <= PoolSize =>
        /\ free = PoolSize - MrSize * Cardinality(Holding)
        /\ \A c \in Conns : tpc[c] = "register" => free >= MrSize

\* Taking memory lowers the counter and returning it raises it by as much: the
\* unsigned arithmetic of HwRdma.h:181 and 193 never wraps round, although room is
\* tested (161) before the mutex is taken and several threads may be between the
\* two.  Once a descriptor came back too early there may be more threads than the
\* limit, and then the counter can wrap.
NoWrap ==
    [][~reused' /\ MaxThreadNum * MrSize <= PoolSize =>
          free' - free = MrSize * (Cardinality(Holding) - Cardinality(Holding'))]_vars

\* The assert in getClientInfo (ClientInfo.h:65): a thread that looks itself up
\* is in the list.
SelfListed == \A c \in Conns : tpc[c] = "start" => infos[fd[c]] # NoConn

\* Room is made again: a server that is full admits clients later.
RoomAgain == Cardinality(Listed) >= MaxThreadNum ~>
                 (aborted \/ Cardinality(Listed) < MaxThreadNum)
=============================================================================
