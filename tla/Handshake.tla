----------------------------- MODULE Handshake -----------------------------
(***************************************************************************)
(* How the two sides of a transfer meet, over the TCP connection between a  *)
(* client and the thread that serves it: four times each sends a message    *)
(* and reads the other's (sockSyncData).  connectPeer exchanges a ready     *)
(* character and the queue pair data, postSendFile and postRecvFile the     *)
(* FileInfo and a go-ahead character.                                       *)
(*                                                                         *)
(* TCP keeps bytes in order and nothing else: a read returns as many as it  *)
(* likes of those that have arrived.  sockSyncData asks every time for the  *)
(* whole message and puts what it gets at the start of the memory for it.   *)
(*                                                                         *)
(* A byte is <<m, k>>: the k-th of the m-th message.                        *)
(***************************************************************************)
EXTENDS Naturals, Sequences

CONSTANTS
    Conns,   \* connections
    Sizes    \* the length of each message, in bytes

Ready == 1   \* connectPeer, 244
QPData == 2  \* 263
Offer == 3   \* postSendFile, 556; postRecvFile, 343
Go == 4      \* 603; 354
Rounds == Ready .. Go

ASSUME SizesAssumption == Sizes \in [Rounds -> Nat \ {0}]

VARIABLES
    side,   \* each side of a connection: the exchange it is at, where in it,
            \* total_read_bytes, remote_data, the messages it has sent, and
            \* whether all it took so far were the other's messages (history)
    wire,   \* the bytes under way to each side
    split   \* history: a read returned part of a message

meeting == <<side, wire, split>>

Sides == {"client", "server"}
Other(s) == IF s = "client" THEN "server" ELSE "client"

Unset == <<0, 0>>
MessageBytes(m) == [k \in 1 .. Sizes[m] |-> <<m, k>>]
Blank(m) == [k \in 1 .. Sizes[m] |-> Unset]

HandshakeInit ==
    /\ side = [c \in Conns |-> [s \in Sides |->
                 [at |-> Ready, pc |-> "idle", got |-> 0, data |-> <<>>,
                  sent |-> 0, exact |-> TRUE]]]
    /\ wire = [c \in Conns |-> [s \in Sides |-> <<>>]]
    /\ split = [c \in Conns |-> FALSE]

-----------------------------------------------------------------------------

\* The client connects and says whether it uses LUCP, and the server has read it.
Open(c) ==
    /\ \A s \in Sides : side[c][s].pc = "idle"
    /\ side' = [side EXCEPT ![c] = [s \in Sides |-> [@[s] EXCEPT !.pc = "send"]]]
    /\ UNCHANGED <<wire, split>>

\* sockSyncData sends its own message...
SendOwn(c, s) ==
    LET m == side[c][s].at
    IN  /\ side[c][s].pc = "send"
        /\ wire' = [wire EXCEPT ![c][Other(s)] = @ \o MessageBytes(m)]
        /\ side' = [side EXCEPT ![c][s].pc = "read", ![c][s].got = 0,
                                ![c][s].data = Blank(m),
                                ![c][s].sent = IF @ < m THEN m ELSE @]
        /\ UNCHANGED split

\* ... and then reads until it has had as many bytes as the other's message has.
Asked_OneMore(x) == Sizes[x.at] + 1   \* mutant
Asked(x) == Sizes[x.at]
Enough_Any(got, x) == got > 0         \* mutant
Enough_More(got, x) == got > Sizes[x.at]   \* mutant
Enough(got, x) == got >= Sizes[x.at]

Read(c, s) ==
    LET x == side[c][s]
    IN  /\ x.pc = "read"
        /\ \E k \in 1 .. Asked(x) :
              /\ k <= Len(wire[c][s])
              /\ wire' = [wire EXCEPT ![c][s] = SubSeq(@, k + 1, Len(@))]
              /\ side' = [side EXCEPT
                    ![c][s].data = [i \in DOMAIN @ |-> IF i <= k THEN wire[c][s][i] ELSE @[i]],
                    ![c][s].got = @ + k,
                    ![c][s].pc = IF Enough(x.got + k, x) THEN "check" ELSE "read"]
              /\ split' = [split EXCEPT ![c] = @ \/ k < Sizes[x.at]]

IsExact(x) == x.data = MessageBytes(x.at)

\* What was read passes for the other's message.
Accept(c, s) ==
    LET x == side[c][s]
    IN  /\ x.pc = "check"
        /\ side' = [side EXCEPT ![c][s].at = @ + 1, ![c][s].data = <<>>, ![c][s].got = 0,
                                ![c][s].pc = IF x.at = Go THEN "through" ELSE "send",
                                ![c][s].exact = @ /\ IsExact(x)]
        /\ UNCHANGED <<wire, split>>

\* Whoever returns with an error closes the connection.
Fail(c, s) ==
    /\ side' = [side EXCEPT ![c][s].pc = "failed", ![c][s].data = <<>>, ![c][s].got = 0]
    /\ UNCHANGED <<wire, split>>

\* It does not: no 'R', no 'Y', not READY_TO_RECEIVE, or a queue pair that cannot be
\* changed to these data.  The server takes any FileInfo.
Reject(c, s) ==
    /\ side[c][s].pc = "check" /\ ~IsExact(side[c][s])
    /\ s = "client" \/ side[c][s].at # Offer
    /\ Fail(c, s)

Gone(c, s) == side[c][s].pc = "failed"

\* Queue pair, controller, registered memory: what is set up before the first and
\* the third exchange may fail; a send or read fails when the other is gone.
SetUpFails(c, s) ==
    /\ side[c][s].pc = "send" /\ side[c][s].at \in {Ready, Offer}
    /\ Fail(c, s)

PeerGone(c, s) ==
    /\ side[c][s].pc \in {"send", "read"} /\ Gone(c, Other(s))
    /\ Fail(c, s)

Meet(c, s) == SendOwn(c, s) \/ Read(c, s) \/ Accept(c, s)
HandshakeFails(c, s) == Reject(c, s) \/ SetUpFails(c, s) \/ PeerGone(c, s)

-----------------------------------------------------------------------------

Exchange ==
    [at : 1 .. Go + 1, pc : {"idle", "send", "read", "check", "through", "failed"},
     got : Nat, data : Seq((0 .. Go) \X Nat), sent : 0 .. Go, exact : BOOLEAN]

\* Types of a connection; a side that reads on has not had enough.
HandshakeTypes ==
    /\ side \in [Conns -> [Sides -> Exchange]]
    /\ wire \in [Conns -> [Sides -> Seq(Rounds \X (Nat \ {0}))]]
    /\ split \in [Conns -> BOOLEAN]
    /\ \A c \in Conns, s \in Sides :
          LET x == side[c][s]
          IN  /\ x.pc = "read" => x.got < Sizes[x.at] /\ Len(x.data) = Sizes[x.at]
              /\ x.pc = "through" => x.at = Go + 1

\* As long as no read returns part of a message, every side takes exactly the
\* other's messages, however far one of them is ahead: no read reaches into the next.
\* And whatever happens, what it takes for the go-ahead is the go-ahead.
Exact ==
    \A c \in Conns, s \in Sides :
        LET x == side[c][s]
        IN  /\ ~split[c] => x.exact
            /\ x.at = Go /\ x.pc = "check" => IsExact(x)

\* Nobody is past an exchange the other has not come to, even if messages
\* arrive in pieces and are garbled: the bytes counted cannot be there earlier.
Barrier ==
    \A c \in Conns, s \in Sides : side[c][Other(s)].sent >= side[c][s].at - 1
=============================================================================
