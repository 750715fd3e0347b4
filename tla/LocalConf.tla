------------------------------ MODULE LocalConf ------------------------------
(***************************************************************************)
(* The configuration file local.conf and its users.  Every transfer thread  *)
(* of a client daemon has a LocalConf of its own, and so has the server: it *)
(* starts from the constructor's defaults, loads the file, creating it if   *)
(* there is none, and its destructor writes the file again, whether loading *)
(* succeeded or not.  All programs in a directory share the file, without a *)
(* lock.                                                                    *)
(*                                                                         *)
(* Saving is two steps: opening truncates the file, and the text, shorter   *)
(* than the stream's buffer, is written from the file's start at close.     *)
(* Loading is two reads: one takes all there is, the other finds the end,   *)
(* or what has been added since.                                            *)
(***************************************************************************)
EXTENDS Integers

CONSTANTS
    Users,     \* LocalConf objects: transfer threads, servers
    Home,      \* the process each of them belongs to
    Fields,    \* the keys of the file
    Values,    \* values the parser accepts (of a rate, the six digits that are saved)
    Absent,    \* there is no line with the key
    Bad,       \* a value it rejects: not a number, or out of range
    Default,   \* the constructor's values
    Repair,    \* what loadConf sets instead of a rejected value
    Size,      \* characters of a text
    MaxEdits,  \* bound: changes by the operator
    MaxKills   \* bound: processes that end while they have users

Texts == [Fields -> Values \cup {Absent, Bad}]

ASSUME ConstantsAssumption ==
    /\ Absent \notin Values /\ Bad \notin Values /\ Absent # Bad
    /\ Default \in [Fields -> Values] /\ Repair \in [Fields -> Values]
    /\ Size \in [Texts -> Nat \ {0}]
    /\ MaxEdits \in Nat /\ MaxKills \in Nat

VARIABLES
    file,     \* the values in the file, and its length (-1: there is none)
    pc,       \* of each user, see below
    mem,      \* the members of its LocalConf
    seen,     \* how much its first read has got
    error,    \* error, in loadConf
    asked,    \* history: the values the operator wrote last
    stale,    \* history: the users whose values may not be those asked for
    spoiled,  \* history: see the properties
    edits, kills

vars == <<file, pc, mem, seen, error, asked, stale, spoiled, edits, kills>>

Blank == [f \in Fields |-> Absent]

\* "idle"; "open" was refused, so "create" and "fill" the file; "read" and read
\* the "rest"; "run" the transfer; "save" (truncate) and "write".
Places == {"idle", "create", "fill", "read", "rest", "run", "save", "write"}

Text(v) == [text |-> v, length |-> Size[v]]
Missing == [text |-> Blank, length |-> -1]
Empty   == [text |-> Blank, length |-> 0]

Init ==
    /\ file \in {Missing} \cup {Text(v) : v \in Texts}
    /\ asked = file.text
    /\ pc = [u \in Users |-> "idle"]
    /\ mem = [u \in Users |-> Default]
    /\ seen = [u \in Users |-> 0]
    /\ error = [u \in Users |-> FALSE]
    /\ stale = {} /\ spoiled = FALSE /\ edits = 0 /\ kills = 0

-----------------------------------------------------------------------------
(* Loading.                                                                *)

\* The object is constructed and tries to open the file.
Open(u) ==
    /\ pc[u] = "idle"
    /\ mem' = [mem EXCEPT ![u] = Default]
    /\ error' = [error EXCEPT ![u] = FALSE]
    /\ seen' = [seen EXCEPT ![u] = 0]
    /\ pc' = [pc EXCEPT ![u] = IF file = Missing THEN "create" ELSE "read"]
    /\ UNCHANGED <<file, asked, stale, spoiled, edits, kills>>

Resolved(text) ==
    [f \in Fields |-> CASE text[f] = Absent -> Default[f]
                        [] text[f] = Bad -> Repair[f]
                        [] OTHER -> text[f]]

\* The end of a file that is longer than its text is the end of another's last
\* comment: all of a line, or an error.
Garbage(n) == n > 1
Rejected(f) == (\E k \in Fields : f.text[k] = Bad) \/ Garbage(f.length - Size[f.text])

\* The first read.  An empty file has no error in it.
Read(u) ==
    /\ pc[u] = "read"
    /\ IF file = Empty
       THEN /\ pc' = [pc EXCEPT ![u] = "run"]
            /\ stale' = stale \cup {u}
            /\ UNCHANGED <<mem, seen, error>>
       ELSE /\ pc' = [pc EXCEPT ![u] = "rest"]
            /\ mem' = [mem EXCEPT ![u] = Resolved(file.text)]
            /\ seen' = [seen EXCEPT ![u] = file.length]
            /\ error' = [error EXCEPT ![u] = Rejected(file)]
            /\ UNCHANGED stale
    /\ UNCHANGED <<file, asked, spoiled, edits, kills>>

\* A thread whose configuration is in error returns (client.cpp:46, server.cpp:24).
AfterLoad_Gone(failed) == IF failed THEN "idle" ELSE "run"   \* mutant
AfterLoad(failed) == IF failed THEN "save" ELSE "run"

\* The next read begins where the first ended, in whatever file there is now.
ReadRest(u) ==
    /\ pc[u] = "rest"
    /\ error' = [error EXCEPT ![u] = @ \/ Garbage(file.length - seen[u])]
    /\ pc' = [pc EXCEPT ![u] = AfterLoad(error'[u])]
    /\ UNCHANGED <<file, mem, seen, asked, stale, spoiled, edits, kills>>

\* The transfer ends, in any way.
Finish(u) ==
    /\ pc[u] = "run"
    /\ pc' = [pc EXCEPT ![u] = "save"]
    /\ UNCHANGED <<file, mem, seen, error, asked, stale, spoiled, edits, kills>>

-----------------------------------------------------------------------------
(* Saving: the destructor, and createDefaultConf.                          *)

Truncate(u) ==
    /\ pc[u] \in {"create", "save"}
    /\ file' = Empty
    /\ pc' = [pc EXCEPT ![u] = IF @ = "create" THEN "fill" ELSE "write"]
    /\ spoiled' = (spoiled \/ u \in stale)
    /\ UNCHANGED <<mem, seen, error, asked, stale, edits, kills>>

LargerOf(a, b) == IF a > b THEN a ELSE b

Saved_Default(u) == Default   \* mutant
Saved(u) == mem[u]

\* What another has written meanwhile is overwritten from the start, and stays
\* behind the end if it was longer.
Write(u) ==
    /\ pc[u] \in {"fill", "write"}
    /\ LET new == Text(Saved(u))
       IN  file' = [new EXCEPT !.length = LargerOf(@, file.length)]
    /\ pc' = [pc EXCEPT ![u] = IF @ = "fill" THEN "read" ELSE "idle"]
    /\ error' = [error EXCEPT ![u] = FALSE]
    /\ spoiled' = (spoiled \/ u \in stale)
    /\ stale' = stale \ {u}
    /\ UNCHANGED <<mem, seen, asked, edits, kills>>

-----------------------------------------------------------------------------
(* The surroundings.                                                       *)

\* Those who have opened the file and not read it yet will read the new text.
HaveOld == {u \in Users : pc[u] \notin {"idle", "read"}}

\* The operator writes the file.
Edit(v) ==
    /\ edits < MaxEdits
    /\ file' = Text(v)
    /\ asked' = v
    /\ stale' = HaveOld
    /\ spoiled' = (spoiled /\ HaveOld # {})
    /\ edits' = edits + 1
    /\ UNCHANGED <<pc, mem, seen, error, kills>>

\* A process ends, its threads wherever they are: CMD_END, an assert, a signal.
Kill(p) ==
    LET gone == {u \in Users : Home[u] = p}
    IN  /\ kills < MaxKills
        /\ \E u \in gone : pc[u] # "idle"
        /\ pc' = [u \in Users |-> IF u \in gone THEN "idle" ELSE pc[u]]
        /\ error' = [u \in Users |-> error[u] /\ u \notin gone]
        /\ stale' = stale \ gone
        /\ spoiled' = (spoiled \/ \E u \in gone : pc[u] \in {"fill", "write"})
        /\ kills' = kills + 1
        /\ UNCHANGED <<file, mem, seen, asked, edits>>

Next ==
    \/ \E u \in Users : \/ Open(u) \/ Read(u) \/ ReadRest(u) \/ Finish(u)
                        \/ Truncate(u) \/ Write(u)
    \/ \E v \in Texts : Edit(v)
    \/ \E p \in {Home[u] : u \in Users} : Kill(p)

\* A thread that loads or saves goes on; nothing says that a transfer starts or
\* ends.
Fairness ==
    \A u \in Users : WF_vars(Read(u) \/ ReadRest(u) \/ Truncate(u) \/ Write(u))

Spec == Init /\ [][Next]_vars /\ Fairness

-----------------------------------------------------------------------------
(* Properties.  A user is stale that found the file empty in the middle of     *)
(* another's save, or had it loaded when the operator changed it.  The file is *)
(* spoiled when a stale user has saved, or a process has ended between its     *)
(* truncation and its text; a change by the operator while nobody has it       *)
(* loaded mends it.                                                            *)

Wanted == Resolved(asked)

TypeOK ==
    /\ file \in [text : Texts, length : Int] /\ asked \in Texts
    /\ pc \in [Users -> Places] /\ mem \in [Users -> [Fields -> Values]]
    /\ seen \in [Users -> Int] /\ error \in [Users -> BOOLEAN]
    /\ stale \in SUBSET Users /\ spoiled \in BOOLEAN /\ edits \in Nat /\ kills \in Nat

\* However many transfers load, save and overwrite each other's file at once, each
\* runs with what the operator wrote (completed and repaired), no load fails if that
\* was complete and valid, and outside a save the file says what the operator said:
\* the saves that the destructor adds to every transfer do no harm.  Not promised, for
\* the code does not keep it: a load between another's truncation and its text gives
\* the defaults, a change by the operator does not reach those who have loaded, both
\* lose the operator's text when they save, and so does a process that ends in the
\* middle of a save.  Kept says that nothing else does, and that until such a
\* save the stale users harm nobody but themselves.
Kept ==
    ~spoiled =>
        /\ \A u \in Users \ stale : pc[u] = "run" => mem[u] = Wanted
        /\ \A u \in Users \ stale : error[u] => asked # Wanted
        /\ (\A u \in Users : pc[u] \notin {"fill", "write"}) =>
              Resolved(file.text) = Wanted /\ file.length # 0

\* A text that makes loading fail does so only for a while: a transfer that gives up
\* on it leaves a text all can load, also when others load and save at the same time.
Repaired == ([]~spoiled) => <>[](\A u \in Users : ~error[u])

=============================================================================
