---------------------------- MODULE FileTokenStorage ----------------------------
(***************************************************************************)
(* Access tokens on disk (tokenstorage_file.go): goroutines of one or more *)
(* processes call Get, Set and Delete of a ScopedTokenStorage over a       *)
(* FileTokenStorage.  Each process has a FileTokenStorage of its own, all  *)
(* of them on one directory, with one file per effective key.              *)
(*                                                                         *)
(* A process's mutex covers a whole call, the system calls of two          *)
(* processes interleave.  A file is reduced to the token in it: tokens are *)
(* numbered in the order they are stored, 0 stands for an entry that does  *)
(* not decode or whose token is empty.  Keys are sequences of characters   *)
(* and the hash in a file's name is taken to be injective.  The temporary  *)
(* file of a Set is seen by nobody else and left out.                      *)
(***************************************************************************)
EXTENDS Naturals, Sequences

CONSTANTS
    Goroutines,     \* the callers
    Processes,      \* the processes they may run in
    Homes,          \* the ways they may be spread over processes
    Nobody,         \* a mutex that is free
    Char,           \* the characters of scopes and keys
    NUL,            \* the separator between the two
    Clients,        \* who uses the storage: pairs of a scope, one per shop, and a
                    \* key, the identity of the credentials used there
    Absent,         \* no file
    MaxTokens       \* bound on the tokens stored

ASSUME NobodyAssumption == Nobody \notin Goroutines
ASSUME HomesAssumption  == Homes \subseteq [Goroutines -> Processes]
ASSUME AbsentAssumption == Absent \notin Nat
ASSUME BoundAssumption  == MaxTokens \in Nat
ASSUME ClientsAssumption ==     \* a scope is a URL: no NUL in it
    Clients \subseteq Seq(Char \ {NUL}) \X Seq(Char)

VARIABLES
    home,       \* home[g]: the process goroutine g runs in
    pc,         \* pc[g]: the step g takes next
    job,        \* job[g]: g's call, its operation and arguments
    mu,         \* mu[p]: who holds the mutex of p's FileTokenStorage
    read,       \* read[g]: what g's Get has read
    file,       \* file[k]: the content of the file for effective key k
    made,       \* number of tokens stored
    expired,    \* tokens whose expiry has passed
    answer      \* answer[g]: the token Get returned to g last, or 0

vars == <<home, pc, job, mu, read, file, made, expired, answer>>

NoToken == 0
Junk    == 0    \* an entry without a token, or that does not decode

\* Mutant of ScopedKey: without the separator.
PlainKey(c) == c[1] \o c[2]

\* The effective key of a ScopedTokenStorage.
ScopedKey(c) == c[1] \o <<NUL>> \o c[2]

\* The effective keys, and the file names they stand for, of all users.
Keys == {ScopedKey(c) : c \in Clients}
KeyOf(g) == ScopedKey(job[g].client)

Jobs  == [op : {"get", "set", "delete"}, client : Clients, token : 0 .. made]

NoJob == [op |-> "none"]

Inside == {"read", "examine", "drop", "write", "rename", "remove"}
Steps  == Inside \cup {"idle", "enter"}

TypeOK ==
    /\ home \in Homes
    /\ pc \in [Goroutines -> Steps]
    /\ job \in [Goroutines -> Jobs \cup {NoJob}]
    /\ \A g \in Goroutines : pc[g] # "idle" => job[g] \in Jobs
    /\ mu \in [Processes -> Goroutines \cup {Nobody}]
    /\ read \in [Goroutines -> (0 .. made) \cup {Absent}]
    /\ file \in [Keys -> (0 .. made) \cup {Absent}]
    /\ made \in 0 .. MaxTokens
    /\ expired \in SUBSET (1 .. made)
    /\ answer \in [Goroutines -> 0 .. made]

\* The directory may hold entries nobody can use, left by another program.
Init ==
    /\ home \in Homes
    /\ pc = [g \in Goroutines |-> "idle"]
    /\ job = [g \in Goroutines |-> NoJob]
    /\ mu = [p \in Processes |-> Nobody]
    /\ read = [g \in Goroutines |-> Absent]
    /\ file \in [Keys -> {Absent, Junk}]
    /\ made = 0
    /\ expired = {}
    /\ answer = [g \in Goroutines |-> NoToken]

-----------------------------------------------------------------------------
\* A file whose token Get would return.
Valid(content) == content \notin {Absent, Junk} \cup expired

Goto(g, step) == pc' = [pc EXCEPT ![g] = step]

\* g's call returns, and its deferred Unlock runs.
Leave(g) ==
    /\ Goto(g, "idle")
    /\ job' = [job EXCEPT ![g] = NoJob]
    /\ mu' = [mu EXCEPT ![home[g]] = Nobody]
    /\ read' = [read EXCEPT ![g] = Absent]

\* Get returns token t to g.
Return(g, t) == Leave(g) /\ answer' = [answer EXCEPT ![g] = t]

-----------------------------------------------------------------------------
\* g starts a call.
Begin(g, j) ==
    /\ pc[g] = "idle"
    /\ Goto(g, "enter")
    /\ job' = [job EXCEPT ![g] = j]
    /\ UNCHANGED <<home, mu, read, file, expired, answer>>

BeginRead(g) ==
    \E op \in {"get", "delete"}, c \in Clients :
        /\ Begin(g, [op |-> op, client |-> c, token |-> NoToken])
        /\ UNCHANGED made

\* Set of a token obtained just now, which may be empty.
BeginSet(g) ==
    /\ made < MaxTokens
    /\ made' = made + 1
    /\ \E t \in {made + 1, NoToken}, c \in Clients :
           Begin(g, [op |-> "set", client |-> c, token |-> t])

\* g locks the mutex.
Enter(g) ==
    /\ pc[g] = "enter"
    /\ mu[home[g]] = Nobody
    /\ mu' = [mu EXCEPT ![home[g]] = g]
    /\ \/ job[g].op = "get" /\ Goto(g, "read")
       \/ job[g].op = "set" /\ Goto(g, "write")
       \/ job[g].op = "delete" /\ Goto(g, "remove")
    /\ UNCHANGED <<home, job, read, file, made, expired, answer>>

\* The call finds its context done before it locks the mutex.
GiveUp(g) ==
    /\ pc[g] = "enter"
    /\ Goto(g, "idle")
    /\ job' = [job EXCEPT ![g] = NoJob]
    /\ UNCHANGED <<home, mu, read, file, made, expired, answer>>

\* Get reads the file, or returns an error because it cannot.
Read(g) ==
    /\ pc[g] = "read"
    /\ \/ /\ Goto(g, "examine")
          /\ read' = [read EXCEPT ![g] = file[KeyOf(g)]]
          /\ UNCHANGED <<job, mu>>
       \/ Leave(g)
    /\ UNCHANGED <<home, file, made, expired, answer>>

\* Mutant of Examine: a missing file is not told from one with a token.
ExamineMissing(g) ==
    /\ pc[g] = "examine"
    /\ \/ read[g] \notin {Junk} \cup expired /\ Return(g, read[g])
       \/ /\ read[g] \in {Junk} \cup expired
          /\ Goto(g, "drop")
          /\ UNCHANGED <<job, mu, read, answer>>
    /\ UNCHANGED <<home, file, made, expired>>

\* Get decodes what it read and compares the expiry with the clock.
Examine(g) ==
    /\ pc[g] = "examine"
    /\ \/ read[g] = Absent /\ Return(g, NoToken)
       \/ Valid(read[g]) /\ Return(g, read[g])
       \/ /\ read[g] # Absent /\ ~Valid(read[g])
          /\ Goto(g, "drop")
          /\ UNCHANGED <<job, mu, read, answer>>
    /\ UNCHANGED <<home, file, made, expired>>

\* The system call that removes a file, which may fail.
Unlink(k) ==
    \/ file' = [file EXCEPT ![k] = Absent]
    \/ UNCHANGED file

\* Get removes the file it cannot use and reports a miss.
Drop(g) ==
    /\ pc[g] = "drop"
    /\ Unlink(KeyOf(g))
    /\ Return(g, NoToken)
    /\ UNCHANGED <<home, made, expired>>

\* Mutant of Write: the token is written to the file itself.
WriteInPlace(g) ==
    /\ pc[g] = "write"
    /\ file' = [file EXCEPT ![KeyOf(g)] = Junk]
    /\ Goto(g, "rename")
    /\ UNCHANGED <<home, job, mu, read, made, expired, answer>>

\* Set writes a temporary file, or returns an error because it cannot.
Write(g) ==
    /\ pc[g] = "write"
    /\ \/ Goto(g, "rename") /\ UNCHANGED <<job, mu, read>>
       \/ Leave(g)
    /\ UNCHANGED <<home, file, made, expired, answer>>

\* Mutant of Rename: an error is returned without unlocking.
RenameKeepsLock(g) ==
    /\ pc[g] = "rename"
    /\ Goto(g, "idle")
    /\ job' = [job EXCEPT ![g] = NoJob]
    /\ UNCHANGED <<home, mu, read, file, made, expired, answer>>

\* Set renames it to the file for its key, or returns an error.
Rename(g) ==
    /\ pc[g] = "rename"
    /\ \/ file' = [file EXCEPT ![KeyOf(g)] = job[g].token]
       \/ UNCHANGED file
    /\ Leave(g)
    /\ UNCHANGED <<home, made, expired, answer>>

\* Delete removes the file.
Remove(g) ==
    /\ pc[g] = "remove"
    /\ Unlink(KeyOf(g))
    /\ Leave(g)
    /\ UNCHANGED <<home, made, expired, answer>>

-----------------------------------------------------------------------------
\* Process p dies and is started again.
Crash(p) ==
    LET lives == {g \in Goroutines : home[g] = p} IN
    /\ pc' = [g \in Goroutines |-> IF g \in lives THEN "idle" ELSE pc[g]]
    /\ job' = [g \in Goroutines |-> IF g \in lives THEN NoJob ELSE job[g]]
    /\ read' = [g \in Goroutines |-> IF g \in lives THEN Absent ELSE read[g]]
    /\ mu' = [mu EXCEPT ![p] = Nobody]
    /\ UNCHANGED <<home, file, made, expired, answer>>

\* The expiry of token t passes.
Expire(t) ==
    /\ t \in 1 .. made
    /\ expired' = expired \cup {t}
    /\ UNCHANGED <<home, pc, job, mu, read, file, made, answer>>

\* What g does inside the mutex.
Step(g) ==
    \/ Read(g) \/ Examine(g) \/ Drop(g)
    \/ Write(g) \/ Rename(g) \/ Remove(g)

Next ==
    \/ \E g \in Goroutines : BeginRead(g) \/ BeginSet(g) \/ Enter(g) \/ GiveUp(g) \/ Step(g)
    \/ \E p \in Processes : Crash(p)
    \/ \E t \in 1 .. MaxTokens : Expire(t)

Spec == Init /\ [][Next]_vars

\* System calls return, and a sync.Mutex does not starve those that wait.
Fairness == \A g \in Goroutines : WF_vars(Step(g)) /\ SF_vars(Enter(g))

FairSpec == Spec /\ Fairness

-----------------------------------------------------------------------------
\* All goroutines run in one process.
OneProcess == \A g, h \in Goroutines : home[g] = home[h]

\* A call returns, also one that waits for a mutex others keep taking and one
\* whose predecessor failed.
EveryCallReturns == \A g \in Goroutines : pc[g] # "idle" ~> pc[g] = "idle"

\* g is about to remove the file for effective key k.
Removing(g, k) ==
    /\ pc[g] \in {"drop", "remove"}
    /\ KeyOf(g) = k

\* g has a Set of token t for effective key k under way.
Setting(g, k, t) ==
    /\ pc[g] = "rename"
    /\ KeyOf(g) = k
    /\ job[g].token = t

\* A token that can still be used goes away only for another one that is set, or
\* because its file is removed, in one process by Delete alone: never because a
\* Set fails half-way or its process dies.
KeptOrReplaced ==
    \A k \in Keys :
        Valid(file[k]) /\ file'[k] # file[k] =>
            \E g \in Goroutines :
                \/ Setting(g, k, file'[k])
                \/ Removing(g, k) /\ (OneProcess => job[g].op = "delete")
UsableTokensStay == [][KeptOrReplaced]_vars

\* Per scope and key the storage of one process is a register, however
\* its goroutines interleave and whatever fails or dies.  Nothing is said of
\* directories that several processes share.
Held ==
    [c \in Clients |->
        IF OneProcess /\ Valid(file[ScopedKey(c)]) THEN file[ScopedKey(c)] ELSE NoToken]

Answer == [g \in Goroutines |-> IF OneProcess THEN answer[g] ELSE NoToken]

Register == INSTANCE TokenRegister
    WITH Users <- Goroutines, Keys <- Clients, held <- Held, answer <- Answer

ImplementsRegister == Register!Spec

-----------------------------------------------------------------------------
\* What the comment of FileTokenStorage.mu says: the atomic system calls make
\* the storage safe across processes, so Get removes only files of no use.
RemovesOnlyUseless ==
    \A g \in Goroutines : pc[g] = "drop" => ~Valid(file[KeyOf(g)])
=============================================================================
