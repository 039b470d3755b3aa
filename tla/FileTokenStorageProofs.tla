------------------------- MODULE FileTokenStorageProofs -------------------------
(***************************************************************************)
(* What FileTokenStorage guarantees for every set of goroutines, processes *)
(* and clients.  The argument: whoever is inside a process's mutex is the  *)
(* one that holds it (InsideHoldsMutex), so in one process a file does not *)
(* change between the moment Get reads it and the moment Get removes it    *)
(* (ReadIsCurrent), and removing an entry that is of no use is invisible;  *)
(* and two clients have two files, since the separator shows where the     *)
(* scope ends (KeysDistinct).                                              *)
(***************************************************************************)
EXTENDS FileTokenStorage, TLAPS

USE DEF NoToken, Junk

\* A goroutine inside the mutex of its process holds it.
InsideHoldsMutex == \A g \in Goroutines : pc[g] \in Inside => mu[home[g]] = g

\* A goroutine is at a step of the operation it was asked for.
StepFitsJob ==
    \A g \in Goroutines :
        /\ pc[g] \in {"read", "examine", "drop"} => job[g].op = "get"
        /\ pc[g] \in {"write", "rename"} => job[g].op = "set"
        /\ pc[g] = "remove" => job[g].op = "delete"

\* In one process what Get has read is what the file still holds.
ReadIsCurrent ==
    OneProcess => \A g \in Goroutines :
                      pc[g] \in {"examine", "drop"} => file[KeyOf(g)] = read[g]

\* What Get is about to remove is an entry it found to be of no use.
DropsUseless == \A g \in Goroutines : pc[g] = "drop" => read[g] # Absent /\ ~Valid(read[g])

IInv ==
    /\ TypeOK
    /\ InsideHoldsMutex
    /\ StepFitsJob
    /\ ReadIsCurrent
    /\ DropsUseless

-----------------------------------------------------------------------------
\* Two clients never share an effective key: the first separator in it ends the
\* scope.
THEOREM KeysDistinct ==
    ASSUME NEW c \in Clients, NEW d \in Clients, ScopedKey(c) = ScopedKey(d)
    PROVE  c = d
<1> DEFINE sc == c[1]  nc == c[2]  sd == d[1]  nd == d[2]
<1>1. /\ sc \in Seq(Char \ {NUL}) /\ sd \in Seq(Char \ {NUL})
      /\ nc \in Seq(Char) /\ nd \in Seq(Char)
      /\ c = <<sc, nc>> /\ d = <<sd, nd>>
  BY ClientsAssumption
<1>2. sc \o <<NUL>> \o nc = sd \o <<NUL>> \o nd
  BY DEF ScopedKey
<1> HIDE DEF sc, nc, sd, nd
<1> DEFINE Any == Char \cup {NUL}  kc == sc \o <<NUL>> \o nc  kd == sd \o <<NUL>> \o nd
<1>3. /\ sc \in Seq(Any) /\ sd \in Seq(Any) /\ nc \in Seq(Any) /\ nd \in Seq(Any)
      /\ <<NUL>> \in Seq(Any)
  BY <1>1
<1>4. /\ Len(kc) = Len(sc) + 1 + Len(nc)
      /\ kc[Len(sc) + 1] = NUL
      /\ \A i \in 1 .. Len(sc) : kc[i] = sc[i]
      /\ \A i \in 1 .. Len(nc) : kc[Len(sc) + 1 + i] = nc[i]
  BY <1>3
<1>5. /\ Len(kd) = Len(sd) + 1 + Len(nd)
      /\ kd[Len(sd) + 1] = NUL
      /\ \A i \in 1 .. Len(sd) : kd[i] = sd[i]
      /\ \A i \in 1 .. Len(nd) : kd[Len(sd) + 1 + i] = nd[i]
  BY <1>3
<1>6. /\ Len(sc) \in Nat /\ Len(sd) \in Nat /\ Len(nc) \in Nat /\ Len(nd) \in Nat
      /\ \A i \in 1 .. Len(sc) : sc[i] # NUL
      /\ \A i \in 1 .. Len(sd) : sd[i] # NUL
  BY <1>1
<1>7. kc = kd
  BY <1>2
<1> HIDE DEF kc, kd
<1>8. Len(sc) = Len(sd)
  <2>1. ~(Len(sc) < Len(sd))
    BY <1>4, <1>5, <1>6, <1>7
  <2>2. ~(Len(sd) < Len(sc))
    BY <1>4, <1>5, <1>6, <1>7
  <2>3. QED  BY <2>1, <2>2, <1>6
<1>9. sc = sd
  BY <1>1, <1>4, <1>5, <1>7, <1>8
<1>10. Len(nc) = Len(nd) /\ \A i \in 1 .. Len(nc) : nc[i] = nd[i]
  BY <1>4, <1>5, <1>6, <1>7, <1>8
<1>11. nc = nd
  BY <1>1, <1>10
<1>12. QED  BY <1>1, <1>9, <1>11

\* The client of a call under way has a file.
LEMMA KeyOfJob ==
    ASSUME TypeOK, NEW g \in Goroutines, pc[g] # "idle"
    PROVE  /\ job[g] \in Jobs
           /\ job[g].client \in Clients
           /\ KeyOf(g) \in Keys
  BY DEF TypeOK, Jobs, Keys, KeyOf

-----------------------------------------------------------------------------
LEMMA InitInv == Init => IInv
  BY BoundAssumption, NobodyAssumption
  DEF Init, IInv, TypeOK, InsideHoldsMutex, StepFitsJob, ReadIsCurrent, DropsUseless, Inside, Steps, NoJob

\* Types survive every step.
LEMMA TypeStep == TypeOK /\ [Next]_vars => TypeOK'
<1> SUFFICES ASSUME TypeOK, [Next]_vars PROVE TypeOK'
  OBVIOUS
<1> USE NobodyAssumption, BoundAssumption, AbsentAssumption, HomesAssumption
    DEF TypeOK, Steps, Inside, Goto
<1>1. ASSUME NEW g \in Goroutines, BeginRead(g) PROVE TypeOK'
  <2>1. PICK op \in {"get", "delete"}, c \in Clients :
             Begin(g, [op |-> op, client |-> c, token |-> NoToken]) /\ made' = made
    BY <1>1 DEF BeginRead
  <2>2. [op |-> op, client |-> c, token |-> NoToken] \in Jobs
    BY DEF Jobs
  <2>3. Jobs' = Jobs
    BY <2>1 DEF Jobs
  <2>4. QED  BY <2>1, <2>2, <2>3 DEF Begin
<1>2. ASSUME NEW g \in Goroutines, BeginSet(g) PROVE TypeOK'
  <2>1. PICK t \in {made + 1, NoToken}, c \in Clients :
             Begin(g, [op |-> "set", client |-> c, token |-> t])
    BY <1>2 DEF BeginSet
  <2>2. made' = made + 1 /\ made' \in 0 .. MaxTokens /\ 0 .. made \subseteq 0 .. made'
    BY <1>2 DEF BeginSet
  <2>3. [op |-> "set", client |-> c, token |-> t] \in Jobs'
    BY <2>2 DEF Jobs
  <2>4. Jobs \subseteq Jobs'
    BY <2>2 DEF Jobs
  <2>5. job' \in [Goroutines -> (Jobs \cup {NoJob})'] /\ pc' \in [Goroutines -> Steps]
    BY <2>1, <2>3, <2>4 DEF Begin, NoJob
  <2>6. \A h \in Goroutines : pc'[h] # "idle" => job'[h] \in Jobs'
    BY <2>1, <2>3, <2>4 DEF Begin
  <2>7. QED  BY <2>1, <2>2, <2>5, <2>6 DEF Begin, Keys
<1>3. ASSUME NEW g \in Goroutines, Enter(g) PROVE TypeOK'
  <2>1. Jobs' = Jobs
    BY <1>3 DEF Jobs, Enter
  <2>2. QED  BY <1>3, <2>1 DEF Enter
<1>4. ASSUME NEW g \in Goroutines, GiveUp(g) PROVE TypeOK'
  <2>1. Jobs' = Jobs
    BY <1>4 DEF Jobs, GiveUp
  <2>2. QED  BY <1>4, <2>1 DEF GiveUp
<1>5. ASSUME NEW g \in Goroutines, Step(g) PROVE TypeOK'
  <2>1. Jobs' = Jobs /\ Keys' = Keys /\ made' = made
    BY <1>5 DEF Jobs, Keys, Step, Read, Examine, Drop, Write, Rename, Remove
  <2>2. CASE Read(g)
    BY <2>1, <2>2, KeyOfJob DEF Read, Leave
  <2>3. CASE Examine(g)
    BY <2>1, <2>3 DEF Examine, Return, Leave, Valid
  <2>4. CASE Drop(g)
    BY <2>1, <2>4, KeyOfJob DEF Drop, Unlink, Return, Leave
  <2>5. CASE Write(g)
    BY <2>1, <2>5 DEF Write, Leave
  <2>6. CASE Rename(g)
    <3>1. job[g].token \in 0 .. made
      BY <2>6 DEF Rename, Jobs
    <3>2. QED  BY <2>1, <2>6, <3>1, KeyOfJob DEF Rename, Leave
  <2>7. CASE Remove(g)
    BY <2>1, <2>7, KeyOfJob DEF Remove, Unlink, Leave
  <2>8. QED  BY <1>5, <2>2, <2>3, <2>4, <2>5, <2>6, <2>7 DEF Step
<1>6. ASSUME NEW p \in Processes, Crash(p) PROVE TypeOK'
  <2>1. Jobs' = Jobs
    BY <1>6 DEF Jobs, Crash
  <2>2. QED  BY <1>6, <2>1 DEF Crash
<1>7. ASSUME NEW t \in 1 .. MaxTokens, Expire(t) PROVE TypeOK'
  <2>1. Jobs' = Jobs
    BY <1>7 DEF Jobs, Expire
  <2>2. QED  BY <1>7, <2>1 DEF Expire
<1>8. CASE UNCHANGED vars
  <2>1. Jobs' = Jobs
    BY <1>8 DEF Jobs, vars
  <2>2. QED  BY <1>8, <2>1 DEF vars
<1>9. QED  BY <1>1, <1>2, <1>3, <1>4, <1>5, <1>6, <1>7, <1>8 DEF Next

\* A step inside the mutex belongs to one goroutine, which either goes on or
\* leaves: the others keep their step and their call.
LEMMA StepLocal ==
    ASSUME TypeOK, NEW g \in Goroutines, Step(g)
    PROVE  /\ pc[g] \in Inside /\ home' = home /\ expired' = expired
           /\ \A h \in Goroutines \ {g} :
                  pc'[h] = pc[h] /\ job'[h] = job[h] /\ read'[h] = read[h]
           /\ \/ pc'[g] = "idle" /\ mu' = [mu EXCEPT ![home[g]] = Nobody]
              \/ pc'[g] \in Inside /\ mu' = mu /\ job' = job
  BY DEF Step, Read, Examine, Drop, Write, Rename, Remove, Return, Leave, Goto, TypeOK, Inside

\* In one process a goroutine inside the mutex is there alone.
LEMMA Alone ==
    ASSUME TypeOK, InsideHoldsMutex, OneProcess,
           NEW g \in Goroutines, NEW h \in Goroutines, pc[g] \in Inside, pc[h] \in Inside
    PROVE  g = h
  BY DEF InsideHoldsMutex, OneProcess

LEMMA MutexStep == TypeOK /\ InsideHoldsMutex /\ [Next]_vars => InsideHoldsMutex'
<1> SUFFICES ASSUME TypeOK, InsideHoldsMutex, [Next]_vars,
                    NEW h \in Goroutines, pc'[h] \in Inside
             PROVE  mu'[home'[h]] = h
  BY DEF InsideHoldsMutex
<1> USE NobodyAssumption, HomesAssumption DEF TypeOK, Goto
<1>1. ASSUME NEW g \in Goroutines, BeginRead(g) \/ BeginSet(g) \/ GiveUp(g) PROVE mu'[home'[h]] = h
  BY <1>1 DEF BeginRead, BeginSet, Begin, GiveUp, Inside, InsideHoldsMutex
<1>2. ASSUME NEW g \in Goroutines, Enter(g) PROVE mu'[home'[h]] = h
  BY <1>2 DEF Enter, InsideHoldsMutex
<1>3. ASSUME NEW g \in Goroutines, Step(g) PROVE mu'[home'[h]] = h
  <2>1. CASE pc'[g] = "idle" /\ mu' = [mu EXCEPT ![home[g]] = Nobody]
    <3>1. h # g
      BY <2>1 DEF Inside
    <3>2. mu[home[h]] = h /\ mu[home[g]] = g /\ home' = home
      BY <1>3, <3>1, StepLocal DEF InsideHoldsMutex
    <3>3. QED  BY <2>1, <3>1, <3>2
  <2>2. CASE pc'[g] \in Inside /\ mu' = mu
    BY <1>3, <2>2, StepLocal DEF InsideHoldsMutex
  <2>3. QED  BY <1>3, <2>1, <2>2, StepLocal
<1>4. ASSUME NEW p \in Processes, Crash(p) PROVE mu'[home'[h]] = h
  BY <1>4 DEF Crash, Inside, InsideHoldsMutex
<1>5. CASE (\E t \in 1 .. MaxTokens : Expire(t)) \/ UNCHANGED vars
  BY <1>5 DEF Expire, vars, InsideHoldsMutex
<1>6. QED  BY <1>1, <1>2, <1>3, <1>4, <1>5 DEF Next

LEMMA JobStep == TypeOK /\ StepFitsJob /\ [Next]_vars => StepFitsJob'
<1> SUFFICES ASSUME TypeOK, StepFitsJob, [Next]_vars PROVE StepFitsJob'
  OBVIOUS
<1> USE DEF TypeOK, Goto, StepFitsJob
<1>1. ASSUME NEW g \in Goroutines, BeginRead(g) \/ BeginSet(g) \/ GiveUp(g) PROVE StepFitsJob'
  BY <1>1 DEF BeginRead, BeginSet, Begin, GiveUp
<1>2. ASSUME NEW g \in Goroutines, Enter(g) PROVE StepFitsJob'
  BY <1>2 DEF Enter
<1>3. ASSUME NEW g \in Goroutines, Step(g) PROVE StepFitsJob'
  BY <1>3 DEF Step, Read, Examine, Drop, Write, Rename, Remove, Return, Leave
<1>4. ASSUME NEW p \in Processes, Crash(p) PROVE StepFitsJob'
  BY <1>4 DEF Crash
<1>5. CASE (\E t \in 1 .. MaxTokens : Expire(t)) \/ UNCHANGED vars
  BY <1>5 DEF Expire, vars
<1>6. QED  BY <1>1, <1>2, <1>3, <1>4, <1>5 DEF Next

LEMMA CurrentStep ==
    TypeOK /\ InsideHoldsMutex /\ ReadIsCurrent /\ [Next]_vars => ReadIsCurrent'
<1> SUFFICES ASSUME TypeOK, InsideHoldsMutex, ReadIsCurrent, [Next]_vars, OneProcess',
                    NEW h \in Goroutines, pc'[h] \in {"examine", "drop"}
             PROVE  file'[KeyOf(h)'] = read'[h]
  BY DEF ReadIsCurrent
<1> USE DEF Goto, KeyOf
<1>0. home' = home /\ OneProcess
  BY DEF Next, vars, BeginRead, BeginSet, Begin, Enter, GiveUp, Step, Read, Examine, Drop, Write,
         Rename, Remove, Crash, Expire, OneProcess
<1>1. ASSUME NEW g \in Goroutines, BeginRead(g) \/ BeginSet(g) \/ GiveUp(g)
      PROVE  file'[KeyOf(h)'] = read'[h]
  BY <1>0, <1>1 DEF BeginRead, BeginSet, Begin, GiveUp, ReadIsCurrent, TypeOK
<1>2. ASSUME NEW g \in Goroutines, Enter(g) PROVE file'[KeyOf(h)'] = read'[h]
  BY <1>0, <1>2 DEF Enter, ReadIsCurrent, TypeOK
<1>3. ASSUME NEW g \in Goroutines, Step(g) PROVE file'[KeyOf(h)'] = read'[h]
  <2>1. h = g
    <3>1. CASE h # g
      <4>1. pc[h] \in Inside /\ pc[g] \in Inside
        BY <1>3, <3>1, StepLocal DEF Inside
      <4>2. QED  BY <1>0, <3>1, <4>1, Alone
    <3>2. QED  BY <3>1
  <2>2. CASE Read(g)
    BY <2>1, <2>2 DEF Read, Leave, TypeOK
  <2>3. CASE Examine(g)
    BY <1>0, <2>1, <2>3 DEF Examine, Return, Leave, ReadIsCurrent, TypeOK
  <2>4. CASE Drop(g) \/ Write(g) \/ Rename(g) \/ Remove(g)
    BY <2>1, <2>4 DEF Drop, Write, Rename, Remove, Return, Leave, TypeOK
  <2>5. QED  BY <1>3, <2>2, <2>3, <2>4 DEF Step
<1>4. ASSUME NEW p \in Processes, Crash(p) PROVE file'[KeyOf(h)'] = read'[h]
  BY <1>0, <1>4 DEF Crash, ReadIsCurrent, TypeOK
<1>5. CASE (\E t \in 1 .. MaxTokens : Expire(t)) \/ UNCHANGED vars
  BY <1>0, <1>5 DEF Expire, vars, ReadIsCurrent
<1>6. QED  BY <1>1, <1>2, <1>3, <1>4, <1>5 DEF Next

LEMMA UselessStep == TypeOK /\ DropsUseless /\ [Next]_vars => DropsUseless'
<1> SUFFICES ASSUME TypeOK, DropsUseless, [Next]_vars PROVE DropsUseless'
  OBVIOUS
<1> USE DEF TypeOK, Goto, DropsUseless, Valid
<1>1. ASSUME NEW g \in Goroutines, BeginRead(g) \/ BeginSet(g) \/ GiveUp(g) \/ Enter(g)
      PROVE  DropsUseless'
  BY <1>1 DEF BeginRead, BeginSet, Begin, GiveUp, Enter
<1>2. ASSUME NEW g \in Goroutines, Step(g) PROVE DropsUseless'
  BY <1>2 DEF Step, Read, Examine, Drop, Write, Rename, Remove, Return, Leave
<1>3. ASSUME NEW p \in Processes, Crash(p) PROVE DropsUseless'
  BY <1>3 DEF Crash
<1>4. CASE (\E t \in 1 .. MaxTokens : Expire(t)) \/ UNCHANGED vars
  BY <1>4 DEF Expire, vars
<1>5. QED  BY <1>1, <1>2, <1>3, <1>4 DEF Next

LEMMA StepInv == IInv /\ [Next]_vars => IInv'
  BY TypeStep, MutexStep, JobStep, CurrentStep, UselessStep DEF IInv

LEMMA Invariance == Spec => []IInv
  BY InitInv, StepInv, PTL DEF Spec

-----------------------------------------------------------------------------
\* Every reachable state is well typed.
THEOREM TypeCorrect == Spec => []TypeOK
<1>1. IInv => TypeOK
  BY DEF IInv
<1>2. QED  BY <1>1, Invariance, PTL

\* In one process Get removes only files that are of no use when it does so:
\* what RemovesOnlyUseless says of any number of processes.
THEOREM OneProcessRemovesOnlyUseless == Spec => [](OneProcess => RemovesOnlyUseless)
<1>1. IInv => (OneProcess => RemovesOnlyUseless)
  BY DEF IInv, ReadIsCurrent, DropsUseless, RemovesOnlyUseless, Valid
<1>2. QED  BY <1>1, Invariance, PTL

\* A step inside the mutex that changes a file is a Set's Rename, a Delete's
\* Remove, or a Get's Drop, and changes its own client's file alone.
LEMMA FileStep ==
    ASSUME TypeOK, StepFitsJob, [Next]_vars, NEW k \in Keys, file'[k] # file[k]
    PROVE  \E g \in Goroutines :
               /\ KeyOf(g) = k
               /\ \/ Rename(g) /\ file'[k] = job[g].token
                  \/ Remove(g) /\ job[g].op = "delete"
                  \/ Drop(g)
<1>1. PICK g \in Goroutines : Drop(g) \/ Rename(g) \/ Remove(g)
  BY DEF Next, vars, BeginRead, BeginSet, Begin, Enter, GiveUp, Step, Read, Examine, Write, Crash, Expire
<1>2. KeyOf(g) = k
  BY <1>1, KeyOfJob DEF Drop, Rename, Remove, Unlink, TypeOK
<1>3. Rename(g) => file'[k] = job[g].token
  BY <1>2 DEF Rename, TypeOK
<1>4. Remove(g) => job[g].op = "delete"
  BY DEF Remove, StepFitsJob
<1>5. QED  BY <1>1, <1>2, <1>3, <1>4

\* A usable token leaves only for another that is set or by a removal, in one
\* process only by Delete.
THEOREM UsableTokensLast == Spec => UsableTokensStay
<1>1. IInv /\ [Next]_vars => [KeptOrReplaced]_vars
  <2> SUFFICES ASSUME IInv, [Next]_vars, NEW k \in Keys, Valid(file[k]), file'[k] # file[k]
               PROVE  \E g \in Goroutines :
                          \/ Setting(g, k, file'[k])
                          \/ Removing(g, k) /\ (OneProcess => job[g].op = "delete")
    BY DEF KeptOrReplaced
  <2>1. PICK g \in Goroutines :
               /\ KeyOf(g) = k
               /\ \/ Rename(g) /\ file'[k] = job[g].token
                  \/ Remove(g) /\ job[g].op = "delete"
                  \/ Drop(g)
    BY FileStep DEF IInv
  <2>2. CASE Rename(g) /\ file'[k] = job[g].token
    BY <2>1, <2>2 DEF Setting, Rename
  <2>3. CASE Remove(g) /\ job[g].op = "delete"
    BY <2>1, <2>3 DEF Removing, Remove
  <2>4. CASE Drop(g)
    <3>1. ~OneProcess
      BY <2>1, <2>4 DEF Drop, IInv, ReadIsCurrent, DropsUseless
    <3>2. QED  BY <2>1, <2>4, <3>1 DEF Removing, Drop
  <2>5. QED  BY <2>1, <2>2, <2>3, <2>4
<1>2. QED  BY <1>1, Invariance, PTL DEF Spec, UsableTokensStay

-----------------------------------------------------------------------------
\* What a client holds according to the register, when its file changes.
LEMMA HeldOf ==
    ASSUME NEW c \in Clients
    PROVE  Held[c] = IF OneProcess /\ Valid(file[ScopedKey(c)]) THEN file[ScopedKey(c)] ELSE NoToken
  BY DEF Held

LEMMA RegisterInit == Init => Register!Init
  BY DEF Init, Register!Init, Register!NoToken, Held, Answer, Valid, Keys

\* Every step of the storage is a step of the register, or invisible there.
LEMMA RegisterStep == IInv /\ [Next]_vars => [Register!Next]_<<Held, Answer>>
<1> SUFFICES ASSUME IInv, [Next]_vars PROVE [Register!Next]_<<Held, Answer>>
  OBVIOUS
<1> USE DEF IInv
<1>0. OneProcess' = OneProcess
  BY DEF Next, vars, BeginRead, BeginSet, Begin, Enter, GiveUp, Step, Read, Examine, Drop, Write,
         Rename, Remove, Crash, Expire, OneProcess
<1>1. CASE ~OneProcess
  BY <1>0, <1>1 DEF Held, Answer
<1>2. CASE UNCHANGED <<file, expired, answer>>
  BY <1>0, <1>2 DEF Held, Answer, Valid
<1>3. ASSUME OneProcess, NEW g \in Goroutines, Examine(g), answer' # answer
      PROVE  Register!Next
  <2> DEFINE c == job[g].client
  <2>1. c \in Clients /\ file[ScopedKey(c)] = read[g]
    BY <1>3, KeyOfJob DEF Examine, ReadIsCurrent, KeyOf
  <2>2. answer' = [answer EXCEPT ![g] = Held[c]] /\ UNCHANGED <<file, expired>>
    BY <1>3, <2>1, HeldOf DEF Examine, Return, Valid
  <2>3. Answer' = [Answer EXCEPT ![g] = Held[c]] /\ Held' = Held
    BY <1>0, <1>3, <2>2 DEF Answer, Held, Valid, TypeOK
  <2>4. QED  BY <2>1, <2>3 DEF Register!Next, Register!Get
<1>4. ASSUME OneProcess, NEW g \in Goroutines, Drop(g) PROVE Register!Next
  <2> DEFINE c == job[g].client
  <2>1. c \in Clients /\ ~Valid(file[ScopedKey(c)]) /\ expired' = expired
    BY <1>4, KeyOfJob DEF Drop, ReadIsCurrent, DropsUseless, KeyOf
  <2>2. Held[c] = NoToken
    BY <2>1, HeldOf
  <2>3. Held' = Held
    <3> DEFINE k == ScopedKey(c)
    <3>1. KeyOf(g) = k /\ file \in [Keys -> (0 .. made) \cup {Absent}]
      BY DEF KeyOf, TypeOK
    <3>2. \A l \in Keys : file'[l] = file[l] \/ (l = k /\ file'[l] = Absent)
      BY <1>4, <3>1 DEF Drop, Unlink
    <3> HIDE DEF c, k
    <3>3. \A d \in Clients : ScopedKey(d) \in Keys
      BY DEF Keys
    <3>4. ASSUME NEW d \in Clients
          PROVE  \/ file'[ScopedKey(d)] = file[ScopedKey(d)]
                 \/ ~Valid(file[ScopedKey(d)]) /\ ~Valid(file[ScopedKey(d)])'
      BY <2>1, <3>2, <3>3 DEF Valid, k
    <3>5. \A d \in Clients : Held'[d] = Held[d]
      BY <1>0, <2>1, <3>4 DEF Held, Valid
    <3>6. QED  BY <3>5 DEF Held
  <2>4. Answer' = [Answer EXCEPT ![g] = NoToken]
    BY <1>0, <1>4 DEF Drop, Return, Answer, TypeOK
  <2>5. QED  BY <2>1, <2>2, <2>3, <2>4 DEF Register!Next, Register!Get
<1>5. ASSUME OneProcess, NEW g \in Goroutines, NEW v, pc[g] # "idle",
             file' = [file EXCEPT ![KeyOf(g)] = v], UNCHANGED <<expired, answer>>,
             v \in (0 .. made) \cup {Absent}
      PROVE  Register!Next
  <2> DEFINE c == job[g].client
             t == IF Valid(v) THEN v ELSE NoToken
  <2>1. c \in Clients /\ KeyOf(g) = ScopedKey(c) /\ ScopedKey(c) \in Keys
    BY <1>5, KeyOfJob DEF KeyOf
  <2>2. t \in 0 .. MaxTokens
    BY <1>5, BoundAssumption DEF Valid, TypeOK
  <2>3. \A d \in Clients : file'[ScopedKey(d)] = IF d = c THEN v ELSE file[ScopedKey(d)]
    BY <1>5, <2>1, KeysDistinct DEF Keys, TypeOK
  <2>4. Held' = [Held EXCEPT ![c] = t]
    BY <1>0, <1>5, <2>1, <2>3 DEF Held, Valid
  <2>5. Answer' = Answer
    BY <1>0, <1>5 DEF Answer
  <2>6. QED  BY <2>1, <2>2, <2>4, <2>5 DEF Register!Next, Register!Set
<1>6. ASSUME OneProcess, NEW g \in Goroutines, Rename(g) \/ Remove(g), file' # file
      PROVE  Register!Next
  <2>1. job[g] \in Jobs /\ pc[g] # "idle"
    BY <1>6, KeyOfJob DEF Rename, Remove
  <2>2. PICK v \in (0 .. made) \cup {Absent} : file' = [file EXCEPT ![KeyOf(g)] = v]
    BY <1>6, <2>1 DEF Rename, Remove, Unlink, Jobs
  <2>3. UNCHANGED <<expired, answer>>
    BY <1>6 DEF Rename, Remove
  <2>4. QED  BY <1>5, <1>6, <2>1, <2>2, <2>3
<1>7. ASSUME OneProcess, NEW t \in 1 .. MaxTokens, Expire(t) PROVE Register!Next
  <2>1. Held' = [c \in Clients |-> IF Held[c] = t THEN NoToken ELSE Held[c]]
    BY <1>0, <1>7 DEF Held, Valid, Expire
  <2>2. Answer' = Answer
    BY <1>0, <1>7 DEF Answer, Expire
  <2>3. QED  BY <2>1, <2>2 DEF Register!Next, Register!Expire, Register!NoToken
<1>8. CASE \E g \in Goroutines : BeginRead(g) \/ BeginSet(g) \/ Enter(g) \/ GiveUp(g)
  BY <1>2, <1>8 DEF BeginRead, BeginSet, Begin, Enter, GiveUp
<1>9. ASSUME NEW g \in Goroutines, Step(g) PROVE [Register!Next]_<<Held, Answer>>
  <2>1. CASE Read(g) \/ Write(g)
    BY <1>2, <2>1 DEF Read, Write
  <2>2. CASE Examine(g)
    BY <1>1, <1>2, <1>3, <2>2 DEF Examine
  <2>3. CASE Drop(g)
    BY <1>1, <1>4, <2>3
  <2>4. CASE Rename(g) \/ Remove(g)
    BY <1>1, <1>2, <1>6, <2>4 DEF Rename, Remove
  <2>5. QED  BY <1>9, <2>1, <2>2, <2>3, <2>4 DEF Step
<1>10. CASE \E p \in Processes : Crash(p)
  BY <1>2, <1>10 DEF Crash
<1>11. CASE UNCHANGED vars
  BY <1>2, <1>11 DEF vars
<1>12. QED  BY <1>1, <1>7, <1>8, <1>9, <1>10, <1>11 DEF Next

\* The storage of one process implements the register of the TokenStorage
\* interface, per scope and key.
THEOREM StorageIsRegister == Spec => ImplementsRegister
  BY RegisterInit, RegisterStep, Invariance, PTL DEF Spec, ImplementsRegister, Register!Spec

-----------------------------------------------------------------------------
(***************************************************************************)
(* What the mutex of each process gives where several processes share the  *)
(* directory.  RemovesOnlyUseless is refuted there by the run              *)
(* file_processes; the theorems below say what is left of it.              *)
(***************************************************************************)

\* A mutex that is taken is held by a goroutine of its process, inside.
HolderIsInside ==
    \A p \in Processes :
        mu[p] # Nobody => /\ mu[p] \in Goroutines
                          /\ home[mu[p]] = p
                          /\ pc[mu[p]] \in Inside

\* A process has one goroutine inside a FileTokenStorage call.
OneInside ==
    \A g, h \in Goroutines :
        home[g] = home[h] /\ pc[g] \in Inside /\ pc[h] \in Inside => g = h

\* A goroutine that cannot lock the mutex has one of its own process ahead of
\* it that is inside: no error path and no crash leaves a mutex locked.
NobodyWaitsInVain ==
    \A g \in Goroutines :
        pc[g] = "enter" /\ mu[home[g]] # Nobody =>
            \E h \in Goroutines : home[h] = home[g] /\ pc[h] \in Inside

\* Between the moment Get reads a file and the moment it removes it or returns,
\* only another process changes that file.
DropsOrOutside ==
    \A g \in Goroutines :
        pc[g] \in {"examine", "drop"} /\ file'[KeyOf(g)] # file[KeyOf(g)] =>
            \/ Drop(g)
            \/ \E h \in Goroutines : /\ home[h] # home[g]
                                     /\ KeyOf(h) = KeyOf(g)
                                     /\ pc[h] \in {"rename", "drop", "remove"}
DisturbedOnlyFromOutside == [][DropsOrOutside]_vars

\* What comes into a client's file is a token a Set of that very client stores,
\* however many processes and clients there are.
TokensStayWithClient ==
    [][\A c \in Clients :
          file'[ScopedKey(c)] \notin {file[ScopedKey(c)], Absent} =>
              \E g \in Goroutines : /\ pc[g] = "rename" /\ job[g].op = "set"
                                    /\ job[g].client = c
                                    /\ job[g].token = file'[ScopedKey(c)]]_vars

\* The number of steps a call has left at most.
Rank(g) ==
    [idle |-> 0, enter |-> 4, read |-> 3, examine |-> 2, drop |-> 1,
     write |-> 2, rename |-> 1, remove |-> 1][pc[g]]

\* Every step of a call brings it nearer to its end, and no other step takes it
\* further away: the safety half of EveryCallReturns.
CallsAdvance ==
    [][\A g \in Goroutines :
          /\ Enter(g) \/ GiveUp(g) \/ Step(g) => Rank(g)' < Rank(g)
          /\ pc[g] # "idle" => Rank(g)' <= Rank(g)]_vars

\* The holder stays inside until it unlocks, or dies with the mutex.
LEMMA HolderStep == TypeOK /\ InsideHoldsMutex /\ HolderIsInside /\ [Next]_vars => HolderIsInside'
<1> SUFFICES ASSUME TypeOK, InsideHoldsMutex, HolderIsInside, [Next]_vars,
                    NEW p \in Processes, mu'[p] # Nobody
             PROVE  mu'[p] \in Goroutines /\ home'[mu'[p]] = p /\ pc'[mu'[p]] \in Inside
  BY DEF HolderIsInside
<1> USE NobodyAssumption, HomesAssumption DEF TypeOK, Goto, HolderIsInside
<1> DEFINE Held1 == mu'[p] \in Goroutines /\ home'[mu'[p]] = p /\ pc'[mu'[p]] \in Inside
<1>1. ASSUME NEW g \in Goroutines, BeginRead(g) \/ BeginSet(g) \/ GiveUp(g) PROVE Held1
  BY <1>1 DEF BeginRead, BeginSet, Begin, GiveUp, Inside
<1>2. ASSUME NEW g \in Goroutines, Enter(g) PROVE Held1
  <2>1. home' = home /\ pc'[g] \in Inside /\ \A h \in Goroutines \ {g} : pc'[h] = pc[h]
    BY <1>2 DEF Enter, Inside
  <2>2. CASE p = home[g]
    BY <1>2, <2>1, <2>2 DEF Enter
  <2>3. CASE p # home[g]
    BY <1>2, <2>1, <2>3 DEF Enter
  <2>4. QED  BY <2>2, <2>3
<1>3. ASSUME NEW g \in Goroutines, Step(g) PROVE Held1
  <2>1. CASE pc'[g] = "idle" /\ mu' = [mu EXCEPT ![home[g]] = Nobody]
    <3>1. p # home[g] /\ mu'[p] = mu[p]
      BY <2>1
    <3>2. mu[p] # g
      BY <3>1
    <3>3. QED  BY <1>3, <3>1, <3>2, StepLocal
  <2>2. CASE pc'[g] \in Inside /\ mu' = mu
    BY <1>3, <2>2, StepLocal
  <2>3. QED  BY <1>3, <2>1, <2>2, StepLocal
<1>4. ASSUME NEW q \in Processes, Crash(q) PROVE Held1
  BY <1>4 DEF Crash
<1>5. CASE (\E t \in 1 .. MaxTokens : Expire(t)) \/ UNCHANGED vars
  BY <1>5 DEF Expire, vars
<1>6. QED  BY <1>1, <1>2, <1>3, <1>4, <1>5 DEF Next

LEMMA HolderInvariance == Spec => []HolderIsInside
<1>1. Init => HolderIsInside
  BY DEF Init, HolderIsInside
<1>2. IInv /\ HolderIsInside /\ [Next]_vars => HolderIsInside'
  BY HolderStep DEF IInv
<1>3. QED  BY <1>1, <1>2, Invariance, PTL DEF Spec

\* Each process has at most one goroutine inside its mutex.
THEOREM MutexExcludes == Spec => []OneInside
<1>1. IInv => OneInside
  BY DEF IInv, InsideHoldsMutex, OneInside
<1>2. QED  BY <1>1, Invariance, PTL

\* Whoever waits for a mutex waits for a goroutine of its process that has steps
\* left to take.
THEOREM MutexesAreReleased == Spec => []NobodyWaitsInVain
<1>1. IInv /\ HolderIsInside => NobodyWaitsInVain
  BY HomesAssumption DEF IInv, TypeOK, HolderIsInside, NobodyWaitsInVain
<1>2. QED  BY <1>1, Invariance, HolderInvariance, PTL

\* In any number of processes, only another process comes between a Get's
\* reading and removing: the mutex leaves just what RemovesOnlyUseless runs into.
THEOREM ReadsAreCurrentInside == Spec => DisturbedOnlyFromOutside
<1>1. IInv /\ [Next]_vars => [DropsOrOutside]_vars
  <2> SUFFICES ASSUME IInv, [Next]_vars, NEW g \in Goroutines, pc[g] \in {"examine", "drop"},
                      file'[KeyOf(g)] # file[KeyOf(g)], ~Drop(g)
               PROVE  \E h \in Goroutines : /\ home[h] # home[g]
                                           /\ KeyOf(h) = KeyOf(g)
                                           /\ pc[h] \in {"rename", "drop", "remove"}
    BY DEF DropsOrOutside
  <2>1. KeyOf(g) \in Keys
    BY KeyOfJob DEF IInv
  <2>2. PICK h \in Goroutines : /\ KeyOf(h) = KeyOf(g)
                                /\ Rename(h) \/ Remove(h) \/ Drop(h)
    BY <2>1, FileStep DEF IInv
  <2>3. pc[h] \in {"rename", "drop", "remove"} /\ h # g
    BY <2>2 DEF Rename, Remove, Drop
  <2>4. home[h] # home[g]
    BY <2>3 DEF IInv, InsideHoldsMutex, Inside
  <2>5. QED  BY <2>2, <2>3, <2>4
<1>2. QED  BY <1>1, Invariance, PTL DEF Spec, DisturbedOnlyFromOutside

\* A client's file is filled by that client's own Sets alone.
THEOREM ClientsAreApart == Spec => TokensStayWithClient
<1> DEFINE Filled(c) == file'[ScopedKey(c)] \notin {file[ScopedKey(c)], Absent}
           Filler(c) == \E g \in Goroutines : /\ pc[g] = "rename" /\ job[g].op = "set"
                                              /\ job[g].client = c
                                              /\ job[g].token = file'[ScopedKey(c)]
           OwnFiller == \A c \in Clients : Filled(c) => Filler(c)
<1>1. IInv /\ [Next]_vars => [OwnFiller]_vars
  <2> SUFFICES ASSUME IInv, [Next]_vars, NEW c \in Clients, Filled(c) PROVE Filler(c)
    BY DEF OwnFiller
  <2> DEFINE k == ScopedKey(c)
  <2>1. k \in Keys
    BY DEF Keys
  <2>2. PICK g \in Goroutines :
               /\ KeyOf(g) = k
               /\ \/ Rename(g) /\ file'[k] = job[g].token
                  \/ Remove(g) /\ job[g].op = "delete"
                  \/ Drop(g)
    BY <2>1, FileStep DEF IInv
  <2>3. ~Remove(g) /\ ~Drop(g)
    BY <2>1, <2>2 DEF Remove, Drop, Unlink, IInv, TypeOK
  <2>4. Rename(g) /\ pc[g] = "rename" /\ job[g].op = "set"
    BY <2>2, <2>3 DEF Rename, IInv, StepFitsJob
  <2>5. job[g].client = c
    BY <2>2, <2>4, KeyOfJob, KeysDistinct DEF KeyOf, IInv
  <2>6. QED  BY <2>2, <2>3, <2>4, <2>5
<1>2. QED  BY <1>1, Invariance, PTL DEF Spec, TokensStayWithClient

\* Every step of a call brings it nearer to its end.
THEOREM StepsBringCallsHome == Spec => CallsAdvance
<1> DEFINE Advance(g) == /\ Enter(g) \/ GiveUp(g) \/ Step(g) => Rank(g)' < Rank(g)
                         /\ pc[g] # "idle" => Rank(g)' <= Rank(g)
           AllAdvance == \A g \in Goroutines : Advance(g)
<1>1. TypeOK /\ [Next]_vars => [AllAdvance]_vars
  <2> SUFFICES ASSUME TypeOK, Next, NEW h \in Goroutines PROVE Advance(h)
    BY DEF AllAdvance
  <2> USE DEF TypeOK, Steps, Inside, Goto, Rank
  <2>1. CASE UNCHANGED pc[h] /\ ~(Enter(h) \/ GiveUp(h) \/ Step(h))
    BY <2>1
  <2>2. ASSUME NEW g \in Goroutines, g # h, BeginRead(g) \/ BeginSet(g) \/ Enter(g) \/ GiveUp(g)
        PROVE  UNCHANGED pc[h]
    BY <2>2 DEF BeginRead, BeginSet, Begin, Enter, GiveUp
  <2>3. ASSUME NEW g \in Goroutines, g # h, Step(g) PROVE UNCHANGED pc[h]
    BY <2>3, StepLocal
  <2>4. CASE BeginRead(h) \/ BeginSet(h)
    BY <2>4 DEF BeginRead, BeginSet, Begin, Enter, GiveUp, Step, Read, Examine, Drop, Write,
         Rename, Remove
  <2>5. CASE Enter(h) \/ GiveUp(h)
    BY <2>5 DEF Enter, GiveUp
  <2>6. CASE Step(h)
    BY <2>6 DEF Step, Read, Examine, Drop, Write, Rename, Remove, Return, Leave
  <2>7. ASSUME NEW p \in Processes, Crash(p), ~(Enter(h) \/ GiveUp(h) \/ Step(h)) PROVE Advance(h)
    BY <2>7 DEF Crash
  <2>8. ASSUME NEW t \in 1 .. MaxTokens, Expire(t) PROVE UNCHANGED pc[h]
    BY <2>8 DEF Expire
  <2>9. QED  BY <2>1, <2>2, <2>3, <2>4, <2>5, <2>6, <2>7, <2>8 DEF Next
<1>2. QED  BY TypeCorrect, <1>1, PTL DEF Spec, CallsAdvance
=============================================================================
