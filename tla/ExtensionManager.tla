----------------------------- MODULE ExtensionManager -----------------------------
(***************************************************************************)
(* The extension manager (extension/extension.go) on top of a Client's     *)
(* cached Info: Remove chooses its method by the cached version, Upload    *)
(* its endpoint by the cached bundles and by a list it fetches.  The       *)
(* goroutines of InfoCache call it; the shop may be upgraded meanwhile.    *)
(*                                                                         *)
(* One extension is looked at.  Zip files and their multipart bodies are   *)
(* left out: a body is read before the request and the same bytes are sent *)
(* again by a retry.                                                       *)
(***************************************************************************)
EXTENDS InfoCache

CONSTANTS
    Managers,       \* the goroutines that may call the manager
    PostSince,      \* the first version whose remove is a POST
    Unparsable      \* versions NewVersion does not parse

ASSUME ManagersAssumption == Managers \subseteq Callers
ASSUME PostAssumption     == PostSince \in Nat /\ Unparsable \subseteq Nat

VARIABLES
    job,        \* job[g]: the step of the manager's call g takes next
    listed,     \* whether the shop lists the extension
    cloud       \* whether the shop has the cloud bundle, which never changes

managerVars == <<job, listed, cloud>>
allVars     == <<vars, managerVars>>

InfoJobs == {"version", "bundles"}      \* inside client.Version and client.Info
Sending  == {"removing", "listing", "uploading", "updating"}
Jobs     == {"none"} \cup InfoJobs \cup Sending

\* Info is under way exactly in a call that needs it; a call that is past it has
\* a version.
ManagerTypeOK ==
    /\ TypeOK
    /\ job \in [Callers -> Jobs]
    /\ \A g \in Callers : /\ job[g] \in InfoJobs => pc[g] # "idle"
                          /\ job[g] \in Sending => pc[g] = "idle" /\ seen[g] # NoInfo
    /\ listed \in BOOLEAN
    /\ cloud \in BOOLEAN

ManagerInit ==
    /\ Init
    /\ job = [g \in Callers |-> "none"]
    /\ listed \in BOOLEAN
    /\ cloud \in BOOLEAN

-----------------------------------------------------------------------------
\* Mutant of Method: the constraint admits the version before.
MethodEarly(v) ==
    IF v \notin Unparsable /\ v + 1 >= PostSince THEN "POST" ELSE "DELETE"

\* Mutant of Method: the version is not looked at.
MethodPost(v) == "POST"

\* The method Remove uses for a shop of version v, and the one that shop expects.
Method(v)   == IF v \notin Unparsable /\ v >= PostSince THEN "POST" ELSE "DELETE"
Expected(v) == IF v >= PostSince THEN "POST" ELSE "DELETE"

\* g calls Remove or Upload, or Info and Version for its own sake.
Call(g) ==
    /\ job[g] = "none"
    /\ Begin(g)
    /\ \/ UNCHANGED job
       \/ g \in Managers /\ \E j \in InfoJobs : job' = [job EXCEPT ![g] = j]
    /\ UNCHANGED <<listed, cloud>>

\* Where a call goes on that has got its Info.
Informed(j) ==
    CASE j = "version" -> "removing"
      [] j = "bundles" -> IF cloud THEN "listing" ELSE "uploading"
      [] OTHER         -> "none"

\* Mutant of InfoReturns: Remove goes on without a version.
InfoReturnsAnyway(g) ==
    job' = [w \in Callers |-> IF pc[w] # "idle" /\ pc'[w] = "idle" THEN Informed(job[w])
                              ELSE job[w]]

\* Info or Version returns to whoever g's step lets go: with the error of a
\* flight that has no reply the call ends.
InfoReturns(g) ==
    job' = [w \in Callers |-> IF pc[w] = "idle" \/ pc'[w] # "idle" THEN job[w]
                              ELSE IF pc[g] = "landing" /\ reply[g] = NoInfo THEN "none"
                              ELSE Informed(job[w])]

\* A step of g inside Info.
InfoStep(g) ==
    /\ Step(g)
    /\ InfoReturns(g)
    /\ UNCHANGED <<listed, cloud>>

-----------------------------------------------------------------------------
Finish(g, j) ==
    /\ job[g] = j
    /\ job' = [job EXCEPT ![g] = "none"]
    /\ UNCHANGED <<vars, cloud>>

\* The request of g does not reach the shop, or the zip cannot be read.
RequestFails(g) == \E j \in Sending : Finish(g, j) /\ UNCHANGED listed

\* The shop removes the extension if it understands the method.
Remove(g) ==
    /\ Finish(g, "removing")
    /\ listed' = (listed /\ Method(seen[g]) # Expected(shop))

\* Upload on a cloud shop asks for the list first.
ListAvailable(g) ==
    /\ job[g] = "listing"
    /\ job' = [job EXCEPT ![g] = IF listed THEN "updating" ELSE "uploading"]
    /\ UNCHANGED <<vars, listed, cloud>>

\* The regular upload; a cloud shop refuses one for an extension it knows.
UploadNew(g) == Finish(g, "uploading") /\ listed' = TRUE

\* The update of an extension a cloud shop knows; it refuses any other.
UploadUpdateToCloud(g) == Finish(g, "updating") /\ UNCHANGED listed

\* Download, the one lifecycle request that makes the shop list an extension.
Download(g) ==
    /\ g \in Managers
    /\ job[g] = "none"
    /\ pc[g] = "idle"
    /\ listed' = TRUE
    /\ UNCHANGED <<vars, job, cloud>>

ShopUpgrade == Upgrade /\ UNCHANGED managerVars

ManagerStep(g) ==
    \/ InfoStep(g) \/ RequestFails(g) \/ Remove(g)
    \/ ListAvailable(g) \/ UploadNew(g) \/ UploadUpdateToCloud(g)

ManagerNext ==
    \/ ShopUpgrade
    \/ \E g \in Callers : Call(g) \/ Download(g) \/ ManagerStep(g)

ManagerSpec == ManagerInit /\ [][ManagerNext]_allVars

\* As in InfoCache: goroutines run, and every exchange ends.
FairManagerSpec == ManagerSpec /\ \A g \in Callers : WF_allVars(ManagerStep(g))

-----------------------------------------------------------------------------
\* A remove sent as POST finds a shop that expects one, however old the version
\* is it was chosen by.
PostIsUnderstood ==
    \A g \in Callers :
        job[g] = "removing" /\ Method(seen[g]) = "POST" => Expected(shop) = "POST"

\* Remove uses the wrong method only if the shop was upgraded since it told this
\* Client its version, or if that version cannot be read.
WrongMethodOnlyWhenStale ==
    \A g \in Callers :
        job[g] = "removing" /\ Method(seen[g]) # Expected(shop) =>
            seen[g] \in (1 .. shop - 1) \cup Unparsable

\* The Client has cached a version from before the change, the shop is past it.
Outdated == info # NoInfo /\ info < PostSince /\ shop >= PostSince

\* A Client that was connected when the shop passed that version removes nothing
\* from then on, as its cache never learns: not even calls that were under way.
OutdatedRemovesNothing  == Outdated /\ listed => listed'
StaysUnableToRemove     == [][OutdatedRemovesNothing]_allVars
=============================================================================
