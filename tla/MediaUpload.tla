-------------------------------- MODULE MediaUpload --------------------------------
(***************************************************************************)
(* Upload and UploadByURL of the media manager (media/media.go) in a shop  *)
(* whose records others search meanwhile (Repository).  A call creates a   *)
(* blank record under an id of its own, has the shop fill it, by the bytes *)
(* sent or from a URL, and deletes the record if that fails.               *)
(*                                                                         *)
(* Each of the three requests is an exchange that may be refused, may not  *)
(* reach the shop, or whose answer may not reach the caller, and the shop  *)
(* may come to a request after the caller has given up on it.  A call is   *)
(* named by the id it generates (UUID).                                    *)
(***************************************************************************)
EXTENDS Repository

CONSTANT Files      \* ids uploads generate

ASSUME FilesAssumption == Files \subseteq RecordIDs

VARIABLES
    upload,     \* upload[f]: the request the call waits for, or how it stands
    wire,       \* requests the shop has not come to
    reply,      \* reply[f]: the answer to the request the call waits for
    missed,     \* missed[f]: requests of the call that failed without an answer
    refused     \* refused[f]: those the shop refused

mediaVars == <<upload, wire, reply, missed, refused>>
shopVars  == <<readVars, records, mediaVars>>

Requests == {"create", "fill", "delete"}
Replies  == {"none", "ok", "refused"}
Ends     == {"stored", "failed"}
Request(op, f) == [op |-> op, id |-> f]

TypeOK ==
    /\ ReadTypeOK
    /\ records \in [RecordIDs -> {"none", "blank", "full"}]
    /\ upload \in [Files -> {"none"} \cup Requests \cup Ends]
    /\ wire \subseteq [op : Requests, id : Files]
    /\ reply \in [Files -> Replies]
    /\ missed \in [Files -> SUBSET Requests]
    /\ refused \in [Files -> SUBSET Requests]

Init ==
    /\ ReadInit
    /\ records = [i \in RecordIDs |-> IF i \in Files THEN "none" ELSE "full"]
    /\ upload = [f \in Files |-> "none"]
    /\ wire = {}
    /\ reply = [f \in Files |-> "none"]
    /\ missed = [f \in Files |-> {}]
    /\ refused = [f \in Files |-> {}]

-----------------------------------------------------------------------------
\* The call sends a request and waits for its answer.
Send(f, op) ==
    /\ upload' = [upload EXCEPT ![f] = op]
    /\ reply' = [reply EXCEPT ![f] = "none"]
    /\ wire' = wire \cup {Request(op, f)}

End(f, how) ==
    /\ upload' = [upload EXCEPT ![f] = how]
    /\ reply' = [reply EXCEPT ![f] = "none"]
    /\ UNCHANGED wire

\* An unusable file name, or content that cannot be read: nothing is sent.
Reject(f) ==
    /\ upload[f] = "none"
    /\ End(f, "failed")
    /\ UNCHANGED <<readVars, records, missed, refused>>

\* createMedia upserts a blank record.
CreateMedia(f) ==
    /\ upload[f] = "none"
    /\ Send(f, "create")
    /\ UNCHANGED <<readVars, records, missed, refused>>

\* The request f waits for is answered ("ok", "refused"), or it fails without
\* an answer.
Succeeds(f, op) == upload[f] = op /\ reply[f] = "ok" /\ UNCHANGED <<missed, refused>>

Fails(f, op) ==
    /\ upload[f] = op
    /\ \/ /\ missed' = [missed EXCEPT ![f] = @ \cup {op}]
          /\ UNCHANGED refused
       \/ /\ reply[f] = "refused"
          /\ refused' = [refused EXCEPT ![f] = @ \cup {op}]
          /\ UNCHANGED missed

\* The content, or the URL, goes to a record that was created; without one the
\* call ends.
Fill(f) ==
    /\ \/ Succeeds(f, "create") /\ Send(f, "fill")
       \/ Fails(f, "create") /\ End(f, "failed")
    /\ UNCHANGED <<readVars, records>>

\* Mutant of Finish: a failed request leaves the record behind.
FinishNoRollback(f) ==
    /\ \/ Succeeds(f, "fill") /\ End(f, "stored")
       \/ Fails(f, "fill") /\ End(f, "failed")
    /\ UNCHANGED <<readVars, records>>

\* Mutant of Finish: only a request without an answer is an error.
FinishUnchecked(f) ==
    /\ \/ upload[f] = "fill" /\ reply[f] # "none" /\ End(f, "stored") /\ UNCHANGED <<missed, refused>>
       \/ Fails(f, "fill") /\ Send(f, "delete")
    /\ UNCHANGED <<readVars, records>>

\* The upload returns the id, or rolls back.
Finish(f) ==
    /\ \/ Succeeds(f, "fill") /\ End(f, "stored")
       \/ Fails(f, "fill") /\ Send(f, "delete")
    /\ UNCHANGED <<readVars, records>>

\* Mutant of Rollback: it is tried until it succeeds.
RollbackAgain(f) ==
    /\ \/ Succeeds(f, "delete") /\ End(f, "failed")
       \/ Fails(f, "delete") /\ Send(f, "delete")
    /\ UNCHANGED <<readVars, records>>

\* The outcome of the rollback is ignored; the call returns the error.
Rollback(f) ==
    /\ Succeeds(f, "delete") \/ Fails(f, "delete")
    /\ End(f, "failed")
    /\ UNCHANGED <<readVars, records>>

-----------------------------------------------------------------------------
\* What a record becomes by a request that is not refused.  There is nothing to
\* fill without a record.
Effect(op, record) ==
    CASE op = "create" -> IF record = "none" THEN "blank" ELSE record
      [] op = "fill"   -> "full"
      [] op = "delete" -> "none"

Possible(op, record) == op = "fill" => record # "none"

\* The answer reaches a call that still waits for it.
Tell(r, result) ==
    /\ wire' = wire \ {r}
    /\ reply' = IF upload[r.id] = r.op THEN [reply EXCEPT ![r.id] = result] ELSE reply
    /\ UNCHANGED <<readVars, upload, missed, refused>>

\* The shop carries out a request.
Execute(r) ==
    /\ r \in wire
    /\ Possible(r.op, records[r.id])
    /\ records' = [records EXCEPT ![r.id] = Effect(r.op, @)]
    /\ Tell(r, "ok")

\* The shop refuses it: not permitted, a name that is taken, no such record.
Refuse(r) == r \in wire /\ Tell(r, "refused") /\ UNCHANGED records

\* A request is lost on its way, or was never sent because its context is done.
Lose(r) ==
    /\ r \in wire
    /\ wire' = wire \ {r}
    /\ UNCHANGED <<readVars, records, upload, reply, missed, refused>>

UploadStep(f) == Fill(f) \/ Finish(f) \/ Rollback(f)

Next ==
    \/ ReadNext /\ UNCHANGED mediaVars
    \/ \E f \in Files : Reject(f) \/ CreateMedia(f) \/ UploadStep(f)
    \/ \E r \in wire : Execute(r) \/ Refuse(r) \/ Lose(r)

Spec == Init /\ [][Next]_shopVars

\* Callers keep running, and the http.Client's timeout ends every exchange.
FairSpec == Spec /\ \A f \in Files : WF_shopVars(UploadStep(f))

-----------------------------------------------------------------------------
\* An id that Upload returned has its content, for good: no delete of a rollback
\* is under way to it, however late the shop comes to its requests.
UploadedWhole == \A f \in Files : upload[f] = "stored" => records[f] = "full"

\* A call that failed leaves a record only if it got no answer to its create, or
\* its rollback failed: a fill that failed for the caller and succeeds after all
\* finds the record gone.
LeftoversExplained ==
    \A f \in Files :
        upload[f] = "failed" /\ records[f] # "none" =>
            "create" \in missed[f] \/ "delete" \in missed[f] \cup refused[f]

\* Every upload returns.
UploadReturns == \A f \in Files : upload[f] \in Requests ~> upload[f] \in Ends
=============================================================================
