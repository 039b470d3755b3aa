----------------------------- MODULE MediaUploadProofs -----------------------------
(***************************************************************************)
(* What uploads and searches guarantee for every set of files, records,    *)
(* goroutines, ids and limits.  An upload's record goes through its stages *)
(* with the call: a request is on its way only while the call waits for it *)
(* or because the call has missed its answer (WireExplained), so when the  *)
(* rollback is answered nothing can bring the record back, and when the    *)
(* fill is nothing can take it away (RecordInStep).                        *)
(***************************************************************************)
EXTENDS MediaUpload, CriteriaProofs

MediaTypes ==
    /\ records \in [RecordIDs -> {"none", "blank", "full"}]
    /\ upload \in [Files -> {"none"} \cup Requests \cup Ends]
    /\ wire \subseteq [op : Requests, id : Files]
    /\ reply \in [Files -> Replies]
    /\ missed \in [Files -> SUBSET Requests]
    /\ refused \in [Files -> SUBSET Requests]

\* Where a call may be that has given up on a request.
After(op) ==
    CASE op = "create" -> {"failed"}
      [] op = "fill"   -> {"delete", "failed"}
      [] op = "delete" -> {"failed"}

WireExplained ==
    \A r \in wire : \/ upload[r.id] = r.op /\ reply[r.id] = "none"
                    \/ upload[r.id] \in After(r.op) /\ r.op \in missed[r.id]

\* What is known of the record at each stage of its call.
RecordInStepAt(f) ==
    /\ upload[f] = "none" => records[f] = "none"
    /\ upload[f] = "create" => (reply[f] = "ok" <=> records[f] # "none")
    /\ upload[f] = "fill" => records[f] # "none" /\ (reply[f] = "ok" => records[f] = "full")
    /\ upload[f] = "delete" => (reply[f] = "ok" => records[f] = "none")
    /\ upload[f] = "stored" => records[f] = "full"
    /\ upload[f] = "failed" /\ records[f] # "none" =>
           "create" \in missed[f] \/ "delete" \in missed[f] \cup refused[f]

RecordInStep == \A f \in Files : RecordInStepAt(f)

MediaInv == MediaTypes /\ WireExplained /\ RecordInStep

-----------------------------------------------------------------------------
\* The invariant of the uploads holds at the start and survives every step.
LEMMA MediaInit == Init => MediaInv
  BY FilesAssumption
  DEF Init, MediaInv, MediaTypes, WireExplained, RecordInStep, RecordInStepAt, Requests, Ends, Replies

\* Reading leaves the uploads and the records alone.
LEMMA ReadingOnly == ReadNext => UNCHANGED records
  BY DEF ReadNext, EditLimit, EditIDs, EditRest, Edit, Read, Search, Aggregate, AskAggregate,
         Ask, Answer, QueryFails, Drop, Return

\* A step of one call leaves the records and the other calls alone.
LEMMA CallStep ==
  ASSUME MediaInv, NEW f \in Files, Reject(f) \/ CreateMedia(f) \/ UploadStep(f)
  PROVE  MediaInv'
<1> USE FilesAssumption
    DEF MediaInv, MediaTypes, WireExplained, RecordInStep, RecordInStepAt, Requests, Ends,
        Replies, After, Send, End, Request
<1>1. CASE Reject(f)
  BY <1>1 DEF Reject
<1>2. CASE CreateMedia(f)
  BY <1>2 DEF CreateMedia
<1>3. CASE Fill(f)
  BY <1>3 DEF Fill, Succeeds, Fails
<1>4. CASE Finish(f)
  BY <1>4 DEF Finish, Succeeds, Fails
<1>5. CASE Rollback(f)
  BY <1>5 DEF Rollback, Succeeds, Fails
<1>6. QED  BY <1>1, <1>2, <1>3, <1>4, <1>5 DEF UploadStep

\* So does the shop's handling of a request with the other records.
LEMMA ShopStep ==
  ASSUME MediaInv, NEW r \in wire, Execute(r) \/ Refuse(r) \/ Lose(r)
  PROVE  MediaInv'
<1> USE FilesAssumption
    DEF MediaInv, MediaTypes, WireExplained, RecordInStep, RecordInStepAt, Requests, Ends,
        Replies, After, Tell
<1>1. CASE Execute(r)
  BY <1>1 DEF Execute, Effect, Possible
<1>2. CASE Refuse(r)
  BY <1>2 DEF Refuse
<1>3. CASE Lose(r)
  BY <1>3 DEF Lose
<1>4. QED  BY <1>1, <1>2, <1>3

LEMMA MediaInvStep == MediaInv /\ [Next]_shopVars => MediaInv'
<1>1. ASSUME MediaInv, UNCHANGED <<records, mediaVars>> PROVE MediaInv'
  BY <1>1 DEF MediaInv, MediaTypes, WireExplained, RecordInStep, RecordInStepAt, mediaVars
<1>2. QED  BY <1>1, CallStep, ShopStep, ReadingOnly DEF Next, shopVars

LEMMA MediaInvariance == Spec => []MediaInv
<1>1. QED  BY MediaInit, MediaInvStep, PTL DEF Spec

-----------------------------------------------------------------------------
\* An id that was returned has its content for good.
THEOREM StoredStaysWhole == Spec => []UploadedWhole
<1>1. MediaInv => UploadedWhole
  BY DEF MediaInv, RecordInStep, RecordInStepAt, UploadedWhole
<1>2. QED  BY MediaInvariance, <1>1, PTL

\* What a failed upload leaves behind has a reason.
THEOREM LeftoversHaveReason == Spec => []LeftoversExplained
<1>1. MediaInv => LeftoversExplained
  BY DEF MediaInv, RecordInStep, RecordInStepAt, LeftoversExplained
<1>2. QED  BY MediaInvariance, <1>1, PTL

-----------------------------------------------------------------------------
\* The Criteria says what its caller set last, but for the limit once Aggregate
\* has used it; the types that are not the Criteria's.
CriteriaInStep ==
    /\ Built(criteria)
    /\ IDs(criteria) = asked.ids
    /\ ~truncated => Limit(criteria) = asked.limit

ReadTypes ==
    /\ asked \in [ids : IdLists \cup {<<>>}, limit : Limits \cup {Unset}]
    /\ truncated \in BOOLEAN
    /\ edits \in 0 .. MaxEdits
    /\ query \in [Queriers -> Queries]
    /\ sent = [g \in Queriers |-> sent[g]]
    /\ answer \in [Queriers -> SUBSET RecordIDs]

\* What a call has limited, sent and found by its step.
QueryInStepAt(g) ==
    /\ query[g] = "limited" => Limit(criteria) = 1
    /\ query[g] = "search" =>
           IDsSent(sent[g][Root], asked.ids) /\ (~truncated => LimitSent(sent[g][Root], asked.limit))
    /\ query[g] = "aggregate" => LimitSent(sent[g][Root], 1)
    /\ query[g] = "found" /\ asked.ids # <<>> =>
           \A i \in answer[g] : \E n \in DOMAIN asked.ids : asked.ids[n] = i
    /\ sent[g] # Nothing <=> query[g] \in {"search", "aggregate"}

QueriesInStep == \A g \in Queriers : QueryInStepAt(g)

ReadInv == CriteriaInStep /\ ReadTypes /\ QueriesInStep

LEMMA ReadInitInv == Init => ReadInv
<1> SUFFICES ASSUME ReadInit PROVE ReadInv
  BY DEF Init
<1>1. Built(criteria) /\ Limit(criteria) = Unset /\ IDs(criteria) = <<>>
  BY NewBuilt DEF ReadInit
<1>2. CriteriaInStep
  BY <1>1 DEF CriteriaInStep, ReadInit
<1>3. ReadTypes
  <2>1. asked \in [ids : IdLists \cup {<<>>}, limit : Limits \cup {Unset}]
    BY DEF ReadInit
  <2>2. edits \in 0 .. MaxEdits
    BY EditsAssumption DEF ReadInit
  <2>3. QED  BY <2>1, <2>2 DEF ReadTypes, ReadInit, Queries
<1>4. QueriesInStep
  BY DEF QueriesInStep, QueryInStepAt, ReadInit
<1>5. QED  BY <1>2, <1>3, <1>4 DEF ReadInv

\* An edit is made while no call uses the Criteria.
LEMMA EditStep ==
  ASSUME ReadInv, Edit,
         Built(criteria'), IDs(criteria') = asked'.ids, ~truncated' => Limit(criteria') = asked'.limit,
         asked' \in [ids : IdLists \cup {<<>>}, limit : Limits \cup {Unset}], truncated' \in BOOLEAN
  PROVE  ReadInv'
<1>1. CriteriaInStep'
  BY DEF CriteriaInStep
<1>2. ReadTypes'
  BY EditsAssumption DEF ReadInv, ReadTypes, Edit, queryVars
<1>3. QueriesInStep'
  BY DEF ReadInv, QueriesInStep, QueryInStepAt, Edit, queryVars
<1>4. QED  BY <1>1, <1>2, <1>3 DEF ReadInv

LEMMA EditsKeep == ASSUME ReadInv, EditLimit \/ EditIDs \/ EditRest PROVE ReadInv'
<1> USE DEF ReadInv, CriteriaInStep, ReadTypes
<1>1. Root \in DOMAIN criteria
  BY DEF Built
<1>2. CASE EditLimit
  <2>1. PICK p \in DOMAIN criteria, limit \in Limits :
            /\ criteria' = SetLimit(criteria, p, limit)
            /\ asked' = IF p = Root THEN [asked EXCEPT !.limit = limit] ELSE asked
            /\ truncated' = (truncated /\ p # Root)
    BY <1>2 DEF EditLimit
  <2>2. /\ Built(criteria') /\ IDs(criteria') = IDs(criteria)
        /\ Limit(criteria') = IF p = Root THEN limit ELSE Limit(criteria)
    BY <2>1, ValueBuilt DEF SetLimit, SingleKeys
  <2>3. asked'.ids = asked.ids /\ asked'.limit = IF p = Root THEN limit ELSE asked.limit
    BY <2>1
  <2>4. asked' \in [ids : IdLists \cup {<<>>}, limit : Limits \cup {Unset}] /\ truncated' \in BOOLEAN
    BY <2>1
  <2>5. ~truncated' => Limit(criteria') = asked'.limit
    BY <2>1, <2>2, <2>3
  <2>6. QED
    BY <1>2, <2>2, <2>3, <2>4, <2>5, EditStep DEF EditLimit
<1>3. CASE EditIDs
  <2>1. PICK ids \in IdLists :
            criteria' = SetIDs(criteria, Root, ids) /\ asked' = [asked EXCEPT !.ids = ids]
    BY <1>3 DEF EditIDs
  <2>2. Built(criteria') /\ IDs(criteria') = ids /\ Limit(criteria') = Limit(criteria)
    BY <1>1, <2>1, ListBuilt DEF SetIDs, ListKeys
  <2>3. /\ asked'.ids = ids /\ asked'.limit = asked.limit
        /\ asked' \in [ids : IdLists \cup {<<>>}, limit : Limits \cup {Unset}]
    BY <2>1
  <2>4. truncated' = truncated
    BY <1>3 DEF EditIDs
  <2>5. QED
    BY <1>3, <2>2, <2>3, <2>4, EditStep DEF EditIDs
<1>4. CASE EditRest
  <2>1. Built(criteria') /\ IDs(criteria') = IDs(criteria) /\ Limit(criteria') = Limit(criteria)
    <3>1. PICK p \in DOMAIN criteria :
              \/ \E mode \in Modes : criteria' = SetTotalCountMode(criteria, p, mode)
              \/ \E path \in Paths : criteria' = AddAssociation(criteria, p, path)
              \/ criteria' = SetTitle(criteria, p, Text)
              \/ criteria' = SetValue(criteria, p, "page", 0)
              \/ criteria' = Add(criteria, p, "sort", <<Text>>)
              \/ criteria' = ResetSorting(criteria, p)
              \/ criteria' = AddIncludes(criteria, p, [entity \in {Text} |-> <<Text>>])
      BY <1>4 DEF EditRest
    <3>2. CASE \E mode \in Modes : criteria' = SetTotalCountMode(criteria, p, mode)
      BY <3>2, ValueBuilt DEF SetTotalCountMode, SingleKeys
    <3>3. CASE \E path \in Paths : criteria' = AddAssociation(criteria, p, path)
      BY <3>3, AssociationBuilt, PathsAssumption
    <3>4. CASE criteria' = SetTitle(criteria, p, Text)
      BY <3>4, RestBuilt DEF SetTitle
    <3>5. CASE criteria' = SetValue(criteria, p, "page", 0)
      BY <3>5, ValueBuilt DEF SingleKeys
    <3>6. CASE criteria' = Add(criteria, p, "sort", <<Text>>)
      BY <3>6, AddBuilt DEF ListKeys
    <3>7. CASE criteria' = ResetSorting(criteria, p)
      BY <3>7, ListBuilt DEF ResetSorting, ListKeys
    <3>8. CASE criteria' = AddIncludes(criteria, p, [entity \in {Text} |-> <<Text>>])
      <4> DEFINE more == [entity \in {Text} |-> <<Text>>]
                 old  == criteria[p].includes
                 x    == [entity \in DOMAIN old \cup DOMAIN more |->
                             (IF entity \in DOMAIN old THEN old[entity] ELSE <<>>) \o
                             (IF entity \in DOMAIN more THEN more[entity] ELSE <<>>)]
      <4>1. criteria' = [criteria EXCEPT ![p].includes = x]
        BY <3>8 DEF AddIncludes
      <4> HIDE DEF x
      <4>2. QED  BY <4>1, RestBuilt
    <3>9. QED
      BY <3>1, <3>2, <3>3, <3>4, <3>5, <3>6, <3>7, <3>8
  <2>2. asked' = asked /\ truncated' = truncated
    BY <1>4 DEF EditRest
  <2>3. QED
    BY <1>4, <2>1, <2>2, EditStep DEF EditRest
<1>5. QED  BY <1>2, <1>3, <1>4

LEMMA ReadsKeep == ASSUME ReadInv, NEW g \in Queriers, Read(g) PROVE ReadInv'
<1> USE DEF ReadInv, CriteriaInStep, ReadTypes, QueriesInStep, QueryInStepAt, Queries,
            Searching, Aggregating
<1>1. Root \in DOMAIN criteria
  BY DEF Built
<1>2. /\ LimitSent(ToPayload(criteria)[Root], Limit(criteria))
      /\ IDsSent(ToPayload(criteria)[Root], IDs(criteria))
      /\ ToPayload(criteria) # Nothing
  <2>1. Root \in DOMAIN ToPayload(criteria) /\ DOMAIN Nothing = {}
    BY Rendered DEF Nothing
  <2>2. QED  BY <2>1, Rendered
<1>3. CASE Search(g)
  BY <1>2, <1>3 DEF Search, Ask, criteriaVars
<1>4. CASE Aggregate(g)
  <2>1. Built(criteria') /\ IDs(criteria') = IDs(criteria) /\ Limit(criteria') = 1
    BY <1>1, <1>4, ValueBuilt DEF Aggregate, SetLimit, SingleKeys
  <2>2. QED  BY <1>4, <2>1 DEF Aggregate
<1>5. CASE AskAggregate(g)
  BY <1>2, <1>5 DEF AskAggregate, Ask, criteriaVars
<1>6. CASE Answer(g)
  <2>1. PICK ids \in SUBSET RecordIDs :
            \/ query[g] = "search" /\ Loads(sent[g], ids) /\ Return(g, "found", ids)
            \/ query[g] = "aggregate" /\ Loads(sent[g], ids) /\ Return(g, "aggregated", ids)
    BY <1>6 DEF Answer
  <2>2. CASE query[g] = "search" /\ Loads(sent[g], ids) /\ Return(g, "found", ids)
    <3>1. asked.ids # <<>> => \A i \in ids : \E n \in DOMAIN asked.ids : asked.ids[n] = i
      BY <2>2 DEF Loads, Matching, IDsSent
    <3>2. QED  BY <2>2, <3>1 DEF Return, criteriaVars
  <2>3. CASE query[g] = "aggregate" /\ Loads(sent[g], ids) /\ Return(g, "aggregated", ids)
    BY <2>3 DEF Return, criteriaVars
  <2>4. QED  BY <2>1, <2>2, <2>3
<1>7. CASE QueryFails(g) \/ Drop(g)
  BY <1>7 DEF QueryFails, Drop, Return, criteriaVars
<1>8. QED  BY <1>3, <1>4, <1>5, <1>6, <1>7 DEF Read

LEMMA ReadInvStep == ReadInv /\ [Next]_shopVars => ReadInv'
<1>1. ASSUME ReadInv, UNCHANGED readVars PROVE ReadInv'
  BY <1>1 DEF ReadInv, CriteriaInStep, ReadTypes, QueriesInStep, QueryInStepAt, readVars,
              criteriaVars, queryVars
<1>2. ASSUME Next PROVE UNCHANGED readVars \/ ReadNext
  BY <1>2 DEF Next, Reject, CreateMedia, UploadStep, Fill, Finish, Rollback, Execute, Refuse,
              Lose, Tell
<1>3. QED  BY <1>1, <1>2, EditsKeep, ReadsKeep DEF ReadNext, shopVars

LEMMA ReadInvariance == Spec => []ReadInv
<1>1. QED  BY ReadInitInv, ReadInvStep, PTL DEF Spec

-----------------------------------------------------------------------------
\* Every variable keeps its type, and the Criteria its shape.
THEOREM TypeCorrect == Spec => []TypeOK
<1>1. ReadInv => ReadTypeOK
  <2> SUFFICES ASSUME ReadInv PROVE ReadTypeOK
    OBVIOUS
  <2>1. \A p \in DOMAIN criteria :
            /\ p # Root => Front(p) \in DOMAIN criteria
            /\ criteria[p].single["total-count-mode"] \in 0 .. 2 \cup {Unset}
            /\ DOMAIN criteria[p] = DOMAIN EmptyNode
    BY DEF ReadInv, CriteriaInStep, Built, NodeBuilt, EmptyNode
  <2>2. Root \in DOMAIN criteria
    BY DEF ReadInv, CriteriaInStep, Built
  <2>3. QED
    BY <2>1, <2>2 DEF ReadInv, ReadTypes, QueriesInStep, QueryInStepAt, ReadTypeOK
<1>2. ReadInv /\ MediaInv => TypeOK
  BY <1>1 DEF MediaInv, MediaTypes, TypeOK
<1>3. QED  BY ReadInvariance, MediaInvariance, <1>2, PTL

\* Every aggregation loads one record at most, whoever else aggregates.
THEOREM AggregationsLoadOne == Spec => []AggregateLoadsOne
<1>1. ReadInv => AggregateLoadsOne
  BY LimitsAssumption DEF ReadInv, QueriesInStep, QueryInStepAt, LimitSent, AggregateLoadsOne
<1>2. QED  BY ReadInvariance, <1>1, PTL

\* No search is cut short but by its caller, or by an aggregation.
THEOREM SearchesKeepTheirLimit == Spec => []OnlyAggregateTruncates
<1>1. ReadInv => OnlyAggregateTruncates
  BY DEF ReadInv, QueriesInStep, QueryInStepAt, LimitSent, OnlyAggregateTruncates
<1>2. QED  BY ReadInvariance, <1>1, PTL

\* A search by ids finds no other records.
THEOREM SearchesFindWhatWasAsked == Spec => []FoundWereAsked
<1>1. ReadInv => FoundWereAsked
  BY DEF ReadInv, QueriesInStep, QueryInStepAt, FoundWereAsked
<1>2. QED  BY ReadInvariance, <1>1, PTL

-----------------------------------------------------------------------------
(* How far an upload is from its return. *)

UploadRank(f) ==
    CASE upload[f] = "none"   -> 4
      [] upload[f] = "create" -> 3
      [] upload[f] = "fill"   -> 2
      [] upload[f] = "delete" -> 1
      [] OTHER                -> 0

\* Every step of an upload brings it nearer to its return, the failed rollback
\* too, and nothing the shop or the other calls do takes it further away: the
\* safety half of UploadReturns.
AllUploadsAdvance ==
    \A f \in Files :
        /\ UploadStep(f) => UploadRank(f)' < UploadRank(f)
        /\ UploadRank(f)' <= UploadRank(f)
UploadsAdvance == [][AllUploadsAdvance]_shopVars

\* Every step of an upload brings it nearer to its return.
THEOREM StepsBringUploadsHome == Spec => UploadsAdvance
<1>1. MediaInv /\ [Next]_shopVars => [AllUploadsAdvance]_shopVars
  <2> SUFFICES ASSUME MediaInv, Next, NEW f \in Files
               PROVE  /\ UploadStep(f) => UploadRank(f)' < UploadRank(f)
                      /\ UploadRank(f)' <= UploadRank(f)
    BY DEF AllUploadsAdvance
  <2>1. upload \in [Files -> {"none"} \cup Requests \cup Ends]
    BY DEF MediaInv, MediaTypes
  <2> USE <2>1 DEF UploadRank, Requests, Ends, Send, End
  <2>2. CASE Fill(f)
    BY <2>2 DEF Fill, Succeeds, Fails
  <2>3. CASE Finish(f)
    BY <2>3 DEF Finish, Succeeds, Fails
  <2>4. CASE Rollback(f)
    BY <2>4 DEF Rollback, Succeeds, Fails
  <2>5. CASE Reject(f) /\ ~UploadStep(f)
    BY <2>5 DEF Reject
  <2>6. CASE CreateMedia(f) /\ ~UploadStep(f)
    BY <2>6 DEF CreateMedia
  <2>7. ASSUME NEW g \in Files \ {f}, Reject(g) \/ CreateMedia(g) \/ UploadStep(g)
        PROVE  upload'[f] = upload[f]
    BY <2>7 DEF Reject, CreateMedia, UploadStep, Fill, Finish, Rollback, Succeeds, Fails
  <2>8. ASSUME \/ ReadNext /\ UNCHANGED mediaVars
               \/ \E r \in wire : Execute(r) \/ Refuse(r) \/ Lose(r)
        PROVE  upload' = upload
    BY <2>8 DEF mediaVars, Execute, Refuse, Lose, Tell
  <2>9. CASE UploadStep(f)
    BY <2>2, <2>3, <2>4, <2>9 DEF UploadStep
  <2>10. CASE ~UploadStep(f) /\ upload'[f] = upload[f]
    BY <2>10
  <2>11. QED
    BY <2>5, <2>6, <2>7, <2>8, <2>9, <2>10 DEF Next
<1>2. QED  BY MediaInvariance, <1>1, PTL DEF Spec, UploadsAdvance
=============================================================================
