-------------------------------- MODULE Repository --------------------------------
(***************************************************************************)
(* An EntityRepository (repository.go): goroutines that search and         *)
(* aggregate by one Criteria they share, and the shop that answers from    *)
(* its records.  The caller goes on building the Criteria between calls.   *)
(*                                                                         *)
(* SearchIDs and SearchIDsAs differ from Search, and AggregateAs from      *)
(* Aggregate, in the shape of what they return, which is reduced to the    *)
(* set of records loaded.  A request is one exchange (see TokenClient for  *)
(* the token and the retry).  Aggregate writes the shared Criteria without *)
(* a lock; the pointer it writes is seen as it was or as it is set.        *)
(***************************************************************************)
EXTENDS Criteria, FiniteSets

CONSTANTS
    Queriers,       \* goroutines that share the Criteria
    RecordIDs,      \* ids of records
    IdLists,        \* lists of ids the caller asks for
    Limits,         \* limits the caller sets
    Modes,          \* total count modes it asks for, also such that do not exist
    Paths,          \* paths of associations it asks for
    Text,           \* any title, sorting, entity or field
    MaxEdits        \* bound on the changes made to the Criteria

ASSUME LimitsAssumption == Limits \subseteq Nat /\ Unset \notin Limits \cup (0 .. 2)
ASSUME IdsAssumption    == IdLists \subseteq Seq(RecordIDs)
ASSUME PathsAssumption  == Paths \subseteq Seq(STRING)
ASSUME EditsAssumption  == MaxEdits \in Nat

VARIABLES
    criteria,   \* the Criteria
    asked,      \* the ids and the limit the caller set last
    truncated,  \* whether Aggregate has used the Criteria since its limit was set
    edits,      \* how often the Criteria was changed
    query,      \* query[g]: the step of g's call
    sent,       \* sent[g]: the body of the request g waits for
    answer,     \* answer[g]: the ids of the records g's request has loaded
    records     \* records[i]: the record of id i

criteriaVars == <<criteria, asked, truncated, edits>>
queryVars    == <<query, sent, answer>>
readVars     == <<criteriaVars, queryVars>>

Searching   == {"search", "found"}
Aggregating == {"limited", "aggregate", "aggregated"}
Queries     == {"idle"} \cup Searching \cup Aggregating

Nothing == [p \in {} |-> Unset]

ReadTypeOK ==
    /\ Root \in DOMAIN criteria
    /\ \A p \in DOMAIN criteria :
           /\ p # Root => Front(p) \in DOMAIN criteria
           /\ DOMAIN criteria[p] = DOMAIN EmptyNode
           /\ criteria[p].single["total-count-mode"] \in 0 .. 2 \cup {Unset}
    /\ asked \in [ids : IdLists \cup {<<>>}, limit : Limits \cup {Unset}]
    /\ truncated \in BOOLEAN
    /\ edits \in 0 .. MaxEdits
    /\ query \in [Queriers -> Queries]
    /\ \A g \in Queriers : sent[g] # Nothing <=> query[g] \in {"search", "aggregate"}
    /\ answer \in [Queriers -> SUBSET RecordIDs]

ReadInit ==
    /\ criteria = NewCriteria(<<>>)
    /\ asked = [ids |-> <<>>, limit |-> Unset]
    /\ truncated = FALSE
    /\ edits = 0
    /\ query = [g \in Queriers |-> "idle"]
    /\ sent = [g \in Queriers |-> Nothing]
    /\ answer = [g \in Queriers |-> {}]

-----------------------------------------------------------------------------
\* The caller changes the Criteria, which it does while no call uses it.
Edit ==
    /\ edits < MaxEdits
    /\ edits' = edits + 1
    /\ \A g \in Queriers : query[g] = "idle"
    /\ UNCHANGED <<queryVars, records>>

EditLimit ==
    /\ Edit
    /\ \E p \in DOMAIN criteria, limit \in Limits :
           /\ criteria' = SetLimit(criteria, p, limit)
           /\ asked' = IF p = Root THEN [asked EXCEPT !.limit = limit] ELSE asked
           /\ truncated' = (truncated /\ p # Root)

EditIDs ==
    /\ Edit
    /\ \E ids \in IdLists :
           /\ criteria' = SetIDs(criteria, Root, ids)
           /\ asked' = [asked EXCEPT !.ids = ids]
    /\ UNCHANGED truncated

\* What no record here depends on, of the Criteria or of an association.
EditRest ==
    /\ Edit
    /\ \E p \in DOMAIN criteria :
           \/ \E mode \in Modes : criteria' = SetTotalCountMode(criteria, p, mode)
           \/ \E path \in Paths : criteria' = AddAssociation(criteria, p, path)
           \/ criteria' = SetTitle(criteria, p, Text)
           \/ criteria' = SetValue(criteria, p, "page", 0)
           \/ criteria' = Add(criteria, p, "sort", <<Text>>)
           \/ criteria' = ResetSorting(criteria, p)
           \/ criteria' = AddIncludes(criteria, p, [entity \in {Text} |-> <<Text>>])
    /\ UNCHANGED <<asked, truncated>>

-----------------------------------------------------------------------------
Ask(g, step) ==
    /\ query' = [query EXCEPT ![g] = step]
    /\ sent' = [sent EXCEPT ![g] = ToPayload(criteria)]
    /\ UNCHANGED <<answer, records>>

\* Mutant of Search: the limit of Aggregate.
SearchLimited(g) ==
    /\ query[g] = "idle"
    /\ criteria' = SetLimit(criteria, Root, 1)
    /\ Ask(g, "search")
    /\ UNCHANGED <<asked, truncated, edits>>

\* Search, SearchIDs and SearchIDsAs render the Criteria and send it.
Search(g) ==
    /\ query[g] = "idle"
    /\ Ask(g, "search")
    /\ UNCHANGED criteriaVars

\* Mutant of Aggregate: a limit the caller has set is left alone.
AggregateKeepsLimit(g) ==
    /\ query[g] = "idle"
    /\ criteria' = IF GetLimit(criteria) = 0 THEN SetLimit(criteria, Root, 1) ELSE criteria
    /\ truncated' = TRUE
    /\ query' = [query EXCEPT ![g] = "limited"]
    /\ UNCHANGED <<asked, edits, sent, answer, records>>

\* Aggregate and AggregateAs force limit 1 on the caller's Criteria,
Aggregate(g) ==
    /\ query[g] = "idle"
    /\ criteria' = SetLimit(criteria, Root, 1)
    /\ truncated' = TRUE
    /\ query' = [query EXCEPT ![g] = "limited"]
    /\ UNCHANGED <<asked, edits, sent, answer, records>>

\* Mutant of AskAggregate: the caller's limit is put back.
AskAggregateRestores(g) ==
    /\ query[g] = "limited"
    /\ Ask(g, "aggregate")
    /\ criteria' = SetLimit(criteria, Root, asked.limit)
    /\ UNCHANGED <<asked, truncated, edits>>

\* then render and send it.
AskAggregate(g) ==
    /\ query[g] = "limited"
    /\ Ask(g, "aggregate")
    /\ UNCHANGED criteriaVars

-----------------------------------------------------------------------------
\* The records a payload matches: by their ids, if it names any.
Matching(payload) ==
    {i \in RecordIDs :
        /\ records[i] # "none"
        /\ "ids" \in DOMAIN payload[Root] => \E n \in DOMAIN payload[Root]["ids"] :
                                                 payload[Root]["ids"][n] = i}

\* What the shop may load of them.
Loads(payload, ids) ==
    LET matching == Matching(payload) IN
    /\ ids \subseteq matching
    /\ IF "limit" \in DOMAIN payload[Root] /\ payload[Root]["limit"] < Cardinality(matching)
       THEN Cardinality(ids) = payload[Root]["limit"]
       ELSE ids = matching

Return(g, step, ids) ==
    /\ query' = [query EXCEPT ![g] = step]
    /\ sent' = [sent EXCEPT ![g] = Nothing]
    /\ answer' = [answer EXCEPT ![g] = ids]
    /\ UNCHANGED <<criteriaVars, records>>

\* The shop answers and the call returns what was loaded.
Answer(g) ==
    \E ids \in SUBSET RecordIDs :
        \/ query[g] = "search" /\ Loads(sent[g], ids) /\ Return(g, "found", ids)
        \/ query[g] = "aggregate" /\ Loads(sent[g], ids) /\ Return(g, "aggregated", ids)

\* The request fails, or its answer does not decode.
QueryFails(g) == query[g] \in {"search", "aggregate"} /\ Return(g, "idle", {})

\* The caller is done with the result.
Drop(g) == query[g] \in {"found", "aggregated"} /\ Return(g, "idle", {})

Read(g) ==
    \/ Search(g) \/ Aggregate(g) \/ AskAggregate(g)
    \/ Answer(g) \/ QueryFails(g) \/ Drop(g)

ReadNext == EditLimit \/ EditIDs \/ EditRest \/ \E g \in Queriers : Read(g)

-----------------------------------------------------------------------------
\* However many goroutines aggregate by one Criteria, each request loads one
\* record at most.
AggregateLoadsOne ==
    \A g \in Queriers :
        query[g] = "aggregate" => "limit" \in DOMAIN sent[g][Root] /\ sent[g][Root]["limit"] = 1

\* A search asks for as many records as its caller set, unless the Criteria was
\* aggregated by since.
OnlyAggregateTruncates ==
    \A g \in Queriers : query[g] = "search" /\ ~truncated =>
        IF asked.limit = Unset THEN "limit" \notin DOMAIN sent[g][Root]
        ELSE "limit" \in DOMAIN sent[g][Root] /\ sent[g][Root]["limit"] = asked.limit

\* A search returns no record but those last asked for, and every record only if
\* the list of ids was left or set empty.
FoundWereAsked ==
    \A g \in Queriers : query[g] = "found" /\ asked.ids # <<>> =>
        \A i \in answer[g] : \E n \in DOMAIN asked.ids : asked.ids[n] = i
=============================================================================
