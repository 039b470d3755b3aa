--------------------------------- MODULE Criteria ---------------------------------
(***************************************************************************)
(* The fluent builder of search payloads (criteria.go).  A Criteria and    *)
(* its nested associations are a function from paths, sequences of         *)
(* association names, to nodes; the empty path is the Criteria itself.     *)
(* Filters, sortings, queries and aggregations are values nothing looks    *)
(* into.                                                                   *)
(***************************************************************************)
EXTENDS Integers, SequencesExt

CONSTANT Unset      \* a nil pointer, or the empty string

Root == <<>>

\* The keys of the payload that hold lists and those that hold single values.
ListKeys   == {"ids", "query", "filter", "post-filter", "sort", "aggregations",
               "grouping", "fields"}
SingleKeys == {"page", "limit", "term", "total-count-mode"}

EmptyNode ==
    [title    |-> Unset,
     lists    |-> [k \in ListKeys |-> <<>>],
     single   |-> [k \in SingleKeys |-> Unset],
     includes |-> [entity \in {} |-> <<>>]]

NewCriteria(ids) == [p \in {Root} |-> [EmptyNode EXCEPT !.lists["ids"] = ids]]

-----------------------------------------------------------------------------
\* SetTitle, SetPage, SetLimit and SetTerm replace a value, SetIDs and
\* ResetSorting a list; the Add methods append to one.
SetTitle(c, p, title) == [c EXCEPT ![p].title = title]
SetValue(c, p, key, value) == [c EXCEPT ![p].single[key] = value]
SetList(c, p, key, list)   == [c EXCEPT ![p].lists[key] = list]
Add(c, p, key, items)      == [c EXCEPT ![p].lists[key] = @ \o items]

SetLimit(c, p, limit) == SetValue(c, p, "limit", limit)

\* Mutant of SetIDs: the ids are added to those there are.
AddIDs(c, p, ids) == Add(c, p, "ids", ids)

SetIDs(c, p, ids) == SetList(c, p, "ids", ids)
ResetSorting(c, p) == SetList(c, p, "sort", <<>>)

\* Mutant of SetTotalCountMode: the mode is not checked.
SetTotalCountModeAny(c, p, mode) == SetValue(c, p, "total-count-mode", mode)

\* A mode that does not exist takes the setting back.
SetTotalCountMode(c, p, mode) ==
    SetValue(c, p, "total-count-mode", IF mode \in 0 .. 2 THEN mode ELSE Unset)

\* AddIncludes appends the fields of every entity to those it has.
AddIncludes(c, p, includes) ==
    LET fields(f, entity) == IF entity \in DOMAIN f THEN f[entity] ELSE <<>> IN
    [c EXCEPT ![p].includes =
        [entity \in DOMAIN @ \cup DOMAIN includes |-> fields(@, entity) \o fields(includes, entity)]]

\* Mutant of AddAssociation: no criteria for the segments on the way.
AddAssociationLast(c, p, path) ==
    [q \in DOMAIN c \cup {p \o path} |-> IF q \in DOMAIN c THEN c[q] ELSE EmptyNode]

\* GetAssociation, and AddAssociation: a criteria for every segment of the path.
\* It is p \o path that is refined further.
AddAssociation(c, p, path) ==
    [q \in DOMAIN c \cup {p \o s : s \in Prefixes(path)} |->
        IF q \in DOMAIN c THEN c[q] ELSE EmptyNode]

\* GetLimit: 0 stands for none.
GetLimit(c) ==
    IF c[Root].single["limit"] = Unset THEN 0 ELSE c[Root].single["limit"]

-----------------------------------------------------------------------------
\* What a node sends: what is set, but for the title.
Render(n) ==
    LET lists   == {k \in ListKeys : n.lists[k] # <<>>}
        singles == {k \in SingleKeys : n.single[k] # Unset}
        shown   == IF DOMAIN n.includes = {} THEN {} ELSE {"includes"}
    IN  [k \in lists \cup singles \cup shown |->
            IF k \in lists THEN n.lists[k]
            ELSE IF k \in singles THEN n.single[k]
            ELSE n.includes]

\* The body of the request: every criteria under its path.
ToPayload(c) == [p \in DOMAIN c |-> Render(c[p])]
=============================================================================
