------------------------------ MODULE CriteriaProofs ------------------------------
(***************************************************************************)
(* What the builder of search payloads guarantees for every Criteria it    *)
(* can make (Built): each operation makes another one and changes nothing  *)
(* but what it names, and paths of associations may be built in pieces, in *)
(* any order and more than once.                                           *)
(***************************************************************************)
EXTENDS Criteria, TLAPS

\* A Criteria as the builder makes it: nodes under paths closed under prefixes.
NodeBuilt(n) ==
    /\ n = [title |-> n.title, lists |-> n.lists, single |-> n.single, includes |-> n.includes]
    /\ n.lists = [k \in ListKeys |-> n.lists[k]]
    /\ n.single = [k \in SingleKeys |-> n.single[k]]
    /\ n.single["total-count-mode"] \in 0 .. 2 \cup {Unset}

Built(c) ==
    /\ c = [p \in DOMAIN c |-> c[p]]
    /\ Root \in DOMAIN c
    /\ DOMAIN c \subseteq Seq(STRING)
    /\ \A p \in DOMAIN c : NodeBuilt(c[p]) /\ (p # Root => Front(p) \in DOMAIN c)

Limit(c) == c[Root].single["limit"]
IDs(c)   == c[Root].lists["ids"]

LEMMA EmptyBuilt == NodeBuilt(EmptyNode)
  BY DEF NodeBuilt, EmptyNode, ListKeys, SingleKeys

\* Replacing the node of a path leaves the rest alone.
LEMMA NodeReplaced ==
  ASSUME NEW c, Built(c), NEW p \in DOMAIN c, NEW n, NodeBuilt(n)
  PROVE  /\ Built([c EXCEPT ![p] = n])
         /\ Limit([c EXCEPT ![p] = n]) = IF p = Root THEN n.single["limit"] ELSE Limit(c)
         /\ IDs([c EXCEPT ![p] = n]) = IF p = Root THEN n.lists["ids"] ELSE IDs(c)
  BY DEF Built, Limit, IDs

\* What NewCriteria and the setters make.
LEMMA NewBuilt ==
  ASSUME NEW ids
  PROVE  Built(NewCriteria(ids)) /\ Limit(NewCriteria(ids)) = Unset /\ IDs(NewCriteria(ids)) = ids
  BY DEF NewCriteria, EmptyNode, Built, NodeBuilt, Root, ListKeys, SingleKeys, Limit, IDs

LEMMA ValueBuilt ==
  ASSUME NEW c, Built(c), NEW p \in DOMAIN c, NEW key \in SingleKeys, NEW v,
         key = "total-count-mode" => v \in 0 .. 2 \cup {Unset}
  PROVE  /\ Built(SetValue(c, p, key, v))
         /\ IDs(SetValue(c, p, key, v)) = IDs(c)
         /\ Limit(SetValue(c, p, key, v)) = IF p = Root /\ key = "limit" THEN v ELSE Limit(c)
<1> DEFINE n == [c[p] EXCEPT !.single[key] = v]
<1>1. NodeBuilt(c[p])
  BY DEF Built
<1>2. /\ n = [title |-> c[p].title, lists |-> c[p].lists,
              single |-> [k \in SingleKeys |-> IF k = key THEN v ELSE c[p].single[k]],
              includes |-> c[p].includes]
  BY <1>1 DEF NodeBuilt
<1>3. NodeBuilt(n)
  BY <1>1, <1>2 DEF NodeBuilt, SingleKeys
<1>4. n.single["limit"] = IF key = "limit" THEN v ELSE c[p].single["limit"]
  BY <1>2 DEF SingleKeys
<1>5. n.lists = c[p].lists
  BY <1>2
<1>6. SetValue(c, p, key, v) = [c EXCEPT ![p] = n]
  BY DEF SetValue
<1> HIDE DEF n
<1>7. /\ Built([c EXCEPT ![p] = n])
      /\ Limit([c EXCEPT ![p] = n]) = IF p = Root THEN n.single["limit"] ELSE Limit(c)
      /\ IDs([c EXCEPT ![p] = n]) = IF p = Root THEN n.lists["ids"] ELSE IDs(c)
  BY <1>3, NodeReplaced
<1>8. QED
  BY <1>4, <1>5, <1>6, <1>7 DEF Limit, IDs

LEMMA ListBuilt ==
  ASSUME NEW c, Built(c), NEW p \in DOMAIN c, NEW key \in ListKeys, NEW list
  PROVE  /\ Built(SetList(c, p, key, list))
         /\ Limit(SetList(c, p, key, list)) = Limit(c)
         /\ IDs(SetList(c, p, key, list)) = IF p = Root /\ key = "ids" THEN list ELSE IDs(c)
<1> DEFINE n == [c[p] EXCEPT !.lists[key] = list]
<1>1. NodeBuilt(c[p])
  BY DEF Built
<1>2. /\ n = [title |-> c[p].title,
              lists |-> [k \in ListKeys |-> IF k = key THEN list ELSE c[p].lists[k]],
              single |-> c[p].single, includes |-> c[p].includes]
  BY <1>1 DEF NodeBuilt
<1>3. NodeBuilt(n)
  BY <1>1, <1>2 DEF NodeBuilt, ListKeys
<1>4. n.lists["ids"] = IF key = "ids" THEN list ELSE c[p].lists["ids"]
  BY <1>2 DEF ListKeys
<1>5. n.single = c[p].single
  BY <1>2
<1>6. SetList(c, p, key, list) = [c EXCEPT ![p] = n]
  BY DEF SetList
<1> HIDE DEF n
<1>7. /\ Built([c EXCEPT ![p] = n])
      /\ Limit([c EXCEPT ![p] = n]) = IF p = Root THEN n.single["limit"] ELSE Limit(c)
      /\ IDs([c EXCEPT ![p] = n]) = IF p = Root THEN n.lists["ids"] ELSE IDs(c)
  BY <1>3, NodeReplaced
<1>8. QED
  BY <1>4, <1>5, <1>6, <1>7 DEF Limit, IDs

\* Add is SetList with a longer list.
LEMMA AddBuilt ==
  ASSUME NEW c, Built(c), NEW p \in DOMAIN c, NEW key \in ListKeys \ {"ids"}, NEW items
  PROVE  /\ Built(Add(c, p, key, items))
         /\ Limit(Add(c, p, key, items)) = Limit(c)
         /\ IDs(Add(c, p, key, items)) = IDs(c)
<1>1. NodeBuilt(c[p])
  BY DEF Built
<1>2. Add(c, p, key, items) = SetList(c, p, key, c[p].lists[key] \o items)
  BY <1>1 DEF Add, SetList, NodeBuilt
<1>3. QED  BY <1>2, ListBuilt

\* The title and the includes are neither lists nor values.
LEMMA RestBuilt ==
  ASSUME NEW c, Built(c), NEW p \in DOMAIN c, NEW x
  PROVE  /\ Built([c EXCEPT ![p].title = x]) /\ Built([c EXCEPT ![p].includes = x])
         /\ Limit([c EXCEPT ![p].title = x]) = Limit(c) /\ IDs([c EXCEPT ![p].title = x]) = IDs(c)
         /\ Limit([c EXCEPT ![p].includes = x]) = Limit(c)
         /\ IDs([c EXCEPT ![p].includes = x]) = IDs(c)
<1> DEFINE t == [c[p] EXCEPT !.title = x]
           n == [c[p] EXCEPT !.includes = x]
<1>1. NodeBuilt(c[p])
  BY DEF Built
<1>2. NodeBuilt(t) /\ t.single = c[p].single /\ t.lists = c[p].lists
  BY <1>1 DEF NodeBuilt
<1>3. NodeBuilt(n) /\ n.single = c[p].single /\ n.lists = c[p].lists
  BY <1>1 DEF NodeBuilt
<1>4. [c EXCEPT ![p].title = x] = [c EXCEPT ![p] = t] /\ [c EXCEPT ![p].includes = x] = [c EXCEPT ![p] = n]
  OBVIOUS
<1> HIDE DEF t, n
<1>5. Built([c EXCEPT ![p] = t]) /\ Limit([c EXCEPT ![p] = t]) = Limit(c) /\ IDs([c EXCEPT ![p] = t]) = IDs(c)
  BY <1>2, NodeReplaced DEF Limit, IDs
<1>6. Built([c EXCEPT ![p] = n]) /\ Limit([c EXCEPT ![p] = n]) = Limit(c) /\ IDs([c EXCEPT ![p] = n]) = IDs(c)
  BY <1>3, NodeReplaced DEF Limit, IDs
<1>7. QED
  BY <1>4, <1>5, <1>6

\* AddAssociation adds what is missing on the path and keeps what there is.
LEMMA AssociationBuilt ==
  ASSUME NEW c, Built(c), NEW p \in DOMAIN c, NEW path \in Seq(STRING)
  PROVE  /\ Built(AddAssociation(c, p, path))
         /\ Limit(AddAssociation(c, p, path)) = Limit(c)
         /\ IDs(AddAssociation(c, p, path)) = IDs(c)
<1> DEFINE d == AddAssociation(c, p, path)
<1>1. p \in Seq(STRING)
  BY DEF Built
<1>2. DOMAIN d = DOMAIN c \cup {p \o s : s \in Prefixes(path)}
  BY DEF AddAssociation
<1>3. \A q \in DOMAIN d : d[q] = IF q \in DOMAIN c THEN c[q] ELSE EmptyNode
  BY DEF AddAssociation
<1>4. \A l \in 0 .. Len(path) : p \o SubSeq(path, 1, l) \in DOMAIN d
  BY <1>2 DEF Prefixes
<1>5. ASSUME NEW l \in 0 .. Len(path)
      PROVE  LET q == p \o SubSeq(path, 1, l)
             IN  q \in Seq(STRING) /\ (q # Root => Front(q) \in DOMAIN d)
  <2>1. CASE l = 0
    <3>1. p \o SubSeq(path, 1, l) = p
      BY <1>1, <2>1
    <3>2. p # Root => Front(p) \in DOMAIN c
      BY DEF Built
    <3>3. QED  BY <1>1, <1>2, <3>1, <3>2
  <2>2. CASE l > 0
    <3>1. Front(p \o SubSeq(path, 1, l)) = p \o SubSeq(path, 1, l - 1)
      BY <1>1, <2>2 DEF Front
    <3>2. p \o SubSeq(path, 1, l) \in Seq(STRING)
      BY <1>1
    <3>3. p \o SubSeq(path, 1, l - 1) \in DOMAIN d
      BY <1>4, <2>2
    <3>4. QED  BY <3>1, <3>2, <3>3
  <2>3. QED  BY <2>1, <2>2
<1>6. ASSUME NEW q \in DOMAIN d
      PROVE  q \in Seq(STRING) /\ (q # Root => Front(q) \in DOMAIN d)
  <2>1. CASE q \in DOMAIN c
    BY <1>2, <2>1 DEF Built
  <2>2. CASE q \notin DOMAIN c
    <3>1. PICK l \in 0 .. Len(path) : q = p \o SubSeq(path, 1, l)
      BY <1>2, <2>2 DEF Prefixes
    <3>2. QED  BY <1>5, <3>1
  <2>3. QED  BY <2>1, <2>2
<1>7. Built(d)
  <2>1. d = [q \in DOMAIN d |-> d[q]]
    BY DEF AddAssociation
  <2>2. Root \in DOMAIN d
    BY <1>2 DEF Built
  <2>3. \A q \in DOMAIN d : NodeBuilt(d[q])
    BY <1>3, EmptyBuilt DEF Built
  <2>4. QED  BY <1>6, <2>1, <2>2, <2>3 DEF Built
<1>8. d[Root] = c[Root]
  BY <1>2, <1>3 DEF Built
<1>9. QED  BY <1>7, <1>8 DEF Limit, IDs

\* What the root of a payload says of the limit and of the ids.
LimitSent(n, limit) ==
    IF limit = Unset THEN "limit" \notin DOMAIN n ELSE "limit" \in DOMAIN n /\ n["limit"] = limit
IDsSent(n, ids) ==
    IF ids = <<>> THEN "ids" \notin DOMAIN n ELSE "ids" \in DOMAIN n /\ n["ids"] = ids

LEMMA Rendered ==
  ASSUME NEW c, Built(c)
  PROVE  /\ LimitSent(ToPayload(c)[Root], Limit(c))
         /\ IDsSent(ToPayload(c)[Root], IDs(c))
         /\ Root \in DOMAIN ToPayload(c)
<1> DEFINE n == c[Root]
           lists   == {k \in ListKeys : n.lists[k] # <<>>}
           singles == {k \in SingleKeys : n.single[k] # Unset}
           shown   == IF DOMAIN n.includes = {} THEN {} ELSE {"includes"}
           r       == Render(n)
<1>1. ToPayload(c)[Root] = r
  BY DEF ToPayload, Built
<1>2. /\ DOMAIN r = lists \cup singles \cup shown
      /\ \A k \in lists : r[k] = n.lists[k]
      /\ \A k \in singles : k \notin lists => r[k] = n.single[k]
  BY DEF Render
<1>3. "limit" \in DOMAIN r <=> n.single["limit"] # Unset
  BY <1>2 DEF ListKeys, SingleKeys
<1>4. "limit" \in DOMAIN r => r["limit"] = n.single["limit"]
  BY <1>2, <1>3 DEF ListKeys, SingleKeys
<1>5. "ids" \in DOMAIN r <=> n.lists["ids"] # <<>>
  BY <1>2 DEF ListKeys, SingleKeys
<1>6. "ids" \in DOMAIN r => r["ids"] = n.lists["ids"]
  BY <1>2, <1>5 DEF ListKeys
<1>7. Root \in DOMAIN ToPayload(c)
  BY DEF ToPayload, Built
<1> HIDE DEF r
<1>8. QED
  BY <1>1, <1>3, <1>4, <1>5, <1>6, <1>7 DEF LimitSent, IDsSent, Limit, IDs

-----------------------------------------------------------------------------
(* Paths of associations. *)

LEMMA PrefixesOfConcat ==
  ASSUME NEW q \in Seq(STRING), NEW r \in Seq(STRING)
  PROVE  Prefixes(q \o r) = Prefixes(q) \cup {q \o s : s \in Prefixes(r)}
<1>1. ASSUME NEW l \in 0 .. Len(q) PROVE SubSeq(q \o r, 1, l) = SubSeq(q, 1, l)
  OBVIOUS
<1>2. ASSUME NEW l \in 0 .. Len(r)
      PROVE  SubSeq(q \o r, 1, Len(q) + l) = q \o SubSeq(r, 1, l)
  OBVIOUS
<1>3. Len(q) \in Nat /\ Len(r) \in Nat /\ Len(q \o r) = Len(q) + Len(r)
  OBVIOUS
<1>4. ASSUME NEW l \in 0 .. Len(q) + Len(r)
      PROVE  l \in 0 .. Len(q) \/ \E k \in 0 .. Len(r) : l = Len(q) + k
  <2>1. l > Len(q) => l - Len(q) \in 0 .. Len(r) /\ l = Len(q) + (l - Len(q))
    BY <1>3
  <2>2. QED  BY <1>3, <2>1
<1>5. Prefixes(q \o r) = {SubSeq(q \o r, 1, l) : l \in 0 .. Len(q) + Len(r)}
  BY <1>3 DEF Prefixes
<1>6. Prefixes(q) = {SubSeq(q, 1, l) : l \in 0 .. Len(q)}
  BY DEF Prefixes
<1>7. {q \o s : s \in Prefixes(r)} = {q \o SubSeq(r, 1, l) : l \in 0 .. Len(r)}
  BY DEF Prefixes
<1>8. ASSUME NEW x \in Prefixes(q \o r)
      PROVE  x \in Prefixes(q) \cup {q \o s : s \in Prefixes(r)}
  <2>1. PICK l \in 0 .. Len(q) + Len(r) : x = SubSeq(q \o r, 1, l)
    BY <1>5
  <2>2. CASE l \in 0 .. Len(q)
    BY <1>1, <1>6, <2>1, <2>2
  <2>3. CASE \E k \in 0 .. Len(r) : l = Len(q) + k
    <3>1. PICK k \in 0 .. Len(r) : l = Len(q) + k
      BY <2>3
    <3>2. x = q \o SubSeq(r, 1, k)
      BY <1>2, <2>1, <3>1
    <3>3. QED  BY <1>7, <3>2
  <2>4. QED  BY <1>4, <2>2, <2>3
<1>9. ASSUME NEW x \in Prefixes(q) PROVE x \in Prefixes(q \o r)
  <2>1. PICK l \in 0 .. Len(q) : x = SubSeq(q, 1, l)
    BY <1>6
  <2>2. l \in 0 .. Len(q) + Len(r) /\ x = SubSeq(q \o r, 1, l)
    BY <1>1, <1>3, <2>1
  <2>3. QED  BY <1>5, <2>2
<1>10. ASSUME NEW x \in {q \o s : s \in Prefixes(r)} PROVE x \in Prefixes(q \o r)
  <2>1. PICK l \in 0 .. Len(r) : x = q \o SubSeq(r, 1, l)
    BY <1>7
  <2>2. Len(q) + l \in 0 .. Len(q) + Len(r) /\ x = SubSeq(q \o r, 1, Len(q) + l)
    BY <1>2, <1>3, <2>1
  <2>3. QED  BY <1>5, <2>2
<1>11. QED  BY <1>8, <1>9, <1>10

\* Every prefix of a path is a path, the whole path and the empty one among them.
LEMMA PrefixesArePaths ==
  ASSUME NEW q \in Seq(STRING)
  PROVE  Prefixes(q) \subseteq Seq(STRING) /\ q \in Prefixes(q) /\ Root \in Prefixes(q)
<1>1. \A l \in 0 .. Len(q) : SubSeq(q, 1, l) \in Seq(STRING)
  OBVIOUS
<1>2. SubSeq(q, 1, Len(q)) = q /\ SubSeq(q, 1, 0) = Root /\ Len(q) \in Nat
  BY DEF Root
<1>3. Prefixes(q) = {SubSeq(q, 1, l) : l \in 0 .. Len(q)}
  BY DEF Prefixes
<1>4. Len(q) \in 0 .. Len(q) /\ 0 \in 0 .. Len(q)
  BY <1>2
<1>5. Prefixes(q) \subseteq Seq(STRING)
  BY <1>1, <1>3
<1>6. q \in Prefixes(q) /\ Root \in Prefixes(q)
  BY <1>2, <1>3, <1>4
<1>7. QED  BY <1>5, <1>6

\* A path of associations may be given at once or in two pieces.
THEOREM AssociationsCompose ==
  ASSUME NEW c, Built(c), NEW p \in DOMAIN c, NEW q \in Seq(STRING), NEW r \in Seq(STRING)
  PROVE  AddAssociation(AddAssociation(c, p, q), p \o q, r) = AddAssociation(c, p, q \o r)
<1> DEFINE d == AddAssociation(c, p, q)
           e == AddAssociation(d, p \o q, r)
           w == AddAssociation(c, p, q \o r)
<1>1. p \in Seq(STRING)
  BY DEF Built
<1>2. DOMAIN d = DOMAIN c \cup {p \o s : s \in Prefixes(q)}
  BY DEF AddAssociation
<1>3. DOMAIN e = DOMAIN d \cup {(p \o q) \o s : s \in Prefixes(r)}
  BY DEF AddAssociation
<1>4. DOMAIN w = DOMAIN c \cup {p \o s : s \in Prefixes(q \o r)}
  BY DEF AddAssociation
<1>5. \A s \in Prefixes(r) : (p \o q) \o s = p \o (q \o s)
  BY <1>1, PrefixesArePaths
<1>6. {p \o s : s \in Prefixes(q \o r)} =
          {p \o s : s \in Prefixes(q)} \cup {(p \o q) \o s : s \in Prefixes(r)}
  <2>1. {p \o s : s \in Prefixes(q \o r)} =
            {p \o s : s \in Prefixes(q)} \cup {p \o (q \o s) : s \in Prefixes(r)}
    <3>1. Prefixes(q \o r) = Prefixes(q) \cup {q \o s : s \in Prefixes(r)}
      BY PrefixesOfConcat
    <3> DEFINE P == Prefixes(q)
               R == Prefixes(r)
    <3>2. {p \o s : s \in P \cup {q \o s : s \in R}} =
              {p \o s : s \in P} \cup {p \o (q \o s) : s \in R}
      <4> HIDE DEF P, R
      <4>1. QED  OBVIOUS
    <3>3. QED  BY <3>1, <3>2
  <2>2. {p \o (q \o s) : s \in Prefixes(r)} = {(p \o q) \o s : s \in Prefixes(r)}
    BY <1>5
  <2>3. QED  BY <2>1, <2>2
<1>7. DOMAIN e = DOMAIN w
  BY <1>2, <1>3, <1>4, <1>6
<1>8. ASSUME NEW x \in DOMAIN e PROVE e[x] = w[x]
  BY <1>2, <1>3, <1>7, <1>8 DEF AddAssociation
<1>9. e = [x \in DOMAIN e |-> e[x]] /\ w = [x \in DOMAIN w |-> w[x]]
  BY DEF AddAssociation
<1> HIDE DEF e, w
<1>10. e = w
  BY <1>7, <1>8, <1>9
<1>11. QED  BY <1>10 DEF e, w

\* Paths may be given in any order, and more than once.
THEOREM AssociationsCommute ==
  ASSUME NEW c, Built(c), NEW p \in DOMAIN c, NEW q \in DOMAIN c,
         NEW r \in Seq(STRING), NEW s \in Seq(STRING)
  PROVE  /\ AddAssociation(AddAssociation(c, p, r), q, s) =
                AddAssociation(AddAssociation(c, q, s), p, r)
         /\ AddAssociation(AddAssociation(c, p, r), p, r) = AddAssociation(c, p, r)
  BY DEF AddAssociation

\* Asking for an association sends what was set so far as it was, and of what is
\* added nothing but its name.
THEOREM AssociationsKeepPayload ==
  ASSUME NEW c, Built(c), NEW p \in DOMAIN c, NEW path \in Seq(STRING)
  PROVE  LET sent == ToPayload(AddAssociation(c, p, path))
         IN  /\ p \o path \in DOMAIN sent
             /\ \A x \in DOMAIN c : sent[x] = ToPayload(c)[x]
             /\ \A x \in DOMAIN sent \ DOMAIN c : DOMAIN sent[x] = {}
<1> DEFINE d == AddAssociation(c, p, path)
<1>1. DOMAIN d = DOMAIN c \cup {p \o s : s \in Prefixes(path)}
  BY DEF AddAssociation
<1>2. p \o path \in DOMAIN d
  BY <1>1, PrefixesArePaths
<1>3. \A x \in DOMAIN d : d[x] = IF x \in DOMAIN c THEN c[x] ELSE EmptyNode
  BY DEF AddAssociation
<1>4. DOMAIN Render(EmptyNode) = {}
  BY DEF Render, EmptyNode
<1> HIDE DEF d
<1>5. ToPayload(d) = [x \in DOMAIN d |-> Render(d[x])]
  BY DEF ToPayload
<1>6. \A x \in DOMAIN c : ToPayload(d)[x] = ToPayload(c)[x]
  BY <1>1, <1>3, <1>5 DEF ToPayload
<1>7. \A x \in DOMAIN ToPayload(d) \ DOMAIN c : DOMAIN ToPayload(d)[x] = {}
  BY <1>3, <1>4, <1>5
<1>8. p \o path \in DOMAIN ToPayload(d)
  BY <1>2, <1>5
<1>9. QED  BY <1>6, <1>7, <1>8 DEF d

\* Setting a value or a list of one criteria leaves what the others send.
THEOREM SettersAreLocal ==
  ASSUME NEW c, Built(c), NEW p \in DOMAIN c, NEW value, NEW list,
         NEW single \in SingleKeys, NEW key \in ListKeys, NEW x \in DOMAIN c \ {p}
  PROVE  /\ ToPayload(SetValue(c, p, single, value))[x] = ToPayload(c)[x]
         /\ ToPayload(SetList(c, p, key, list))[x] = ToPayload(c)[x]
  BY DEF ToPayload, SetValue, SetList, Built
=============================================================================
