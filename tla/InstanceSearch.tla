---------------------------- MODULE InstanceSearch ----------------------------
(***************************************************************************)
(* find_instances of cargo-optic-evidence, and the use of what it returns. *)
(* A search presents the instances of a capture in an order of its own and *)
(* cuts the list at a limit; each row carries a reference, the capture and *)
(* the position in that capture's manifest, by which source_evidence and   *)
(* llvm_evidence find the record again.  Captures are immutable, but new   *)
(* ones, with other positions, are published between the calls.            *)
(***************************************************************************)
EXTENDS Naturals, SequencesExt

CONSTANTS
  MaxText,       \* bound: names are the strings a, aa, ... up to this length
  MaxInstances,  \* bound: the instances of one capture
  MaxCaptures,   \* bound: the captures published
  MaxLimit       \* bound: the limits asked for

\* The empty string is the text 0.  Among such strings one contains another if
\* it is at least as long, and sorts after it if it is longer.
Texts == 1 .. MaxText
HasSubstring(text, query) == query <= text

\* The definition's crate and path count as one name here.
Records == [display : Texts, definition : Texts, symbol : Texts]

\* InstanceManifest::new refuses duplicate identities.
Manifests ==
  {m \in UNION {[1 .. n -> Records] : n \in 0 .. MaxInstances} :
     \A j, k \in DOMAIN m : m[j] = m[k] => j = k}

ASSUME SearchAssumption ==
  {MaxText, MaxInstances, MaxCaptures, MaxLimit} \subseteq Nat

VARIABLES
  captures,  \* the published captures' manifests
  searched,  \* the last search: a capture, a query and a limit
  rows,      \* its rows
  matched,   \* how they matched
  total,     \* how many matched
  opened     \* the row whose reference was used last, and the record it gave

searchVars == <<captures, searched, rows, matched, total, opened>>

Nothing == <<>>
Captures == DOMAIN captures
Rows == [capture : 1 .. MaxCaptures, ordinal : 0 .. MaxInstances - 1, record : Records]

SearchTypeOK ==
  /\ captures \in Seq(Manifests) /\ Len(captures) <= MaxCaptures
  /\ searched = Nothing \/
     searched \in [capture : 1 .. MaxCaptures, query : 0 .. MaxText, limit : 0 .. MaxLimit]
  /\ rows \in Seq(Rows)
  /\ matched \in {"none", "refused", "exact", "substring"}
  /\ total \in 0 .. MaxInstances
  /\ opened \in {Nothing} \cup (Rows \X Records)

SearchInit ==
  /\ captures = <<>>
  /\ searched = Nothing
  /\ rows = <<>> /\ matched = "none" /\ total = 0
  /\ opened = Nothing

-----------------------------------------------------------------------------
Publish(m) ==
  /\ Len(captures) < MaxCaptures
  /\ captures' = Append(captures, m)
  /\ UNCHANGED <<searched, rows, matched, total, opened>>

Names(r) == {r.display, r.definition, r.symbol}

ExactMatches(m, query) == {k \in DOMAIN m : query \in Names(m[k])}
SubstringMatches(m, query) ==
  {k \in DOMAIN m : \E name \in Names(m[k]) : HasSubstring(name, query)}

\* What rows are ordered by.
SortKey(r) == <<r.display, r.definition, r.symbol>>

Precedes(s, t) ==
  \E k \in DOMAIN s : s[k] < t[k] /\ \A j \in 1 .. k - 1 : s[j] = t[j]

\* The sort is stable: equal keys keep the order of the manifest.
Earlier(m, j, k) ==
  Precedes(SortKey(m[j]), SortKey(m[k])) \/ (SortKey(m[j]) = SortKey(m[k]) /\ j <= k)

Place(m, matches, k) == Cardinality({j \in matches : Earlier(m, j, k)})

Sorted(m, matches) ==
  [n \in 1 .. Cardinality(matches) |-> CHOOSE k \in matches : Place(m, matches, k) = n]

\* Mutant of Row: the reference has the row's position in the result.
RankedRow(c, order, k) ==
  [capture |-> c, ordinal |-> k - 1, record |-> captures[c][order[k]]]

\* A row refers to the position in the manifest, before filtering and sorting.
Row(c, order, k) ==
  [capture |-> c, ordinal |-> order[k] - 1, record |-> captures[c][order[k]]]

FindInstances(c, query, limit) ==
  /\ c \in Captures
  /\ searched' = [capture |-> c, query |-> query, limit |-> limit]
  /\ opened' = Nothing
  /\ IF query = 0 \/ limit = 0
       THEN matched' = "refused" /\ rows' = <<>> /\ total' = 0
       ELSE LET m == captures[c]
                exact == ExactMatches(m, query)
                matches == IF exact # {} THEN exact ELSE SubstringMatches(m, query)
                order == Sorted(m, matches)
            IN  /\ matched' = IF exact # {} THEN "exact" ELSE "substring"
                /\ total' = Cardinality(matches)
                /\ rows' = [k \in 1 .. Min({limit, Len(order)}) |-> Row(c, order, k)]
  /\ UNCHANGED captures

\* referenced_instance in the manifest of the reference's capture.
Referenced(row) == captures[row.capture][row.ordinal + 1]

\* source_evidence and llvm_evidence begin with the record of a reference.
OpenRow(k) ==
  /\ k \in DOMAIN rows
  /\ opened' = <<rows[k], Referenced(rows[k])>>
  /\ UNCHANGED <<captures, searched, rows, matched, total>>

SearchNext ==
  \/ \E m \in Manifests : Publish(m)
  \/ \E c \in 1 .. MaxCaptures, query \in 0 .. MaxText, limit \in 0 .. MaxLimit :
       FindInstances(c, query, limit)
  \/ \E k \in 1 .. MaxInstances : OpenRow(k)

SearchSpec == SearchInit /\ [][SearchNext]_searchVars

-----------------------------------------------------------------------------
\* The rows depend on which instances the capture has, not on their order: the
\* k-th row is the matching record with k - 1 matching records before it; names
\* that equal the query exclude those that contain it; the limit only cuts the
\* list.  A row opened later, in whatever captures there are by then, gives the
\* record that the search showed.
RowsAreExact ==
  matched \in {"exact", "substring"} =>
    LET records == ToSet(captures[searched.capture])
        equal == {r \in records : searched.query \in Names(r)}
        containing == {r \in records : \E n \in Names(r) : HasSubstring(n, searched.query)}
        matching == IF equal # {} THEN equal ELSE containing
        Before(r) == {q \in matching :
                        Precedes(<<q.display, q.definition, q.symbol>>,
                                 <<r.display, r.definition, r.symbol>>)}
    IN  /\ total = Cardinality(matching)
        /\ Len(rows) = Min({total, searched.limit})
        /\ \A k \in DOMAIN rows :
             rows[k].record \in matching /\ Cardinality(Before(rows[k].record)) = k - 1
        /\ opened # Nothing => opened[2] = opened[1].record
=============================================================================
