----------------------------- MODULE EvidenceLinks -----------------------------
(***************************************************************************)
(* The tables beside `decisions`: commit links (decision_git_refs) and     *)
(* retrieval feedback (feedback_log and two columns of a record), and the  *)
(* reads and writes of them (db/records.rs, db/evidence.rs), as operators  *)
(* of a store: a record of the tables that one transaction sees.           *)
(***************************************************************************)
EXTENDS ExactReads

CONSTANTS
    Commits, Subjects,
    NoLink,              \* no such row in decision_git_refs
    Precedes(_, _),      \* the order of identifiers as text
    PageLimit,           \* the most links of a page (100 in the code)
    Given                \* effectiveness, in hundredths, a row of an import
                         \* may bring (0 to 100 for the MCP tool, any in the
                         \* library)

ASSUME PageAssumption == PageLimit \in Nat \ {0}
ASSUME GivenAssumption == Given \subseteq Int /\ Null \notin Given
ASSUME OrderAssumption ==
    /\ \A i \in Ids : ~Precedes(i, i)
    /\ \A i, j \in Ids : i = j \/ Precedes(i, j) \/ Precedes(j, i)
    /\ \A i, j, k \in Ids : Precedes(i, j) /\ Precedes(j, k) => Precedes(i, k)
-----------------------------------------------------------------------------
(* The subject a commit is linked to a record with; a rating in hundredths *)
(* with the number of helpful verdicts; and the verdicts that were logged. *)
Links == [Ids \X Commits -> Subjects \cup {NoLink}]
Effectiveness == 1..100 \cup Given
Rating == [helped : Nat, effectiveness : Effectiveness]
Verdict == [id : Ids, helpful : BOOLEAN]
StoredWith(effectiveness) == [helped |-> 0, effectiveness |-> effectiveness]
Default == 50

Linked(s, id, commit) == s.links[<<id, commit>>] # NoLink

(* record_belongs_to_scope. *)
BelongsToScope(s, id, sc) == InScope(s.table, id, sc)

(* count_for_scope is zero. *)
NothingCurrent(s, sc, now) ==
    \A i \in Ids : Searchable(s.table, i, now) => s.table[i].scope # sc

(* evidence_identity_on: the seal covers the envelope. *)
Identity(s, id) == [id |-> id, seal |-> Envelope(s.table[id])]

(* The identity is still that of the record in the scope it names. *)
Authentic(s, identity) ==
    /\ BelongsToScope(s, identity.id, identity.seal.scope)
    /\ Identity(s, identity.id) = identity

(* INSERT of a link that is not there yet. *)
WithLink(s, id, commit, subject) ==
    IF Linked(s, id, commit) THEN s
    ELSE [s EXCEPT !.links[<<id, commit>>] = subject]

(* Mutant: the identity read before the transaction is trusted. *)
LinkTrusted(s, identity, commit, subject) ==
    IF Linked(s, identity.id, commit) /\ s.links[<<identity.id, commit>>] # subject
      THEN "link_conflict" ELSE "ok"

(* Mutant: a link that is there already is a replay, whatever its subject. *)
LinkVerdictAnySubject(s, identity, commit, subject) ==
    IF Authentic(s, identity) THEN "ok" ELSE "evidence_unavailable"

(* link_git_in_scope_inner: its verdict; "ok" is Created or ExactReplay.   *)
LinkVerdict(s, identity, commit, subject) ==
    IF ~Authentic(s, identity) THEN "evidence_unavailable"
    ELSE IF Linked(s, identity.id, commit) /\ s.links[<<identity.id, commit>>] # subject
      THEN "link_conflict" ELSE "ok"

(* Store::feedback of a current record: the clamped rating and the log.    *)
WithFeedback(s, id, helpful, now) ==
    IF ~Searchable(s.table, id, now) THEN s
    ELSE [s EXCEPT
            !.ratings[id] =
               [helped |-> @.helped + (IF helpful THEN 1 ELSE 0),
                effectiveness |->
                    Min({100, Max({1, @.effectiveness + (IF helpful THEN 5 ELSE -3)})})],
            !.log = Append(@, [id |-> id, helpful |-> helpful])]

(* The links of a commit to the records of a scope. *)
LinksOf(s, sc, commit) == {i \in Ids : InScope(s.table, i, sc) /\ Linked(s, i, commit)}

(* Mutant: the cursor is the last link of the page before. *)
StrictlyFrom(ids, cursor) == {i \in ids : cursor # Null => i # cursor /\ ~Precedes(i, cursor)}

(* A cursor is the first link of its page. *)
FromCursor(ids, cursor) == {i \in ids : cursor # Null => ~Precedes(i, cursor)}

(* ORDER BY decision_id. *)
InOrder(ids) ==
    [n \in 1..Cardinality(ids) |->
        CHOOSE i \in ids : Cardinality({j \in ids : Precedes(j, i)}) = n - 1]

(* get_commit_links: an error, or the links of the page in order and the   *)
(* cursor of the next one.                                                 *)
LinksPage(s, sc, commit, cursor) ==
    LET all == LinksOf(s, sc, commit)
        rest == InOrder(FromCursor(all, cursor))
    IN  IF cursor # Null /\ cursor \notin all THEN [fault |-> "invalid_cursor"]
        ELSE IF rest = <<>> THEN [fault |-> "not_found"]
        ELSE [fault |-> "none",
              items |-> SubSeq(rest, 1, Min({PageLimit, Len(rest)})),
              next |-> IF Len(rest) > PageLimit THEN rest[PageLimit + 1] ELSE Null]
=============================================================================
