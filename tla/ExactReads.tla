------------------------------ MODULE ExactReads ------------------------------
(***************************************************************************)
(* What a reader of the store is told: the exact reads of src/src/db       *)
(* (get_current_evidence, its scoped form and get_rationale_history), which *)
(* follow superseded_by inside one read transaction, and the predicate by  *)
(* which search, get and feedback call a record current.                   *)
(*                                                                         *)
(* A read is an operator of a table, since its transaction sees one        *)
(* snapshot.  The properties hold of every table the operations of         *)
(* DecisionStore can leave.                                                *)
(***************************************************************************)
EXTENDS DecisionStore, SequencesExt

-----------------------------------------------------------------------------
(* Mutant: the scope of a successor is not looked at. *)
VisibleAnywhere(d, i, sc) == Exists(d, i)

(* current_node_on: a scoped read (sc a scope) sees no record of another    *)
(* scope; an unscoped one (sc = Null) sees all.                            *)
Visible(d, i, sc) == Exists(d, i) /\ (sc = Null \/ d[i].scope = sc)

(* The checks on the two timestamps of a node: SQLite reads what is        *)
(* present, and the interval is positive.                                  *)
SoundWindow(row) ==
    /\ \A v \in {row.valid_from, row.valid_until} : v \in Text => v.unix # Null
    /\ PositiveWindow(row)

HasSuccessor(d, i) == d[i].superseded_by \in Ids

(* The record behind each one; none behind Null or a record not stored. *)
Successor(d) ==
    [i \in Ids \cup {Null} |->
        IF i # Null /\ Exists(d, i) /\ HasSuccessor(d, i)
          THEN d[i].superseded_by ELSE Null]

(* The cursor of the walk, by the number of records already passed. *)
Cursors(d, start) ==
    LET successor == Successor(d)
        cursor[n \in 0..MaxChain] ==
            IF n = 0 THEN start ELSE successor[cursor[n - 1]]
    IN  cursor

(* The checks the loop makes on its n-th record, in the code's order. *)
Fault(d, sc, cursor, n) ==
    IF \E m \in 0..(n - 1) : cursor[m] = cursor[n] THEN "cycle"
    ELSE IF ~Visible(d, cursor[n], sc)
      THEN IF n = 0 THEN "not_found" ELSE "broken_chain"
    ELSE IF ~SoundWindow(d[cursor[n]]) THEN "invalid_temporal_data"
    ELSE IF HasSuccessor(d, cursor[n]) /\ n + 1 >= MaxChain THEN "traversal_limit"
    ELSE "none"

(* The walk from `start`: the first fault, or the whole chain. *)
Walk(d, sc, start) ==
    LET cursor == Cursors(d, start)
        Stops(n) == Fault(d, sc, cursor, n) # "none" \/ ~HasSuccessor(d, cursor[n])
        last == CHOOSE n \in 0..(MaxChain - 1) :
                    Stops(n) /\ \A m \in 0..(n - 1) : ~Stops(m)
    IN  [fault |-> Fault(d, sc, cursor, last),
         chain |-> [n \in 1..(last + 1) |-> cursor[n - 1]]]

(* get_current_evidence at the instant as_of: an error, or the current     *)
(* record at the end of the chain.                                         *)
CurrentEvidence(d, id, sc, as_of) ==
    LET walk == Walk(d, sc, id)
        current == Last(walk.chain)
        row == d[current]
        Answer(code) == [code |-> code, current |-> Null]
    IN  IF walk.fault # "none" THEN Answer(walk.fault)
        ELSE IF row.valid_from \in Text /\ as_of < row.valid_from.unix
          THEN Answer("not_yet_valid")
        ELSE IF row.valid_until \in Text /\ as_of >= row.valid_until.unix
          THEN Answer("expired_without_successor")
        ELSE [code |-> "ok", current |-> current]

(* Mutant: a validity that has not started is not looked at. *)
SearchableEarly(d, i, now) ==
    /\ Exists(d, i)
    /\ d[i].superseded_by = Null
    /\ \/ d[i].valid_until = Null
       \/ d[i].valid_until \in Text /\ d[i].valid_until.unix # Null
          /\ d[i].valid_until.unix > now

(* The WHERE clause of search, get, count_for_scope and feedback. A        *)
(* comparison with SQL NULL, which unixepoch returns for a text it cannot  *)
(* read, is not true.                                                      *)
Searchable(d, i, now) ==
    /\ Exists(d, i)
    /\ d[i].superseded_by = Null
    /\ \/ d[i].valid_from = Null
       \/ d[i].valid_from \in Text /\ d[i].valid_from.unix # Null
          /\ d[i].valid_from.unix <= now
    /\ \/ d[i].valid_until = Null
       \/ d[i].valid_until \in Text /\ d[i].valid_until.unix # Null
          /\ d[i].valid_until.unix > now

-----------------------------------------------------------------------------
(* A store that was only captured and mined into, whose scopes may have    *)
(* been moved, is readable: an exact read of a stored record finds its     *)
(* current record, unless that one starts in the future or the chain has   *)
(* outgrown the traversal limit since.  It never finds a cycle, a missing  *)
(* successor, a bad interval or an expired record.                         *)
CapturedRecordsResolve ==
    \A i \in Ids, now \in Clock : Exists(db, i) =>
        CurrentEvidence(db, i, db[i].scope, now).code
            \in {"ok", "not_yet_valid", "traversal_limit"}

(* What a scoped read answers depends on the records of its scope alone,   *)
(* however damaged the store: it does not tell whether a record it cannot  *)
(* reach exists in another scope.                                          *)
OnlyScope(d, sc) == [i \in Ids |-> IF InScope(d, i, sc) THEN d[i] ELSE NoRow]
ScopedReadIsBlindElsewhere ==
    \A i \in Ids, sc \in Scopes, now \in Clock :
        CurrentEvidence(db, i, sc, now)
            = CurrentEvidence(OnlyScope(db, sc), i, sc, now)

(* The two notions of "current" agree one way: a record that search, get   *)
(* or feedback takes for current is the answer of its own exact read at    *)
(* the same instant, whatever was imported.                                *)
SearchAgreesWithExactRead ==
    \A i \in Ids, now \in Clock : Searchable(db, i, now) =>
        CurrentEvidence(db, i, db[i].scope, now) = [code |-> "ok", current |-> i]

(* History only grows at its end: a chain that two successive states of    *)
(* the store can both read only gets longer, so a record once resolved to  *)
(* a successor is never resolved to an earlier one or to another branch.   *)
ChainsOnlyGrow ==
    [][\A i \in Ids :
          LET before == Walk(db, Null, i)
              after == Walk(db', Null, i)
          IN  before.fault = "none" /\ after.fault = "none"
                  => IsPrefix(before.chain, after.chain)]_db

(***************************************************************************)
(* "normal search returns current records": the other way of the agreement *)
(* (a record an exact read resolves to itself is one search may return).   *)
(***************************************************************************)
CurrentRecordsAreSearchable ==
    \A i \in Ids, now \in Clock : Exists(db, i) =>
        (CurrentEvidence(db, i, db[i].scope, now).current = i
            => Searchable(db, i, now))
===============================================================================
