---------------------------- MODULE DecisionStore ----------------------------
(***************************************************************************)
(* The `decisions` table of an open-why store and the operations of the    *)
(* `Store` library that write it: capture, capture_external,               *)
(* import_external, import_decisions, reconcile_external_supersession and  *)
(* rescope (src/src/db).  Each operation runs in one SQLite transaction    *)
(* and is one action here; an operation that returns an error rolls back,  *)
(* so a refused call is a step that does not happen.                       *)
(*                                                                         *)
(* The wall clock is read once per call (now_epoch) and nothing in the     *)
(* code relies on its moving forward, so the instant a call sees is an     *)
(* input of the action, any value of Clock.                                *)
(*                                                                         *)
(* A row has the columns the lifecycle depends on.  What these operations  *)
(* write besides (git references, embeddings, seals, retrieval counters)   *)
(* no guard here reads; a row's seal always agrees with its envelope.      *)
(***************************************************************************)
EXTENDS Integers, FiniteSets, Sequences

CONSTANTS
    Ids,             \* record identifiers: commit hashes, digests, external ids
    ExternalIds,     \* the identifiers that callers of capture_external mint
    Scopes,          \* repository scopes
    Decisions,       \* sealed payloads: records with at least a kind and a title
    Keys,            \* fact keys
    Null,            \* SQL NULL
    Blank,           \* the empty text '', distinct from NULL in every column
    NoRow,           \* no record has this identifier
    MaxInstant,      \* the last second a canonical timestamp can name
    Clock,           \* the instants now_epoch may return
    MaxChain,        \* MAX_SUPERSESSION_CHAIN (64 in the code)
    CaptureId,       \* capture's digest: the id of a (scope, decision) pair
    ValidFroms,      \* explicit valid_from arguments of capture_external
    ImportBatches,   \* argument lists of import_external
    MinedBatches,    \* what the miner hands import_decisions: id -> decision
    Retirements      \* valid_until arguments of reconcile_external_supersession

VARIABLE db          \* the table: identifier -> row

-----------------------------------------------------------------------------
Instants == 0..MaxInstant

(***************************************************************************)
(* A stored timestamp is text, read by two parsers: the store's strict     *)
(* iso_to_epoch (the `iso` field) and SQLite's unixepoch() (`unix`).  Null *)
(* means the parser refuses the text: iso_to_epoch refuses all but the     *)
(* canonical form, unixepoch also reads a date without a time.             *)
(***************************************************************************)
Text == [iso : Instants \cup {Null}, unix : Instants \cup {Null}]
Whole(t) == [iso |-> t, unix |-> t]

Row == [scope : Scopes, decision : Decisions, fact_key : Keys \cup {Null},
        valid_from : Text \cup {Null, Blank},
        declared_valid_until : Text \cup {Null, Blank},
        valid_until : Text \cup {Null, Blank},
        superseded_by : Ids \cup {Null, Blank}]

(* A call of capture_external; supersedes is Null for none and for ''. *)
ExternalRequest ==
    [id : ExternalIds, scope : Scopes, decision : Decisions,
     valid_from : ValidFroms \cup {Null}, fact_key : Keys \cup {Null},
     supersedes : Ids \cup {Null}]

(***************************************************************************)
(* What the constants stand for.                                           *)
(***************************************************************************)
ASSUME NullsAssumption ==
    /\ Null \notin Ids /\ Blank \notin Ids /\ Null # Blank
    /\ Null \notin Text /\ Blank \notin Text
    /\ NoRow \notin Row /\ Null \notin Scopes

ASSUME ClockAssumption ==
    /\ MaxInstant \in Nat /\ Clock \subseteq Instants
    /\ Null \notin Instants

(* The limit leaves room for a record and its successor (64 in the code);  *)
(* an identifier is a text, which SQLite bounds, so there are finitely many *)
(* of them.                                                                *)
ASSUME ChainAssumption == MaxChain \in Nat /\ MaxChain >= 2 /\ IsFiniteSet(Ids)

ASSUME InputsAssumption ==
    /\ ExternalIds \subseteq Ids
    /\ DOMAIN CaptureId \subseteq Scopes \X Decisions
    /\ \A p \in DOMAIN CaptureId : CaptureId[p] \in Ids
    /\ ValidFroms \subseteq {v \in Text : v.iso # Null}
    /\ Retirements \subseteq {v \in Text : v.iso # Null}
    /\ \A b \in ImportBatches :
           /\ b \in Seq([id : Ids, row : Row])
           /\ \A n \in DOMAIN b :
                  b[n].row.declared_valid_until = b[n].row.valid_until
    /\ \A m \in MinedBatches : /\ DOMAIN m \subseteq Ids
                               /\ \A i \in DOMAIN m : m[i] \in Decisions

-----------------------------------------------------------------------------
(***************************************************************************)
(* Reading a table.  These operators take the table as an argument, so     *)
(* that a transaction can evaluate them on the snapshot it reads.          *)
(***************************************************************************)
Exists(d, i) == d[i] # NoRow
InScope(d, i, sc) == Exists(d, i) /\ d[i].scope = sc

(* The fields record_digest_v1 seals; an exact replay must agree on all.  *)
Envelope(row) == [scope |-> row.scope, decision |-> row.decision,
                  fact_key |-> row.fact_key, valid_from |-> row.valid_from,
                  declared_valid_until |-> row.declared_valid_until]
ExactReplay(d, i, row) == Envelope(d[i]) = Envelope(row)

(* Mutant: a record without an end of validity counts as open. *)
OpenByValidity(row) == row.valid_until = Null

(* The predicate `superseded_by IS NULL AND valid_until IS NULL`. *)
Open(row) == row.superseded_by = Null /\ row.valid_until = Null

(* S is closed under the successor relation of the records of one scope. *)
ClosedInScope(d, sc, S) ==
    \A x \in S : InScope(d, x, sc) /\ d[x].superseded_by \in Ids
                    => d[x].superseded_by \in S

(* The identifiers a walk along superseded_by visits from `start`: the     *)
(* least closed set that contains it.                                      *)
Visited(d, sc, start) ==
    {x \in Ids : \A S \in SUBSET Ids :
                     start \in S /\ ClosedInScope(d, sc, S) => x \in S}

(* Mutants of the next definition: the walk forgotten, one record too many *)
(* allowed, the walk not held in the scope.                                *)
AcyclicRetirementNoWalk(d, successor, predecessor, sc) ==
    successor # predecessor
AcyclicRetirementOffByOne(d, successor, predecessor, sc) ==
    /\ successor # predecessor
    /\ \/ ~InScope(d, successor, sc)
       \/ LET walk == Visited(d, sc, successor)
          IN  /\ predecessor \notin walk
              /\ \A x \in walk : InScope(d, x, sc)
              /\ \E x \in walk : d[x].superseded_by \notin Ids
              /\ Cardinality(walk) <= MaxChain
AcyclicRetirementAnyScope(d, successor, predecessor, sc) ==
    /\ successor # predecessor
    /\ \/ ~InScope(d, successor, sc)
       \/ LET walk == Visited(d, sc, successor)
          IN predecessor \notin walk /\ Cardinality(walk) < MaxChain

(***************************************************************************)
(* ensure_acyclic_retirement_on: the walk from the successor must end at a *)
(* record without a successor, stay in the scope, not meet the predecessor *)
(* and visit fewer than MaxChain records.  A successor that is not stored  *)
(* yet needs no walk.  A walk that repeats a record visits no record       *)
(* without a successor.                                                    *)
(***************************************************************************)
AcyclicRetirement(d, successor, predecessor, sc) ==
    /\ successor # predecessor
    /\ \/ ~InScope(d, successor, sc)
       \/ LET walk == Visited(d, sc, successor)
          IN  /\ predecessor \notin walk
              /\ \A x \in walk : InScope(d, x, sc)
              /\ \E x \in walk : d[x].superseded_by \notin Ids
              /\ Cardinality(walk) < MaxChain

(* Mutant: a retirement at the very start of the validity. *)
RetirementTimeAtStart(row, now) ==
    IF row.valid_from = Null \/ now >= row.valid_from.iso
      THEN now ELSE row.valid_from.iso + 1

(* max(now, valid_from + 1), with no lower bound when valid_from is NULL. *)
RetirementTime(row, now) ==
    IF row.valid_from = Null \/ now > row.valid_from.iso
      THEN now ELSE row.valid_from.iso + 1

(* A text column holds a canonical timestamp iso_to_epoch accepts. *)
Canonical(v) == v \in Text /\ v.iso # Null

(* Mutant: an instant past the last canonical timestamp is accepted. *)
RetirementTimeUnbounded(row, now) ==
    row.valid_from = Null \/ Canonical(row.valid_from)

(* The retirement instant exists: valid_from is absent or canonical, and    *)
(* epoch_to_iso of the instant reads back as itself.                        *)
RetirementTimeExists(row, now) ==
    \/ row.valid_from = Null
    \/ Canonical(row.valid_from) /\ RetirementTime(row, now) \in Instants

(***************************************************************************)
(* pending_retirement_time_on accepts p as a predecessor of successor: it  *)
(* is retired by it already (nothing is left to do), or it can be.         *)
(***************************************************************************)
Retirable(d, p, sc, successor, now) ==
    /\ InScope(d, p, sc)
    /\ \/ d[p].superseded_by = successor
       \/ /\ d[p].superseded_by = Null
          /\ AcyclicRetirement(d, successor, p, sc)
          /\ RetirementTimeExists(d[p], now)

(* The UPDATE that closes a record's validity and names its successor. *)
Superseded(row, successor, until) ==
    [row EXCEPT !.superseded_by = successor, !.valid_until = until]

(* Mutant: the UPDATE lacks `superseded_by IS NULL`. *)
RetireAgain(d, preds, successor, now) ==
    [i \in Ids |->
        IF i \in preds
          THEN Superseded(d[i], successor, Whole(RetirementTime(d[i], now)))
          ELSE d[i]]

(* The UPDATE of every predecessor that still has no successor. *)
Retire(d, preds, successor, now) ==
    [i \in Ids |->
        IF i \in preds /\ d[i].superseded_by = Null
          THEN Superseded(d[i], successor, Whole(RetirementTime(d[i], now)))
          ELSE d[i]]

(* INSERT OR IGNORE of one row. *)
Insert(d, id, row) == [d EXCEPT ![id] = IF Exists(d, id) THEN @ ELSE row]

-----------------------------------------------------------------------------
(* A row as the capture paths write it. *)
NewRow(sc, decision, key, from) ==
    [scope |-> sc, decision |-> decision, fact_key |-> key, valid_from |-> from,
     declared_valid_until |-> Null, valid_until |-> Null, superseded_by |-> Null]

(***************************************************************************)
(* Store::capture: the id is a digest of scope, kind, title and body, no   *)
(* fact key, no valid_from; only an explicit `supersedes` retires.         *)
(***************************************************************************)
CapturedRow(sc, decision) == NewRow(sc, decision, Null, Null)

CaptureAccepts(d, sc, decision, supersedes, now) ==
    LET id == CaptureId[<<sc, decision>>]
    IN  /\ Exists(d, id) => ExactReplay(d, id, CapturedRow(sc, decision))
        /\ \A p \in {supersedes} \ {Null} : Retirable(d, p, sc, id, now)

AfterCapture(d, sc, decision, supersedes, now) ==
    LET id == CaptureId[<<sc, decision>>]
    IN  Retire(Insert(d, id, CapturedRow(sc, decision)), {supersedes} \ {Null}, id, now)

Capture(sc, decision, supersedes, now) ==
    /\ CaptureAccepts(db, sc, decision, supersedes, now)
    /\ db' = AfterCapture(db, sc, decision, supersedes, now)

(* Mutant: a replay is compared with a validity that starts now. *)
ExternalRowFromNow(d, r, now) ==
    NewRow(r.scope, r.decision, r.fact_key,
           IF r.valid_from # Null THEN r.valid_from ELSE Whole(now))

(***************************************************************************)
(* Store::capture_external.  Without an explicit valid_from a replay takes *)
(* the stored one and a new record takes the clock.                        *)
(***************************************************************************)
ExternalRow(d, r, now) ==
    LET stored == IF Exists(d, r.id) THEN d[r.id].valid_from ELSE Null
        from == IF r.valid_from # Null THEN r.valid_from
                ELSE IF stored # Null THEN stored
                ELSE Whole(now)
    IN  NewRow(r.scope, r.decision, r.fact_key, from)

(* Mutant: records that share the fact key only are not looked for. *)
SameTitle(d, r) ==
    {i \in Ids \ {r.id} :
        /\ InScope(d, i, r.scope)
        /\ d[i].decision.kind = r.decision.kind
        /\ Open(d[i])
        /\ d[i].decision.title = r.decision.title}

(* The open records of the same scope and kind that share the fact key or  *)
(* the title of the request.                                               *)
SameFact(d, r) ==
    {i \in Ids \ {r.id} :
        /\ InScope(d, i, r.scope)
        /\ d[i].decision.kind = r.decision.kind
        /\ Open(d[i])
        /\ \/ r.fact_key # Null /\ d[i].fact_key = r.fact_key
           \/ d[i].decision.title = r.decision.title}

ExternalPredecessors(d, r) == ({r.supersedes} \ {Null}) \cup SameFact(d, r)

(* Every check of the call, made before its first write. *)
CaptureExternalAccepts(d, r, now) ==
    /\ Exists(d, r.id) => ExactReplay(d, r.id, ExternalRow(d, r, now))
    /\ \A p \in ExternalPredecessors(d, r) :
           Retirable(d, p, r.scope, r.id, now)

(* What its writes leave. *)
AfterCaptureExternal(d, r, now) ==
    Retire(Insert(d, r.id, ExternalRow(d, r, now)),
           ExternalPredecessors(d, r), r.id, now)

CaptureExternal(r, now) ==
    /\ CaptureExternalAccepts(db, r, now)
    /\ db' = AfterCaptureExternal(db, r, now)

(***************************************************************************)
(* Store::import_external: rows are stored as given, lifecycle included.   *)
(* Rows of one batch with the same id must have the same envelope (the     *)
(* first is kept), and a stored row must be replayed exactly.              *)
(***************************************************************************)
ImportedIds(batch) == {batch[n].id : n \in DOMAIN batch}
FirstOf(batch, i) ==
    CHOOSE n \in DOMAIN batch :
        batch[n].id = i /\ \A m \in DOMAIN batch : batch[m].id = i => n <= m

ImportAccepts(d, batch) ==
    /\ \A m, n \in DOMAIN batch :
           batch[m].id = batch[n].id
               => Envelope(batch[m].row) = Envelope(batch[n].row)
    /\ \A n \in DOMAIN batch :
           Exists(d, batch[n].id) => ExactReplay(d, batch[n].id, batch[n].row)

AfterImport(d, batch) ==
    [i \in Ids |-> IF i \in ImportedIds(batch) /\ ~Exists(d, i)
                     THEN batch[FirstOf(batch, i)].row ELSE d[i]]

ImportExternal(batch) ==
    /\ ImportAccepts(db, batch)
    /\ db' = AfterImport(db, batch)

(***************************************************************************)
(* Store::import_decisions: mined commits and decision files.  A record    *)
(* whose id is stored, in whatever scope, is skipped.                      *)
(***************************************************************************)
AfterMining(d, sc, mined) ==
    [i \in Ids |-> IF i \in DOMAIN mined /\ ~Exists(d, i)
                     THEN NewRow(sc, mined[i], Null, Null) ELSE d[i]]

ImportDecisions(sc, mined) == db' = AfterMining(db, sc, mined)

(***************************************************************************)
(* Store::reconcile_external_supersession of two stored records.  A        *)
(* valid_from iso_to_epoch cannot read is not compared.                    *)
(***************************************************************************)
StartsAfter(row, until) == Canonical(row.valid_from) /\ row.valid_from.iso > until.iso

ReconcileAccepts(d, p, successor, sc, until) ==
    /\ p # successor
    /\ InScope(d, p, sc) /\ InScope(d, successor, sc)
    /\ Open(d[p])
    /\ ~StartsAfter(d[p], until) /\ ~StartsAfter(d[successor], until)
    /\ AcyclicRetirement(d, successor, p, sc)

AfterReconcile(d, p, successor, until) ==
    [d EXCEPT ![p] = Superseded(@, successor, until)]

ReconcileExternalSupersession(p, successor, sc, until) ==
    /\ ReconcileAccepts(db, p, successor, sc, until)
    /\ db' = AfterReconcile(db, p, successor, until)

(* Mutant: only the current records of the scope are moved. *)
RescopeCurrent(from, to) ==
    /\ from # to
    /\ db' = [i \in Ids |-> IF InScope(db, i, from) /\ Open(db[i])
                              THEN [db[i] EXCEPT !.scope = to] ELSE db[i]]

(***************************************************************************)
(* Store::rescope: every record of one scope moves to another and is       *)
(* sealed again; nothing else of it changes.                               *)
(***************************************************************************)
AfterRescope(d, from, to) ==
    [i \in Ids |-> IF InScope(d, i, from)
                     THEN [d[i] EXCEPT !.scope = to] ELSE d[i]]

Rescope(from, to) ==
    /\ from # to
    /\ db' = AfterRescope(db, from, to)

-----------------------------------------------------------------------------
Init == db = [i \in Ids |-> NoRow]

CaptureStep ==
    \E p \in DOMAIN CaptureId, supersedes \in Ids \cup {Null}, now \in Clock :
        Capture(p[1], p[2], supersedes, now)
CaptureExternalStep ==
    \E r \in ExternalRequest, now \in Clock : CaptureExternal(r, now)
ImportExternalStep == \E batch \in ImportBatches : ImportExternal(batch)
ImportDecisionsStep ==
    \E sc \in Scopes, mined \in MinedBatches : ImportDecisions(sc, mined)
ReconcileStep ==
    \E p, successor \in Ids, sc \in Scopes, until \in Retirements :
        ReconcileExternalSupersession(p, successor, sc, until)
RescopeStep == \E from, to \in Scopes : Rescope(from, to)

Next == \/ CaptureStep
        \/ CaptureExternalStep
        \/ ImportExternalStep
        \/ ImportDecisionsStep
        \/ ReconcileStep
        \/ RescopeStep

Spec == Init /\ [][Next]_db
-----------------------------------------------------------------------------
(* Every stored row has the shape the schema and the write paths give it. *)
TypeOK == db \in [Ids -> Row \cup {NoRow}]

(***************************************************************************)
(* A nonempty set of stored records each of which is superseded by another *)
(* member of the set: what makes every walk that enters it run for ever.   *)
(***************************************************************************)
Trap(d, S) == /\ S # {}
              /\ \A x \in S : Exists(d, x) /\ d[x].superseded_by \in S

(* No chain of supersessions is a cycle, however many captures and         *)
(* reconciliations built it: ensure_acyclic_retirement_on sees only the    *)
(* walk from the successor, one predecessor at a time, but                 *)
(* capture_external retires several predecessors at once.                  *)
NoSupersessionCycle == \A S \in SUBSET Ids : ~Trap(db, S)

(* Whatever was imported, only an import can add a cycle: every cycle left *)
(* by another operation holds one that was there before it.                *)
OnlyImportsCloseCycles ==
    [][\/ \A S \in SUBSET Ids :
              Trap(db', S) => \E T \in SUBSET S : Trap(db, T)
       \/ ImportExternalStep]_db

(* A successor is stored in the scope of the record it supersedes, also    *)
(* after scopes were moved or merged: a scoped read that follows the chain *)
(* never runs into another scope or a missing record.                      *)
SupersessionStaysInScope ==
    \A i \in Ids : Exists(db, i) /\ db[i].superseded_by \in Ids
                       => InScope(db, db[i].superseded_by, db[i].scope)

(* A record's validity has a positive length as the reads measure it (by   *)
(* unixepoch), else every exact read that meets the record fails with      *)
(* invalid_temporal_data.                                                  *)
PositiveWindow(row) ==
    row.valid_from \in Text /\ row.valid_until \in Text
        => row.valid_from.unix < row.valid_until.unix
PositiveValidity == \A i \in Ids : Exists(db, i) => PositiveWindow(db[i])

(* At most one open record holds a fact key of a scope and kind: captures  *)
(* that share the key retire one another in whatever order they come,      *)
(* replays of superseded records included.                                 *)
OneOpenRecordPerFact ==
    \A i, j \in Ids :
        /\ Exists(db, i) /\ Exists(db, j)
        /\ Open(db[i]) /\ Open(db[j])
        /\ db[i].scope = db[j].scope /\ db[i].decision.kind = db[j].decision.kind
        /\ db[i].fact_key # Null /\ db[i].fact_key = db[j].fact_key
        => i = j

(* History is written once: no operation removes a record, changes its     *)
(* envelope other than its scope, changes a successor or moves the end of  *)
(* a validity without naming the successor.                                *)
LifecycleWriteOnce ==
    [][\A i \in Ids : Exists(db, i) =>
          /\ Exists(db', i)
          /\ Envelope(db'[i]) = [Envelope(db[i]) EXCEPT !.scope = db'[i].scope]
          /\ \/ /\ db'[i].superseded_by = db[i].superseded_by
                /\ db'[i].valid_until = db[i].valid_until
             \/ db[i].superseded_by = Null /\ db'[i].superseded_by \in Ids]_db

(* The write bound fits the read bound: the chain of a record that is      *)
(* retired now stays in its scope, ends, and has at most MaxChain records, *)
(* the limit get_current_evidence puts on a chain; whatever was imported.  *)
ChainIsReadable(d, sc, i) ==
    LET walk == Visited(d, sc, i)
    IN  /\ \A x \in walk : InScope(d, x, sc)
        /\ \E x \in walk : d[x].superseded_by \notin Ids
        /\ Cardinality(walk) <= MaxChain
RetiredRecordIsReadable ==
    [][\A i \in Ids :
          /\ Exists(db, i) /\ db[i].superseded_by = Null
          /\ db'[i].superseded_by \in Ids
          => ChainIsReadable(db', db'[i].scope, i)]_db

(* A caller that lost the answer may send the same capture again: it is    *)
(* accepted at any later instant and finds nothing left to retire.         *)
RetryIsAcceptedAndIdle ==
    \A r \in ExternalRequest, now \in Clock :
        CaptureExternalAccepts(db, r, now) =>
            LET after == AfterCaptureExternal(db, r, now)
            IN  \A later \in Clock :
                    /\ CaptureExternalAccepts(after, r, later)
                    /\ \A p \in ExternalPredecessors(after, r) :
                           after[p].superseded_by = r.id

(***************************************************************************)
(* What the documentation says and the code does not keep.                 *)
(***************************************************************************)
(* The call that captured a stored external record, without an explicit    *)
(* `supersedes`.                                                           *)
CaptureOf(d, i) == [id |-> i, scope |-> d[i].scope, decision |-> d[i].decision,
                    valid_from |-> d[i].valid_from, fact_key |-> d[i].fact_key,
                    supersedes |-> Null]

(* "Replaying the same capture identity [...] is idempotent": a capture of *)
(* a record that is stored is accepted ("re-capturing the same id returns  *)
(* it") and changes nothing.                                               *)
ReplayIsIdempotent ==
    \A i \in ExternalIds : Exists(db, i) /\ db[i].valid_from # Null =>
        \A now \in Clock :
            /\ CaptureExternalAccepts(db, CaptureOf(db, i), now)
            /\ AfterCaptureExternal(db, CaptureOf(db, i), now) = db

(* "conflicting or invalid lifecycle state fails before effect": the window *)
(* a reconciliation closes is one the exact reads accept.                  *)
ReconciledWindowIsPositive ==
    [][\A p, successor \in Ids, sc \in Scopes, until \in Retirements :
          ReconcileExternalSupersession(p, successor, sc, until)
              => PositiveWindow(db'[p])]_db
=============================================================================
