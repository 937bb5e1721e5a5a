------------------------- MODULE DecisionStoreProofs -------------------------
(***************************************************************************)
(* Theorems about DecisionStore, for every value of its constants.         *)
(***************************************************************************)
EXTENDS DecisionStore, FiniteSetTheorems, WellFoundedInduction, TLAPS

Table == [Ids -> Row \cup {NoRow}]

-----------------------------------------------------------------------------
(***************************************************************************)
(* The two table updates every capture is made of.                         *)
(***************************************************************************)

(* A row that is stored is what was there: INSERT OR IGNORE keeps it, and   *)
(* the other identifiers keep theirs.                                      *)
LEMMA InsertKeeps ==
    ASSUME NEW d \in Table, NEW id \in Ids, NEW row \in Row
    PROVE  /\ Insert(d, id, row) \in Table
           /\ \A i \in Ids : i # id \/ Exists(d, i) => Insert(d, id, row)[i] = d[i]
           /\ ~Exists(d, id) => Insert(d, id, row)[id] = row
    BY DEF Insert, Exists, Table

(* A predecessor that is retirable and has no successor yet has a          *)
(* retirement instant.                                                     *)
LEMMA RetirementIsInstant ==
    ASSUME NEW d \in Table, NEW p \in Ids, NEW sc \in Scopes, NEW s \in Ids,
           NEW now \in Clock,
           Retirable(d, p, sc, s, now), d[p].superseded_by = Null
    PROVE  /\ d[p] \in Row
           /\ Whole(RetirementTime(d[p], now)) \in Text
<1>1. d[p] \in Row
  BY DEF Retirable, InScope, Exists, Table
<1>2. RetirementTimeExists(d[p], now)
  BY NullsAssumption DEF Retirable
<1>3. RetirementTime(d[p], now) \in Instants
  BY <1>1, <1>2, ClockAssumption DEF RetirementTimeExists, RetirementTime
<1>4. Whole(RetirementTime(d[p], now)) \in Text
  BY <1>3 DEF Whole, Text
<1> QED BY <1>1, <1>4

(* What the UPDATE of a retirement writes, and what it leaves alone. *)
LEMMA SupersededRow ==
    ASSUME NEW row \in Row
    PROVE  /\ \A s, t : /\ Superseded(row, s, t).superseded_by = s
                       /\ Superseded(row, s, t).valid_until = t
                       /\ Superseded(row, s, t).scope = row.scope
                       /\ Superseded(row, s, t).valid_from = row.valid_from
                       /\ Envelope(Superseded(row, s, t)) = Envelope(row)
           /\ \A s \in Ids, t \in Text : Superseded(row, s, t) \in Row
    BY DEF Superseded, Row, Envelope

(* Retiring records that have a retirement instant keeps a table a table.  *)
LEMMA RetireType ==
    ASSUME NEW d \in Table, NEW preds, NEW s \in Ids, NEW now \in Clock,
           \A p \in preds \cap Ids : d[p].superseded_by = Null =>
               /\ d[p] \in Row
               /\ Whole(RetirementTime(d[p], now)) \in Text
    PROVE  Retire(d, preds, s, now) \in Table
<1> SUFFICES ASSUME NEW i \in Ids
             PROVE  Retire(d, preds, s, now)[i] \in Row \cup {NoRow}
  BY DEF Retire, Table
<1>1. CASE i \in preds /\ d[i].superseded_by = Null
  <2> DEFINE t == Whole(RetirementTime(d[i], now))
  <2>1. d[i] \in Row /\ t \in Text
    BY <1>1
  <2>2. Retire(d, preds, s, now)[i] = Superseded(d[i], s, t)
    BY <1>1 DEF Retire
  <2> HIDE DEF t
  <2>3. Superseded(d[i], s, t) \in Row
    BY <2>1, SupersededRow
  <2> QED BY <2>2, <2>3
<1>2. CASE ~(i \in preds /\ d[i].superseded_by = Null)
  BY <1>2 DEF Retire, Table
<1> QED BY <1>1, <1>2

(***************************************************************************)
(* Both captures have the same shape: an insertion and the retirement of a *)
(* set of retirable predecessors.                                          *)
(***************************************************************************)
CaptureShape(sc, id, row, preds, now) ==
    /\ sc \in Scopes /\ id \in Ids /\ row \in Row /\ now \in Clock
    /\ preds \subseteq Ids
    /\ row.scope = sc
    /\ row.superseded_by = Null /\ row.valid_until = Null
    /\ Exists(db, id) => ExactReplay(db, id, row)
    /\ \A p \in preds : Retirable(db, p, sc, id, now)
    /\ db' = Retire(Insert(db, id, row), preds, id, now)

(* The row a capture or the miner writes is a row, with no lifecycle yet.   *)
LEMMA NewRowType ==
    ASSUME NEW sc \in Scopes, NEW decision \in Decisions,
           NEW key \in Keys \cup {Null}, NEW from \in Text \cup {Null, Blank}
    PROVE  /\ NewRow(sc, decision, key, from) \in Row
           /\ NewRow(sc, decision, key, from).scope = sc
           /\ NewRow(sc, decision, key, from).superseded_by = Null
           /\ NewRow(sc, decision, key, from).valid_until = Null
    BY DEF NewRow, Row

(* A digest-keyed capture inserts one new row and retires at most the one *)
(* record it names.                                                        *)
LEMMA CaptureHasStart ==
    ASSUME NEW pair \in DOMAIN CaptureId, NEW supersedes \in Ids \cup {Null},
           NEW now \in Clock, Capture(pair[1], pair[2], supersedes, now)
    PROVE  \E sc, id, row, preds :
               CaptureShape(sc, id, row, preds, now)
               /\ row.valid_from = Null /\ row.fact_key = Null
<1>1. PICK sc \in Scopes, decision \in Decisions : pair = <<sc, decision>>
  BY InputsAssumption
<1>2. CaptureId[<<sc, decision>>] \in Ids
  BY <1>1, InputsAssumption
<1>3. pair[1] = sc /\ pair[2] = decision
  BY <1>1
<1>4. Capture(sc, decision, supersedes, now)
  BY <1>3
<1>5. /\ NewRow(sc, decision, Null, Null) \in Row
      /\ NewRow(sc, decision, Null, Null).scope = sc
      /\ NewRow(sc, decision, Null, Null).superseded_by = Null
      /\ NewRow(sc, decision, Null, Null).valid_until = Null
  BY NewRowType
<1>6. CaptureShape(sc, CaptureId[<<sc, decision>>], NewRow(sc, decision, Null, Null),
                   {supersedes} \ {Null}, now)
  BY <1>2, <1>4, <1>5 DEF Capture, CaptureAccepts, AfterCapture, CapturedRow, CaptureShape
<1>7. /\ NewRow(sc, decision, Null, Null).valid_from = Null
      /\ NewRow(sc, decision, Null, Null).fact_key = Null
  BY DEF NewRow
<1> QED BY <1>6, <1>7

LEMMA CaptureHasShape ==
    ASSUME NEW pair \in DOMAIN CaptureId, NEW supersedes \in Ids \cup {Null},
           NEW now \in Clock, Capture(pair[1], pair[2], supersedes, now)
    PROVE  \E sc, id, row, preds : CaptureShape(sc, id, row, preds, now)
    BY CaptureHasStart

(* So does a capture of an external record, whose predecessors are as many *)
(* as share its key or its title.                                          *)
LEMMA CaptureExternalIsShape ==
    ASSUME db \in Table, NEW r \in ExternalRequest, NEW now \in Clock,
           CaptureExternal(r, now)
    PROVE  CaptureShape(r.scope, r.id, ExternalRow(db, r, now),
                        ExternalPredecessors(db, r), now)
<1>1. /\ r.id \in Ids /\ r.scope \in Scopes /\ r.decision \in Decisions
      /\ r.fact_key \in Keys \cup {Null} /\ r.supersedes \in Ids \cup {Null}
      /\ r.valid_from \in Text \cup {Null}
  BY InputsAssumption DEF ExternalRequest
<1>2. Whole(now) \in Text
  BY ClockAssumption DEF Whole, Text
<1>3. Exists(db, r.id) => db[r.id].valid_from \in Text \cup {Null, Blank}
  BY <1>1 DEF Table, Exists, Row
<1> DEFINE stored == IF Exists(db, r.id) THEN db[r.id].valid_from ELSE Null
           from == IF r.valid_from # Null THEN r.valid_from
                   ELSE IF stored # Null THEN stored ELSE Whole(now)
           row == NewRow(r.scope, r.decision, r.fact_key, from)
<1>4. ExternalRow(db, r, now) = row
  BY DEF ExternalRow
<1>5. from \in Text \cup {Null, Blank}
  BY <1>1, <1>2, <1>3
<1> HIDE DEF from
<1>6. row \in Row /\ row.scope = r.scope /\ row.superseded_by = Null /\ row.valid_until = Null
  <2>1. \A sc \in Scopes, decision \in Decisions, key \in Keys \cup {Null} :
            LET new == NewRow(sc, decision, key, from) IN
            /\ new \in Row /\ new.scope = sc
            /\ new.superseded_by = Null /\ new.valid_until = Null
    BY <1>5, NewRowType
  <2> QED BY <1>1, <2>1
<1>7. ExternalPredecessors(db, r) \subseteq Ids
  BY <1>1 DEF ExternalPredecessors, SameFact
<1>8. CaptureShape(r.scope, r.id, row, ExternalPredecessors(db, r), now)
  BY <1>1, <1>4, <1>6, <1>7 DEF CaptureExternal, AfterCaptureExternal, CaptureExternalAccepts, CaptureShape
<1> QED BY <1>4, <1>8

LEMMA CaptureExternalHasShape ==
    ASSUME db \in Table, NEW r \in ExternalRequest, NEW now \in Clock,
           CaptureExternal(r, now)
    PROVE  \E sc, id, row, preds : CaptureShape(sc, id, row, preds, now)
    BY CaptureExternalIsShape

(* What a capture leaves in the table, row by row. *)
LEMMA CaptureEffect ==
    ASSUME db \in Table, NEW sc, NEW id, NEW row, NEW preds, NEW now,
           CaptureShape(sc, id, row, preds, now)
    PROVE  /\ db' \in Table
           /\ \A i \in Ids :
                \/ db'[i] = db[i]
                \/ i = id /\ ~Exists(db, i) /\ db'[i] = row
                \/ /\ i \in preds /\ db[i] \in Row /\ db[i].superseded_by = Null
                   /\ Whole(RetirementTime(db[i], now)) \in Text
                   /\ db'[i] = Superseded(db[i], id, Whole(RetirementTime(db[i], now)))
<1> USE DEF CaptureShape
<1> DEFINE d == Insert(db, id, row)
<1>1. /\ d \in Table
      /\ \A i \in Ids : i # id \/ Exists(db, i) => d[i] = db[i]
      /\ ~Exists(db, id) => d[id] = row
  BY InsertKeeps
<1> HIDE DEF d
<1>2. \A p \in preds : d[p] = db[p] /\ db[p] \in Row
  BY <1>1 DEF Retirable, InScope, Exists, Table
<1>3. \A p \in preds : db[p].superseded_by = Null =>
          Whole(RetirementTime(db[p], now)) \in Text
  BY RetirementIsInstant
<1>4. db' = Retire(d, preds, id, now)
  BY DEF d
<1>5. db' \in Table
  BY <1>1, <1>2, <1>3, <1>4, RetireType
<1>6. ASSUME NEW i \in Ids
      PROVE  \/ db'[i] = db[i]
             \/ i = id /\ ~Exists(db, i) /\ db'[i] = row
             \/ /\ i \in preds /\ db[i] \in Row /\ db[i].superseded_by = Null
                /\ Whole(RetirementTime(db[i], now)) \in Text
                /\ db'[i] = Superseded(db[i], id, Whole(RetirementTime(db[i], now)))
  <2>1. CASE i \in preds /\ d[i].superseded_by = Null
    BY <2>1, <1>2, <1>3, <1>4 DEF Retire
  <2>2. CASE ~(i \in preds /\ d[i].superseded_by = Null)
    <3>1. db'[i] = d[i]
      BY <2>2, <1>4 DEF Retire
    <3> QED BY <3>1, <1>1
  <2> QED BY <2>1, <2>2
<1> QED BY <1>5, <1>6

-----------------------------------------------------------------------------
(***************************************************************************)
(* What the other operations leave in the table, row by row.               *)
(***************************************************************************)

(* A set of natural numbers has a least member. *)
LEMMA LeastMember ==
    ASSUME NEW S \in SUBSET Nat, S # {}
    PROVE  \E n \in S : \A m \in S : n <= m
<1>1. PICK n \in S : \A m \in S : <<m, n>> \notin OpToRel(<, Nat)
  BY NatLessThanWellFounded, WFMin
<1>2. \A m \in S : ~(m < n)
  BY <1>1 DEF OpToRel
<1> QED BY <1>2

(* Induction: a set of numbers that holds zero and the successor of each   *)
(* of its members holds them all.                                          *)
LEMMA Induction ==
    ASSUME NEW S \in SUBSET Nat, 0 \in S, \A n \in S : n + 1 \in S
    PROVE  S = Nat
<1> SUFFICES ASSUME Nat \ S # {} PROVE FALSE
  OBVIOUS
<1>1. PICK m \in Nat \ S : \A n \in Nat \ S : m <= n
  BY LeastMember
<1>2. m # 0 /\ m - 1 \in Nat
  BY <1>1
<1>3. m - 1 \in S
  BY <1>1, <1>2
<1>4. (m - 1) + 1 \in S
  BY <1>3
<1> QED BY <1>1, <1>4

(* The row an import keeps for an identifier is one of its batch. *)
LEMMA FirstOfExists ==
    ASSUME NEW batch \in ImportBatches, NEW i \in ImportedIds(batch)
    PROVE  /\ FirstOf(batch, i) \in DOMAIN batch
           /\ batch[FirstOf(batch, i)].id = i
           /\ batch[FirstOf(batch, i)].row \in Row
<1>1. batch \in Seq([id : Ids, row : Row])
  BY InputsAssumption
<1> DEFINE S == {n \in DOMAIN batch : batch[n].id = i}
<1>2. S \in SUBSET Nat /\ S # {}
  BY <1>1 DEF ImportedIds
<1>3. \E n \in S : \A m \in S : n <= m
  BY <1>2, LeastMember
<1>4. \E n \in DOMAIN batch :
          batch[n].id = i /\ \A m \in DOMAIN batch : batch[m].id = i => n <= m
  BY <1>3
<1>5. FirstOf(batch, i) \in DOMAIN batch /\ batch[FirstOf(batch, i)].id = i
  BY <1>4 DEF FirstOf
<1>6. \A T : batch \in Seq(T) => \A n \in DOMAIN batch : batch[n] \in T
  OBVIOUS
<1>7. \A rec \in [id : Ids, row : Row] : rec.row \in Row
  OBVIOUS
<1> QED BY <1>1, <1>5, <1>6, <1>7

(* An import keeps every stored row; what it adds are rows of its batch.   *)
LEMMA ImportEffect ==
    ASSUME db \in Table, NEW batch \in ImportBatches, ImportExternal(batch)
    PROVE  /\ db' \in Table
           /\ \A i \in Ids :
                \/ db'[i] = db[i]
                \/ /\ ~Exists(db, i)
                   /\ \E n \in DOMAIN batch : batch[n].id = i /\ db'[i] = batch[n].row
<1>1. ASSUME NEW i \in Ids
      PROVE  /\ db'[i] \in Row \cup {NoRow}
             /\ \/ db'[i] = db[i]
                \/ /\ ~Exists(db, i)
                   /\ \E n \in DOMAIN batch : batch[n].id = i /\ db'[i] = batch[n].row
  <2>1. CASE i \in ImportedIds(batch) /\ ~Exists(db, i)
    <3>1. db'[i] = batch[FirstOf(batch, i)].row
      BY <2>1 DEF ImportExternal, ImportAccepts, AfterImport
    <3> QED BY <3>1, <2>1, FirstOfExists
  <2>2. CASE ~(i \in ImportedIds(batch) /\ ~Exists(db, i))
    BY <2>2 DEF ImportExternal, ImportAccepts, AfterImport, Table
  <2> QED BY <2>1, <2>2
<1>2. db' = [i \in Ids |-> db'[i]]
  BY DEF ImportExternal, ImportAccepts, AfterImport
<1>3. db' \in Table
  BY <1>1, <1>2 DEF Table
<1> QED BY <1>1, <1>3

(* Mined decisions keep every stored row; what they add has no lifecycle.  *)
LEMMA MinedEffect ==
    ASSUME db \in Table, NEW sc \in Scopes, NEW mined \in MinedBatches,
           ImportDecisions(sc, mined)
    PROVE  /\ db' \in Table
           /\ \A i \in Ids :
                \/ db'[i] = db[i]
                \/ /\ ~Exists(db, i) /\ i \in DOMAIN mined
                   /\ db'[i] \in Row /\ db'[i].scope = sc
                   /\ db'[i].superseded_by = Null
<1>1. \A i \in DOMAIN mined :
          /\ NewRow(sc, mined[i], Null, Null) \in Row
          /\ NewRow(sc, mined[i], Null, Null).scope = sc
          /\ NewRow(sc, mined[i], Null, Null).superseded_by = Null
  BY InputsAssumption, NewRowType
<1>2. \A i \in Ids : db'[i] = IF i \in DOMAIN mined /\ ~Exists(db, i)
                                THEN NewRow(sc, mined[i], Null, Null) ELSE db[i]
  BY DEF ImportDecisions, AfterMining
<1>3. db' = [i \in Ids |-> db'[i]]
  BY DEF ImportDecisions, AfterMining
<1>4. \A i \in Ids : db'[i] \in Row \cup {NoRow}
  BY <1>1, <1>2 DEF Table
<1>5. db' \in Table
  BY <1>3, <1>4 DEF Table
<1> QED BY <1>1, <1>2, <1>5

(* A reconciliation closes one open row in favour of a stored one of the   *)
(* same scope, and changes no other row.                                   *)
LEMMA ReconcileEffect ==
    ASSUME db \in Table, NEW p \in Ids, NEW s \in Ids, NEW sc \in Scopes,
           NEW until \in Retirements, ReconcileExternalSupersession(p, s, sc, until)
    PROVE  /\ db' \in Table
           /\ \A i \in Ids \ {p} : db'[i] = db[i]
           /\ db[p] \in Row /\ Open(db[p])
           /\ db'[p] = Superseded(db[p], s, until)
<1>1. db[p] \in Row /\ Open(db[p])
  BY DEF ReconcileExternalSupersession, ReconcileAccepts, AfterReconcile, InScope, Exists, Table
<1>2. db' = [db EXCEPT ![p] = Superseded(db[p], s, until)]
  BY DEF ReconcileExternalSupersession, ReconcileAccepts, AfterReconcile
<1>3. Superseded(db[p], s, until) \in Row
  BY <1>1, InputsAssumption, SupersededRow
<1> QED BY <1>1, <1>2, <1>3 DEF Table

(* A rescope changes the scope of the rows of one scope, and nothing else. *)
LEMMA RescopeEffect ==
    ASSUME db \in Table, NEW from \in Scopes, NEW to \in Scopes, Rescope(from, to)
    PROVE  /\ db' \in Table
           /\ \A i \in Ids :
                \/ ~InScope(db, i, from) /\ db'[i] = db[i]
                \/ /\ InScope(db, i, from) /\ db[i] \in Row /\ db'[i] \in Row
                   /\ db'[i].scope = to
                   /\ db'[i].superseded_by = db[i].superseded_by
                   /\ db'[i].valid_until = db[i].valid_until
                   /\ Envelope(db'[i]) = [Envelope(db[i]) EXCEPT !.scope = to]
<1>1. \A i \in Ids : InScope(db, i, from) => db[i] \in Row
  BY DEF InScope, Exists, Table
<1> DEFINE Moved(row) == [row EXCEPT !.scope = to]
<1>2. \A row \in Row :
          /\ Moved(row) \in Row
          /\ Moved(row).scope = to
          /\ Moved(row).superseded_by = row.superseded_by
          /\ Moved(row).valid_until = row.valid_until
          /\ Envelope(Moved(row)) = [Envelope(row) EXCEPT !.scope = to]
  BY DEF Row, Envelope
<1>3. \A i \in Ids : db'[i] = IF InScope(db, i, from)
                                THEN Moved(db[i]) ELSE db[i]
  BY DEF Rescope, AfterRescope
<1> HIDE DEF Moved
<1>4. \A i \in Ids : db'[i] \in Row \cup {NoRow}
  BY <1>1, <1>2, <1>3 DEF Table
<1>5. db' = [i \in Ids |-> db'[i]]
  BY DEF Rescope, AfterRescope
<1>6. db' \in Table
  BY <1>4, <1>5 DEF Table
<1> QED BY <1>1, <1>2, <1>3, <1>6

-----------------------------------------------------------------------------
(* Every operation keeps the shape of the columns. *)
LEMMA StepIsTyped == TypeOK /\ [Next]_db => TypeOK'
<1> SUFFICES ASSUME db \in Table, [Next]_db PROVE db' \in Table
  BY DEF TypeOK, Table
<1>1. CASE CaptureStep
  BY <1>1, CaptureHasShape, CaptureEffect DEF CaptureStep
<1>2. CASE CaptureExternalStep
  BY <1>2, CaptureExternalHasShape, CaptureEffect DEF CaptureExternalStep
<1>3. CASE ImportExternalStep
  BY <1>3, ImportEffect DEF ImportExternalStep
<1>4. CASE ImportDecisionsStep
  BY <1>4, MinedEffect DEF ImportDecisionsStep
<1>5. CASE ReconcileStep
  BY <1>5, ReconcileEffect DEF ReconcileStep
<1>6. CASE RescopeStep
  BY <1>6, RescopeEffect DEF RescopeStep
<1>7. CASE UNCHANGED db
  BY <1>7
<1> QED BY <1>1, <1>2, <1>3, <1>4, <1>5, <1>6, <1>7 DEF Next

(* The table keeps the shape of its columns: TypeOK is an invariant, and   *)
(* inductive by itself.                                                    *)
THEOREM TypeCorrect == Spec => []TypeOK
<1>1. Init => TypeOK
  BY DEF Init, TypeOK
<1> QED BY <1>1, StepIsTyped, PTL DEF Spec

-----------------------------------------------------------------------------
(***************************************************************************)
(* Cycles.  A table with a cycle holds a trap: a nonempty set of stored    *)
(* records, each superseded by a member of the set.                        *)
(***************************************************************************)

(* The records a walk visits: the start is one, and so is the successor of *)
(* every visited record of the scope.                                      *)
LEMMA VisitedIsClosed ==
    ASSUME NEW d, NEW sc, NEW start \in Ids
    PROVE  /\ start \in Visited(d, sc, start)
           /\ Visited(d, sc, start) \in SUBSET Ids
           /\ ClosedInScope(d, sc, Visited(d, sc, start))
    BY DEF Visited, ClosedInScope

(* A set whose successors are all old ones was a trap already. *)
LEMMA OldSuccessorsOldTrap ==
    ASSUME NEW S \in SUBSET Ids, Trap(db', S),
           \A x \in S : \/ ~Exists(db', x)
                        \/ db'[x].superseded_by = Null
                        \/ /\ Exists(db, x)
                           /\ db'[x].superseded_by = db[x].superseded_by
    PROVE  Trap(db, S)
    BY NullsAssumption DEF Trap

(***************************************************************************)
(* A step that retires records in favour of `successor` after the walk     *)
(* from it met none of them.  If a trap holds the successor, the part of   *)
(* the trap that the walk visits was a trap before the step.               *)
(***************************************************************************)
LEMMA WalkExcludesNewTrap ==
    ASSUME NEW S \in SUBSET Ids, Trap(db', S),
           NEW sc, NEW successor \in S,
           \A x \in Visited(db, sc, successor) :
               /\ InScope(db, x, sc)
               /\ db'[x].superseded_by = db[x].superseded_by
    PROVE  \E T \in SUBSET S : Trap(db, T)
<1> DEFINE V == Visited(db, sc, successor)
           T == S \cap V
<1>1. successor \in V /\ ClosedInScope(db, sc, V)
  BY VisitedIsClosed
<1>2. ASSUME NEW x \in T
      PROVE  Exists(db, x) /\ db[x].superseded_by \in T
  <2>1. x \in S /\ x \in V
    BY <1>2
  <2>2. InScope(db, x, sc) /\ db'[x].superseded_by = db[x].superseded_by
    BY <2>1
  <2>3. db[x].superseded_by \in S
    BY <2>1, <2>2 DEF Trap
  <2>4. db[x].superseded_by \in V
    BY <1>1, <2>1, <2>2, <2>3 DEF ClosedInScope
  <2> QED BY <2>2, <2>3, <2>4 DEF InScope
<1>3. Trap(db, T)
  BY <1>1, <1>2 DEF Trap
<1> QED BY <1>3

(* Neither capture nor capture_external adds a cycle, however many         *)
(* predecessors it retires.                                                *)
LEMMA CaptureAddsNoTrap ==
    ASSUME db \in Table, NEW sc, NEW id, NEW row, NEW preds, NEW now,
           CaptureShape(sc, id, row, preds, now),
           NEW S \in SUBSET Ids, Trap(db', S)
    PROVE  \E T \in SUBSET S : Trap(db, T)
<1> DEFINE Retired(i) ==
               /\ i \in preds /\ db[i].superseded_by = Null
               /\ db'[i] = Superseded(db[i], id, Whole(RetirementTime(db[i], now)))
<1>1. \A i \in Ids : \/ db'[i] = db[i]
                     \/ i = id /\ ~Exists(db, i) /\ db'[i] = row
                     \/ Retired(i) /\ db[i] \in Row
  BY CaptureEffect
<1>2. row.superseded_by = Null /\ id \in Ids
  BY DEF CaptureShape
<1>3. CASE \A i \in S : ~Retired(i)
  <2>1. \A x \in S : \/ ~Exists(db', x)
                     \/ db'[x].superseded_by = Null
                     \/ Exists(db, x) /\ db'[x].superseded_by = db[x].superseded_by
    BY <1>1, <1>2, <1>3 DEF Exists
  <2> QED BY <2>1, OldSuccessorsOldTrap
<1>4. ASSUME NEW p \in S, Retired(p)
      PROVE  \E T \in SUBSET S : Trap(db, T)
  <2>1. db[p] \in Row
    BY <1>4 DEF CaptureShape, Retirable, InScope, Exists, Table
  <2>2. db'[p].superseded_by = id
    BY <1>4, <2>1, SupersededRow
  <2>3. id \in S
    BY <2>2 DEF Trap
  <2>4. Exists(db, id)
    <3>1. Exists(db', id) /\ db'[id].superseded_by \in Ids
      BY <2>3 DEF Trap
    <3>2. SUFFICES ASSUME ~Exists(db, id) PROVE FALSE
      OBVIOUS
    <3>3. id \notin preds
      BY <3>2 DEF CaptureShape, Retirable, InScope
    <3>4. db'[id] = db[id] \/ db'[id] = row
      BY <1>1, <1>2, <3>3
    <3> QED BY <1>2, <3>1, <3>2, <3>4, NullsAssumption DEF Exists
  <2>5. InScope(db, id, sc)
    BY <2>4 DEF CaptureShape, ExactReplay, Envelope, InScope
  <2>6. \A q \in preds : db[q].superseded_by = Null =>
            AcyclicRetirement(db, id, q, sc)
    BY <1>2, NullsAssumption DEF CaptureShape, Retirable
  <2>7. ASSUME NEW x \in Visited(db, sc, id)
        PROVE  InScope(db, x, sc) /\ db'[x].superseded_by = db[x].superseded_by
    <3>1. AcyclicRetirement(db, id, p, sc)
      BY <1>4, <2>6
    <3>2. InScope(db, x, sc)
      BY <2>5, <3>1 DEF AcyclicRetirement
    <3>3. ~Retired(x)
      BY <2>5, <2>6 DEF AcyclicRetirement
    <3>4. x \in Ids
      BY DEF Visited
    <3> QED BY <1>1, <3>2, <3>3, <3>4 DEF InScope
  <2> QED BY <2>3, <2>7, WalkExcludesNewTrap
<1> QED BY <1>3, <1>4

(* Nor does a reconciliation, which checks its one predecessor.            *)
LEMMA ReconcileAddsNoTrap ==
    ASSUME db \in Table, NEW p \in Ids, NEW s \in Ids, NEW sc \in Scopes,
           NEW until \in Retirements, ReconcileExternalSupersession(p, s, sc, until),
           NEW S \in SUBSET Ids, Trap(db', S)
    PROVE  \E T \in SUBSET S : Trap(db, T)
<1>1. /\ \A i \in Ids \ {p} : db'[i] = db[i]
      /\ db[p] \in Row
      /\ db'[p] = Superseded(db[p], s, until)
  BY ReconcileEffect
<1>2. CASE p \notin S
  <2>1. \A x \in S : Exists(db', x) =>
            Exists(db, x) /\ db'[x].superseded_by = db[x].superseded_by
    BY <1>1, <1>2 DEF Exists
  <2> QED BY <2>1, OldSuccessorsOldTrap
<1>3. CASE p \in S
  <2>1. db'[p].superseded_by = s
    BY <1>1, SupersededRow
  <2>2. s \in S
    BY <1>3, <2>1 DEF Trap
  <2>3. /\ InScope(db, s, sc) /\ AcyclicRetirement(db, s, p, sc)
    BY DEF ReconcileExternalSupersession, ReconcileAccepts, AfterReconcile
  <2>4. \A x \in Visited(db, sc, s) : InScope(db, x, sc) /\ x # p
    BY <2>3 DEF AcyclicRetirement
  <2>5. \A x \in Visited(db, sc, s) :
            InScope(db, x, sc) /\ db'[x].superseded_by = db[x].superseded_by
    BY <1>1, <2>4, VisitedIsClosed
  <2> QED BY <2>2, <2>5, WalkExcludesNewTrap
<1> QED BY <1>2, <1>3

(* A step that adds no row with a successor and changes no successor       *)
(* (mined decisions, imported plain records, a rescope) adds no cycle.     *)
LEMMA OtherStepsAddNoTrap ==
    ASSUME db \in Table,
           NEW S \in SUBSET Ids, Trap(db', S),
           ImportDecisionsStep \/ RescopeStep
    PROVE  Trap(db, S)
<1>1. CASE ImportDecisionsStep
  <2>1. PICK sc \in Scopes, mined \in MinedBatches : ImportDecisions(sc, mined)
    BY <1>1 DEF ImportDecisionsStep
  <2>2. \A x \in Ids : db'[x] = db[x] \/ db'[x].superseded_by = Null
    BY <2>1, MinedEffect
  <2>3. \A x \in S : \/ ~Exists(db', x)
                     \/ db'[x].superseded_by = Null
                     \/ Exists(db, x) /\ db'[x].superseded_by = db[x].superseded_by
    BY <2>2 DEF Exists
  <2> QED BY <2>3, OldSuccessorsOldTrap
<1>2. CASE RescopeStep
  <2>1. PICK from \in Scopes, to \in Scopes : Rescope(from, to)
    BY <1>2 DEF RescopeStep
  <2>2. \A x \in S : Exists(db', x) =>
            Exists(db, x) /\ db'[x].superseded_by = db[x].superseded_by
    BY <2>1, RescopeEffect DEF InScope, Exists
  <2> QED BY <2>2, OldSuccessorsOldTrap
<1> QED BY <1>1, <1>2

(* One step: a cycle after it holds a cycle before it, unless it imports.  *)
LEMMA StepAddsNoTrap ==
    ASSUME TypeOK, [Next]_db, ~ImportExternalStep,
           NEW S \in SUBSET Ids, Trap(db', S)
    PROVE  \E T \in SUBSET S : Trap(db, T)
<1>1. db \in Table
  BY DEF TypeOK, Table
<1>2. CASE CaptureStep
  BY <1>1, <1>2, CaptureHasShape, CaptureAddsNoTrap DEF CaptureStep
<1>3. CASE CaptureExternalStep
  BY <1>1, <1>3, CaptureExternalHasShape, CaptureAddsNoTrap DEF CaptureExternalStep
<1>4. CASE ImportDecisionsStep \/ RescopeStep
  BY <1>1, <1>4, OtherStepsAddNoTrap
<1>5. CASE ReconcileStep
  BY <1>1, <1>5, ReconcileAddsNoTrap DEF ReconcileStep
<1>6. CASE UNCHANGED db
  BY <1>6 DEF Trap, Exists
<1> QED BY <1>2, <1>3, <1>4, <1>5, <1>6 DEF Next

(* Whatever was imported before, a capture, a reconciliation, a mined      *)
(* batch or a rescope never closes a supersession cycle, for any number of *)
(* records, scopes and predecessors retired at once.                       *)
THEOREM CyclesComeFromImports == Spec => OnlyImportsCloseCycles
<1>1. TypeOK /\ [Next]_db =>
        [\/ \A S \in SUBSET Ids :
                Trap(db', S) => \E T \in SUBSET S : Trap(db, T)
         \/ ImportExternalStep]_db
  BY StepAddsNoTrap
<1> QED BY <1>1, TypeCorrect, PTL DEF Spec, OnlyImportsCloseCycles

(* Import batches whose records are not superseded: what other memory      *)
(* systems' open records, as opposed to damaged or exported chains, look   *)
(* like.                                                                   *)
ImportsCarryNoSuccessor ==
    \A batch \in ImportBatches : \A n \in DOMAIN batch :
        batch[n].row.superseded_by \notin Ids

(* A step then closes no cycle. *)
LEMMA StepKeepsAcyclic ==
    ASSUME ImportsCarryNoSuccessor, TypeOK, NoSupersessionCycle, [Next]_db
    PROVE  NoSupersessionCycle'
<1> SUFFICES ASSUME NEW S \in SUBSET Ids, Trap(db', S) PROVE FALSE
  BY DEF NoSupersessionCycle
<1>1. CASE ~ImportExternalStep
  BY <1>1, StepAddsNoTrap DEF NoSupersessionCycle
<1>2. CASE ImportExternalStep
  <2>1. PICK batch \in ImportBatches : ImportExternal(batch)
    BY <1>2 DEF ImportExternalStep
  <2>2. db \in Table
    BY DEF TypeOK, Table
  <2>3. \A x \in Ids : \/ db'[x] = db[x]
                       \/ db'[x].superseded_by \notin Ids
    BY <2>1, <2>2, ImportEffect DEF ImportsCarryNoSuccessor
  <2>4. Trap(db, S)
    BY <2>3 DEF Trap, Exists
  <2> QED BY <2>4 DEF NoSupersessionCycle
<1> QED BY <1>1, <1>2

(* A store whose imports carry no successor never holds a supersession     *)
(* cycle.                                                                  *)
THEOREM Acyclic ==
    ASSUME ImportsCarryNoSuccessor
    PROVE  Spec => []NoSupersessionCycle
<1>1. Init => NoSupersessionCycle
  BY DEF Init, NoSupersessionCycle, Trap, Exists
<1>2. TypeOK /\ NoSupersessionCycle /\ [Next]_db => NoSupersessionCycle'
  BY StepKeepsAcyclic
<1> QED BY <1>1, <1>2, TypeCorrect, PTL DEF Spec

-----------------------------------------------------------------------------
(***************************************************************************)
(* What one step may do to one stored record.                              *)
(***************************************************************************)
Kept(i) == /\ Exists(db', i)
           /\ Envelope(db'[i]) = [Envelope(db[i]) EXCEPT !.scope = db'[i].scope]
           /\ \/ /\ db'[i].superseded_by = db[i].superseded_by
                 /\ db'[i].valid_until = db[i].valid_until
              \/ db[i].superseded_by = Null /\ db'[i].superseded_by \in Ids

(* A row that stays as it is, is retired, or moves to another scope. *)
LEMMA KeptRow ==
    ASSUME NEW i \in Ids, db[i] \in Row,
           \/ db'[i] = db[i]
           \/ /\ db[i].superseded_by = Null
              /\ \E s \in Ids, t \in Text : db'[i] = Superseded(db[i], s, t)
    PROVE  Kept(i)
<1>1. db[i] # NoRow
  BY NullsAssumption
<1>2. CASE db'[i] = db[i]
  <2>1. Envelope(db[i]) = [Envelope(db[i]) EXCEPT !.scope = db[i].scope]
    BY DEF Envelope
  <2> QED BY <1>1, <1>2, <2>1 DEF Kept, Exists
<1>3. ASSUME db[i].superseded_by = Null,
             NEW s \in Ids, NEW t \in Text, db'[i] = Superseded(db[i], s, t)
      PROVE  Kept(i)
  <2>1. /\ db'[i] \in Row /\ db'[i].superseded_by = s
        /\ db'[i].scope = db[i].scope /\ Envelope(db'[i]) = Envelope(db[i])
    BY <1>3, SupersededRow
  <2>2. Envelope(db[i]) = [Envelope(db[i]) EXCEPT !.scope = db[i].scope]
    BY DEF Envelope
  <2>3. db'[i] # NoRow
    BY <2>1, NullsAssumption
  <2> QED BY <1>3, <2>1, <2>2, <2>3 DEF Kept, Exists
<1> QED BY <1>2, <1>3

(* Every operation keeps every stored record. *)
LEMMA StepKeeps ==
    ASSUME TypeOK, [Next]_db, NEW i \in Ids, Exists(db, i)
    PROVE  Kept(i)
<1>1. db \in Table /\ db[i] \in Row
  BY DEF TypeOK, Table, Exists
<1>2. ASSUME NEW sc, NEW id, NEW row, NEW preds, NEW now,
             CaptureShape(sc, id, row, preds, now)
      PROVE  Kept(i)
  <2>1. id \in Ids
    BY <1>2 DEF CaptureShape
  <2> QED BY <1>1, <1>2, <2>1, CaptureEffect, KeptRow
<1>3. CASE CaptureStep
  BY <1>2, <1>3, CaptureHasShape DEF CaptureStep
<1>4. CASE CaptureExternalStep
  BY <1>1, <1>2, <1>4, CaptureExternalHasShape DEF CaptureExternalStep
<1>5. CASE ImportExternalStep
  BY <1>1, <1>5, ImportEffect, KeptRow DEF ImportExternalStep
<1>6. CASE ImportDecisionsStep
  BY <1>1, <1>6, MinedEffect, KeptRow DEF ImportDecisionsStep
<1>7. CASE ReconcileStep
  <2>1. PICK p \in Ids, s \in Ids, sc \in Scopes, until \in Retirements :
            ReconcileExternalSupersession(p, s, sc, until)
    BY <1>7 DEF ReconcileStep
  <2>2. until \in Text
    BY InputsAssumption
  <2>3. db'[i] = db[i] \/ (Open(db[i]) /\ db'[i] = Superseded(db[i], s, until))
    BY <1>1, <2>1, ReconcileEffect
  <2> QED BY <1>1, <2>2, <2>3, KeptRow DEF Open
<1>8. CASE RescopeStep
  <2>1. PICK from \in Scopes, to \in Scopes : Rescope(from, to)
    BY <1>8 DEF RescopeStep
  <2>2. CASE db'[i] = db[i]
    BY <1>1, <2>2, KeptRow
  <2>3. CASE InScope(db, i, from)
    <3>1. /\ db'[i] \in Row /\ db'[i].scope = to
          /\ db'[i].superseded_by = db[i].superseded_by
          /\ db'[i].valid_until = db[i].valid_until
          /\ Envelope(db'[i]) = [Envelope(db[i]) EXCEPT !.scope = to]
      BY <1>1, <2>1, <2>3, RescopeEffect
    <3> QED BY <3>1, NullsAssumption DEF Kept, Exists
  <2> QED BY <1>1, <2>1, <2>2, <2>3, RescopeEffect
<1>9. CASE UNCHANGED db
  BY <1>1, <1>9, KeptRow
<1> QED BY <1>3, <1>4, <1>5, <1>6, <1>7, <1>8, <1>9 DEF Next

(* No sequence of operations, on any store and with any imports, removes a *)
(* record, rewrites its sealed content or changes a successor once it is   *)
(* set.                                                                    *)
THEOREM WrittenOnce == Spec => LifecycleWriteOnce
<1>1. TypeOK /\ [Next]_db =>
        [\A i \in Ids : Exists(db, i) =>
          /\ Exists(db', i)
          /\ Envelope(db'[i]) = [Envelope(db[i]) EXCEPT !.scope = db'[i].scope]
          /\ \/ /\ db'[i].superseded_by = db[i].superseded_by
                /\ db'[i].valid_until = db[i].valid_until
             \/ db[i].superseded_by = Null /\ db'[i].superseded_by \in Ids]_db
  BY StepKeeps DEF Kept
<1> QED BY <1>1, TypeCorrect, PTL DEF Spec, LifecycleWriteOnce

-----------------------------------------------------------------------------
(***************************************************************************)
(* Scopes.  After a capture the successor is stored in the call's scope.   *)
(***************************************************************************)
(* The record that retires others is stored in the scope of the call, be   *)
(* it new or a replay, and the retired ones are in the same scope.         *)
LEMMA CaptureStoresInScope ==
    ASSUME db \in Table, NEW sc, NEW id, NEW row, NEW preds, NEW now,
           CaptureShape(sc, id, row, preds, now)
    PROVE  InScope(db', id, sc)
<1>1. row \in Row /\ id \in Ids /\ row.scope = sc
  BY DEF CaptureShape
<1>2. Exists(db, id) => db[id] \in Row /\ db[id].scope = sc
  BY <1>1 DEF CaptureShape, ExactReplay, Envelope, Table, Exists
<1>3. \A s, t : Exists(db, id) => /\ Superseded(db[id], s, t).scope = sc
  BY <1>2, SupersededRow
<1>4. \A s \in Ids, t \in Text : Exists(db, id) => Superseded(db[id], s, t) \in Row
  BY <1>2, SupersededRow
<1>5. \/ Exists(db, id) /\ db'[id] = db[id]
      \/ db'[id] = row
      \/ Exists(db, id) /\ \E t \in Text : db'[id] = Superseded(db[id], id, t)
  <2>1. Exists(db, id) \/ id \notin preds
    BY DEF CaptureShape, Retirable, InScope
  <2>2. ~Exists(db, id) => db'[id] = row
    BY <1>1, <2>1 DEF CaptureShape, Retire, Insert, Table
  <2> QED BY <1>1, <2>1, <2>2, CaptureEffect
<1> QED BY <1>1, <1>2, <1>3, <1>4, <1>5, NullsAssumption DEF InScope, Exists

(* A capture keeps successors in the scope of their predecessors. *)
LEMMA CaptureStaysInScope ==
    ASSUME db \in Table, SupersessionStaysInScope,
           NEW sc, NEW id, NEW row, NEW preds, NEW now,
           CaptureShape(sc, id, row, preds, now)
    PROVE  SupersessionStaysInScope'
<1> SUFFICES ASSUME NEW i \in Ids, Exists(db', i), db'[i].superseded_by \in Ids
             PROVE  InScope(db', db'[i].superseded_by, db'[i].scope)
  BY DEF SupersessionStaysInScope
<1>1. ASSUME NEW x \in Ids, Exists(db, x)
      PROVE  Exists(db', x) /\ db'[x].scope = db[x].scope
  <2>1. db[x] \in Row
    BY <1>1 DEF Table, Exists
  <2>2. \/ db'[x] = db[x]
        \/ \E t \in Text : db'[x] = Superseded(db[x], id, t)
    BY <1>1, CaptureEffect
  <2>3. id \in Ids
    BY DEF CaptureShape
  <2> QED BY <1>1, <2>1, <2>2, <2>3, SupersededRow, NullsAssumption DEF Exists
<1>2. CASE db'[i] = db[i]
  BY <1>1, <1>2 DEF SupersessionStaysInScope, InScope, Exists
<1>3. CASE i = id /\ ~Exists(db, i) /\ db'[i] = row
  BY <1>3, NullsAssumption DEF CaptureShape
<1>4. CASE i \in preds /\ \E t \in Text : db'[i] = Superseded(db[i], id, t)
  <2>1. InScope(db, i, sc) /\ db[i] \in Row
    BY <1>4 DEF CaptureShape, Retirable, InScope, Exists, Table
  <2>2. db'[i].superseded_by = id /\ db'[i].scope = sc
    BY <1>4, <2>1, SupersededRow DEF InScope
  <2> QED BY <2>2, CaptureStoresInScope
<1> QED BY <1>2, <1>3, <1>4, CaptureEffect

(* Then every operation keeps successors in the scope of their records. *)
LEMMA StepStaysInScope ==
    ASSUME ImportsCarryNoSuccessor, TypeOK, SupersessionStaysInScope, [Next]_db
    PROVE  SupersessionStaysInScope'
<1> SUFFICES ASSUME db \in Table PROVE SupersessionStaysInScope'
  BY DEF TypeOK, Table
<1>1. CASE CaptureStep
  BY <1>1, CaptureHasShape, CaptureStaysInScope DEF CaptureStep
<1>2. CASE CaptureExternalStep
  BY <1>2, CaptureExternalHasShape, CaptureStaysInScope DEF CaptureExternalStep
<1>3. ASSUME \A x \in Ids : \/ db'[x] = db[x]
                            \/ ~Exists(db, x) /\ db'[x].superseded_by \notin Ids
      PROVE  SupersessionStaysInScope'
  <2> SUFFICES ASSUME NEW i \in Ids, Exists(db', i), db'[i].superseded_by \in Ids
               PROVE  InScope(db', db'[i].superseded_by, db'[i].scope)
    BY DEF SupersessionStaysInScope
  <2>1. db'[i] = db[i] /\ InScope(db, db[i].superseded_by, db[i].scope)
    BY <1>3 DEF SupersessionStaysInScope, Exists
  <2> QED BY <1>3, <2>1 DEF InScope, Exists
<1>4. CASE ImportExternalStep
  BY <1>3, <1>4, ImportEffect DEF ImportExternalStep, ImportsCarryNoSuccessor
<1>5. CASE ImportDecisionsStep
  BY <1>3, <1>5, MinedEffect, NullsAssumption DEF ImportDecisionsStep
<1>6. CASE ReconcileStep
  <2>1. PICK p \in Ids, s \in Ids, sc \in Scopes, until \in Retirements :
            ReconcileExternalSupersession(p, s, sc, until)
    BY <1>6 DEF ReconcileStep
  <2>2. /\ \A x \in Ids \ {p} : db'[x] = db[x]
        /\ db[p] \in Row /\ db'[p] = Superseded(db[p], s, until)
    BY <2>1, ReconcileEffect
  <2>3. /\ p # s /\ InScope(db, p, sc) /\ InScope(db, s, sc)
    BY <2>1 DEF ReconcileExternalSupersession, ReconcileAccepts, AfterReconcile
  <2>4. db'[p].superseded_by = s /\ db'[p].scope = sc /\ Exists(db', p)
    BY <2>2, <2>3, SupersededRow, InputsAssumption, NullsAssumption
       DEF InScope, Exists
  <2>5. ASSUME NEW i \in Ids, Exists(db', i), db'[i].superseded_by \in Ids
        PROVE  InScope(db', db'[i].superseded_by, db'[i].scope)
    <3>1. CASE i = p
      BY <2>2, <2>3, <2>4, <3>1 DEF InScope, Exists
    <3>2. CASE i # p
      <4>1. db'[i] = db[i] /\ InScope(db, db[i].superseded_by, db[i].scope)
        BY <2>2, <2>5, <3>2 DEF SupersessionStaysInScope, Exists
      <4> QED BY <2>2, <2>3, <2>4, <2>5, <4>1 DEF InScope, Exists
    <3> QED BY <3>1, <3>2
  <2> QED BY <2>5 DEF SupersessionStaysInScope
<1>7. CASE RescopeStep
  <2>1. PICK from \in Scopes, to \in Scopes : Rescope(from, to)
    BY <1>7 DEF RescopeStep
  <2>2. \A x \in Ids :
            \/ ~InScope(db, x, from) /\ db'[x] = db[x]
            \/ /\ InScope(db, x, from) /\ Exists(db', x)
               /\ db'[x].scope = to /\ db'[x].superseded_by = db[x].superseded_by
    <3>1. \A x \in Ids :
              \/ ~InScope(db, x, from) /\ db'[x] = db[x]
              \/ /\ InScope(db, x, from) /\ db'[x] \in Row
                 /\ db'[x].scope = to /\ db'[x].superseded_by = db[x].superseded_by
      BY <2>1, RescopeEffect
    <3> QED BY <3>1, NullsAssumption DEF Exists
  <2> QED BY <2>2 DEF SupersessionStaysInScope, InScope, Exists
<1>8. CASE UNCHANGED db
  BY <1>8 DEF SupersessionStaysInScope, InScope, Exists
<1> QED BY <1>1, <1>2, <1>4, <1>5, <1>6, <1>7, <1>8 DEF Next

(* In a store whose imports carry no successor, every successor is stored  *)
(* in the scope of the record it supersedes, also after scopes were moved  *)
(* and merged.                                                             *)
THEOREM StaysInScope ==
    ASSUME ImportsCarryNoSuccessor
    PROVE  Spec => []SupersessionStaysInScope
<1>1. Init => SupersessionStaysInScope
  BY DEF Init, SupersessionStaysInScope, Exists
<1>2. TypeOK /\ SupersessionStaysInScope /\ [Next]_db => SupersessionStaysInScope'
  BY StepStaysInScope
<1> QED BY <1>1, <1>2, TypeCorrect, PTL DEF Spec

-----------------------------------------------------------------------------
(***************************************************************************)
(* Retries.  A capture leaves no record open that it would retire.         *)
(***************************************************************************)
LEMMA AfterCaptureRows ==
    ASSUME TypeOK, NEW r \in ExternalRequest, NEW now \in Clock,
           CaptureExternalAccepts(db, r, now)
    PROVE  LET after == AfterCaptureExternal(db, r, now)
               row == ExternalRow(db, r, now)
           IN  /\ ~Exists(db, r.id) => after[r.id] = row
               /\ \A i \in Ids : i \in ExternalPredecessors(db, r) =>
                      /\ db[i] \in Row /\ after[i] \in Row
                      /\ after[i].superseded_by = r.id
                      /\ Envelope(after[i]) = Envelope(db[i])
               /\ \A i \in Ids : i \notin ExternalPredecessors(db, r)
                                 /\ (i # r.id \/ Exists(db, i)) => after[i] = db[i]
<1> DEFINE row == ExternalRow(db, r, now)
           d == Insert(db, r.id, row)
           preds == ExternalPredecessors(db, r)
           after == AfterCaptureExternal(db, r, now)
<1>1. db \in Table /\ r.id \in Ids /\ r.scope \in Scopes
  BY InputsAssumption DEF TypeOK, Table, ExternalRequest
<1>2. /\ row.superseded_by = Null
  BY DEF ExternalRow, NewRow
<1>3. /\ \A i \in Ids : i # r.id \/ Exists(db, i) => d[i] = db[i]
      /\ ~Exists(db, r.id) => d[r.id] = row
  BY <1>1 DEF Insert, Exists, Table
<1>4. \A i \in Ids : after[i] = IF i \in preds /\ d[i].superseded_by = Null
                        THEN Superseded(d[i], r.id, Whole(RetirementTime(d[i], now)))
                        ELSE d[i]
  BY DEF AfterCaptureExternal, Retire
<1>5. \A p \in preds : Retirable(db, p, r.scope, r.id, now)
  BY DEF CaptureExternalAccepts
<1> HIDE DEF row, d, preds, after
<1>6. ASSUME NEW i \in Ids, i \in preds
      PROVE  /\ db[i] \in Row /\ after[i] \in Row
             /\ after[i].superseded_by = r.id
             /\ Envelope(after[i]) = Envelope(db[i])
             /\ Exists(db, i)
  <2>1. Exists(db, i) /\ db[i] \in Row /\ d[i] = db[i]
    BY <1>1, <1>3, <1>5, <1>6 DEF Retirable, InScope, Exists, Table
  <2>2. CASE db[i].superseded_by = Null
    <3>1. Whole(RetirementTime(db[i], now)) \in Text
      BY <1>1, <1>5, <1>6, <2>2, RetirementIsInstant
    <3> QED BY <1>1, <1>4, <1>6, <2>1, <2>2, <3>1, SupersededRow
  <2>3. CASE db[i].superseded_by # Null
    BY <1>4, <1>5, <1>6, <2>1, <2>3 DEF Retirable
  <2> QED BY <2>1, <2>2, <2>3
<1>7. ~Exists(db, r.id) => after[r.id] = row
  BY <1>1, <1>3, <1>4, <1>6
<1>8. \A i \in Ids : i \notin preds /\ (i # r.id \/ Exists(db, i)) => after[i] = db[i]
  BY <1>3, <1>4
<1> QED BY <1>6, <1>7, <1>8 DEF preds, after, row

(* After a capture nothing is open that shares its key or its title. *)
LEMMA NoSameFactLeft ==
    ASSUME TypeOK, NEW r \in ExternalRequest, NEW now \in Clock,
           CaptureExternalAccepts(db, r, now)
    PROVE  SameFact(AfterCaptureExternal(db, r, now), r) = {}
<1> DEFINE after == AfterCaptureExternal(db, r, now)
<1>1. r.id \in Ids
  BY InputsAssumption DEF ExternalRequest
<1>2. SUFFICES ASSUME NEW i \in SameFact(after, r) PROVE FALSE
  BY DEF after
<1>3. i \in Ids /\ i # r.id /\ Open(after[i])
  BY <1>2 DEF SameFact
<1>4. CASE i \in ExternalPredecessors(db, r)
  BY <1>1, <1>3, <1>4, AfterCaptureRows, NullsAssumption DEF Open
<1>5. CASE i \notin ExternalPredecessors(db, r)
  <2>1. after[i] = db[i]
    BY <1>3, <1>5, AfterCaptureRows
  <2>2. i \in SameFact(db, r)
    BY <1>2, <1>3, <2>1 DEF SameFact, InScope, Exists
  <2> QED BY <1>5, <2>2 DEF ExternalPredecessors
<1> QED BY <1>4, <1>5

(* A caller that lost the answer of capture_external may send the call     *)
(* again at any later instant: it is accepted and retires nothing more     *)
(* (db/capture_store.rs).                                                  *)
THEOREM RetriesAreSafe == Spec => []RetryIsAcceptedAndIdle
<1>1. TypeOK => RetryIsAcceptedAndIdle
  <2> SUFFICES ASSUME TypeOK, NEW r \in ExternalRequest, NEW now \in Clock,
                      CaptureExternalAccepts(db, r, now), NEW later \in Clock
               PROVE  LET after == AfterCaptureExternal(db, r, now)
                      IN  /\ CaptureExternalAccepts(after, r, later)
                          /\ \A p \in ExternalPredecessors(after, r) :
                                 after[p].superseded_by = r.id
    BY DEF RetryIsAcceptedAndIdle
  <2> DEFINE after == AfterCaptureExternal(db, r, now)
             row == ExternalRow(db, r, now)
  <2>1. /\ r.id \in Ids /\ r.scope \in Scopes /\ r.supersedes \in Ids \cup {Null}
        /\ r.valid_from \in Text \cup {Null} /\ Whole(now) \in Text
        /\ r.decision \in Decisions /\ r.fact_key \in Keys \cup {Null}
    BY InputsAssumption, ClockAssumption DEF ExternalRequest, Whole, Text
  <2>2. ExternalPredecessors(after, r) \subseteq {r.supersedes} \ {Null}
    BY NoSameFactLeft DEF ExternalPredecessors
  <2>3. ASSUME NEW p \in ExternalPredecessors(after, r)
        PROVE  /\ after[p].superseded_by = r.id
               /\ Retirable(after, p, r.scope, r.id, later)
    <3>1. p \in Ids /\ p \in ExternalPredecessors(db, r)
      BY <2>1, <2>2, <2>3 DEF ExternalPredecessors
    <3>2. /\ db[p] \in Row /\ after[p] \in Row /\ after[p].superseded_by = r.id
          /\ Envelope(after[p]) = Envelope(db[p])
      BY <3>1, AfterCaptureRows
    <3>3. db[p].scope = r.scope
      BY <3>1 DEF CaptureExternalAccepts, Retirable, InScope
    <3>4. InScope(after, p, r.scope)
      BY <3>2, <3>3, NullsAssumption DEF InScope, Exists, Envelope
    <3> QED BY <3>2, <3>4 DEF Retirable
  <2>4. /\ Exists(after, r.id) /\ Envelope(after[r.id]) = Envelope(row)
        /\ r.valid_from = Null => after[r.id].valid_from = row.valid_from
                                  /\ row.valid_from # Null
    <3>1. CASE Exists(db, r.id)
      <4>1. Envelope(db[r.id]) = Envelope(row)
        BY <3>1 DEF CaptureExternalAccepts, ExactReplay
      <4>2. Exists(after, r.id) /\ Envelope(after[r.id]) = Envelope(db[r.id])
        <5>1. CASE r.id \in ExternalPredecessors(db, r)
          BY <2>1, <5>1, AfterCaptureRows, NullsAssumption DEF Exists
        <5>2. CASE r.id \notin ExternalPredecessors(db, r)
          BY <2>1, <3>1, <5>2, AfterCaptureRows DEF Exists
        <5> QED BY <5>1, <5>2
      <4>3. after[r.id].valid_from = row.valid_from
        BY <4>1, <4>2 DEF Envelope
      <4>4. r.valid_from = Null => row.valid_from # Null
        BY <2>1, NullsAssumption DEF ExternalRow, NewRow
      <4> QED BY <4>1, <4>2, <4>3, <4>4
    <3>2. CASE ~Exists(db, r.id)
      <4>1. after[r.id] = row
        BY <3>2, AfterCaptureRows
      <4>2. row.valid_from # Null
        BY <2>1, <3>2, NullsAssumption DEF ExternalRow, NewRow
      <4>3. row \in Row
        BY <2>1, <3>2, NewRowType DEF ExternalRow
      <4> QED BY <4>1, <4>2, <4>3, NullsAssumption DEF Exists
    <3> QED BY <3>1, <3>2
  <2>5. ExternalRow(after, r, later) = row
    <3>1. CASE r.valid_from # Null
      BY <3>1 DEF ExternalRow
    <3>2. CASE r.valid_from = Null
      <4>1. row.valid_from = after[r.id].valid_from /\ row.valid_from # Null
        BY <2>4, <3>2
      <4>2. ExternalRow(after, r, later) =
              NewRow(r.scope, r.decision, r.fact_key, row.valid_from)
        BY <2>4, <3>2, <4>1 DEF ExternalRow
      <4>3. row = NewRow(r.scope, r.decision, r.fact_key, row.valid_from)
        BY DEF ExternalRow, NewRow
      <4> QED BY <4>2, <4>3
    <3> QED BY <3>1, <3>2
  <2>6. CaptureExternalAccepts(after, r, later)
    BY <2>3, <2>4, <2>5 DEF CaptureExternalAccepts, ExactReplay
  <2> QED BY <2>3, <2>6
<1> QED BY <1>1, TypeCorrect, PTL

-----------------------------------------------------------------------------
(***************************************************************************)
(* Validities.  Where the strict parser reads a start, SQLite reads the    *)
(* same instant, imports bring positive validities, and a reconciliation   *)
(* that the strict comparison of start and end lets through ends later     *)
(* than the start as SQLite reads both: it is not asked for the very       *)
(* second a record starts at, which the code would accept.                 *)
(***************************************************************************)
ParsersAgree(row) == Canonical(row.valid_from) => row.valid_from.unix = row.valid_from.iso
AgreedWindow(row) == ParsersAgree(row) /\ PositiveWindow(row)

(* The starts and ends an import brings; every start a record may have.    *)
Imports(v, column) ==
    \E b \in ImportBatches : \E n \in DOMAIN b : b[n].row[column] = v
Starts == ValidFroms \cup {Whole(now) : now \in Clock}
          \cup {v \in Text : Imports(v, "valid_from")}

SoundInputs ==
    /\ \A v \in ValidFroms : v.unix = v.iso
    /\ \A b \in ImportBatches : \A n \in DOMAIN b : AgreedWindow(b[n].row)
    /\ \A until \in Retirements :
           /\ until.unix # Null
           /\ \A v \in Starts : \/ Canonical(v) /\ v.iso > until.iso
                                \/ v.unix # Null /\ v.unix < until.unix

(* An end of validity without a successor came with an import.             *)
SoundRow(row) ==
    /\ AgreedWindow(row)
    /\ row.valid_from \in Text => row.valid_from \in Starts
    /\ row.valid_until \in Text =>
           \/ row.superseded_by \in Ids /\ row.valid_until.unix # Null
           \/ Imports(row.valid_until, "valid_until")
SoundRows == \A i \in Ids : Exists(db, i) => SoundRow(db[i])

(* A row without an end of validity is sound if its start is. *)
LEMMA OpenRowIsSound ==
    ASSUME NEW row, row.valid_until \notin Text,
           ParsersAgree(row), row.valid_from \in Text => row.valid_from \in Starts
    PROVE  SoundRow(row)
BY DEF SoundRow, AgreedWindow, PositiveWindow

(* A retirement ends a validity after its start. *)
LEMMA RetirementIsLater ==
    ASSUME NEW row \in Row, SoundRow(row), NEW now \in Clock, NEW s \in Ids,
           RetirementTimeExists(row, now), Whole(RetirementTime(row, now)) \in Text
    PROVE  SoundRow(Superseded(row, s, Whole(RetirementTime(row, now))))
<1> DEFINE t == RetirementTime(row, now)
           new == Superseded(row, s, Whole(t))
<1>1. /\ new.valid_from = row.valid_from /\ new.valid_until = Whole(t)
      /\ new.superseded_by = s
  BY SupersededRow
<1>2. now \in Nat /\ now # Null
  BY ClockAssumption DEF Instants
<1>3. AgreedWindow(new) /\ t # Null
  <2>1. CASE row.valid_from = Null
    BY <1>1, <1>2, <2>1, NullsAssumption
    DEF SoundRow, AgreedWindow, ParsersAgree, PositiveWindow, Canonical, RetirementTime
  <2>2. CASE Canonical(row.valid_from) /\ t \in Instants /\ row.valid_from # Null
    <3>1. row.valid_from.iso \in Nat /\ row.valid_from.unix = row.valid_from.iso
      BY <2>2, ClockAssumption DEF SoundRow, AgreedWindow, ParsersAgree, Canonical, Text, Instants
    <3>2. row.valid_from.iso < t /\ Whole(t).unix = t
      BY <1>2, <2>2, <3>1 DEF RetirementTime, Whole
    <3> QED BY <1>1, <2>2, <3>1, <3>2, ClockAssumption
        DEF AgreedWindow, ParsersAgree, PositiveWindow
  <2> QED BY <2>1, <2>2, NullsAssumption DEF RetirementTimeExists, Canonical
<1>4. Whole(t).unix # Null
  BY <1>3 DEF Whole
<1> QED BY <1>1, <1>3, <1>4 DEF SoundRow

(* So does a reconciliation with sound inputs. *)
LEMMA ReconciliationIsLater ==
    ASSUME SoundInputs, NEW row \in Row, SoundRow(row), NEW s \in Ids,
           NEW until \in Retirements, ~StartsAfter(row, until)
    PROVE  SoundRow(Superseded(row, s, until))
<1> DEFINE new == Superseded(row, s, until)
<1>1. /\ new.valid_from = row.valid_from /\ new.valid_until = until
      /\ new.superseded_by = s
  BY SupersededRow
<1>2. until.unix # Null
  BY DEF SoundInputs
<1>3. row.valid_from \in Text => row.valid_from.unix < until.unix
  BY DEF SoundInputs, SoundRow, StartsAfter
<1> HIDE DEF new
<1>4. AgreedWindow(new)
  BY <1>1, <1>3 DEF SoundRow, AgreedWindow, ParsersAgree, PositiveWindow
<1> QED BY <1>1, <1>2, <1>4 DEF SoundRow, new

(* A captured validity has no end yet. *)
LEMMA CapturedWindow ==
    ASSUME TypeOK, SoundInputs, NEW r \in ExternalRequest, NEW now \in Clock,
           ~Exists(db, r.id)
    PROVE  SoundRow(ExternalRow(db, r, now))
<1>1. Whole(now).unix = Whole(now).iso /\ r.valid_from \in ValidFroms \cup {Null}
  BY DEF Whole, ExternalRequest
<1>2. /\ ExternalRow(db, r, now).valid_until = Null
      /\ ExternalRow(db, r, now).valid_from \in ValidFroms \cup {Whole(now)}
  BY <1>1 DEF ExternalRow, NewRow
<1>3. /\ ExternalRow(db, r, now).valid_from \in Starts
      /\ ParsersAgree(ExternalRow(db, r, now))
  BY <1>1, <1>2 DEF Starts, SoundInputs, ParsersAgree
<1> QED BY <1>2, <1>3, NullsAssumption, OpenRowIsSound

(* The inductive invariant of validities: where starts and ends come from. *)
LEMMA StepKeepsSoundRows ==
    ASSUME SoundInputs, TypeOK, SoundRows, [Next]_db
    PROVE  SoundRows'
<1> SUFFICES ASSUME NEW i \in Ids, Exists(db', i)
             PROVE  SoundRow(db'[i])
  BY DEF SoundRows
<1>1. db \in Table
  BY DEF TypeOK, Table
<1>2. CASE Exists(db, i) /\ db'[i] = db[i]
  BY <1>2 DEF SoundRows
<1>3. ASSUME NEW sc, NEW id, NEW row, NEW preds, NEW now,
             CaptureShape(sc, id, row, preds, now),
             ~Exists(db, id) => SoundRow(row)
      PROVE  SoundRow(db'[i])
  <2>1. CASE db'[i] = db[i]
    BY <1>2, <2>1 DEF Exists
  <2>2. CASE i = id /\ ~Exists(db, i) /\ db'[i] = row
    BY <1>3, <2>2
  <2>3. CASE /\ i \in preds /\ db[i] \in Row /\ db[i].superseded_by = Null
             /\ Whole(RetirementTime(db[i], now)) \in Text
             /\ db'[i] = Superseded(db[i], id, Whole(RetirementTime(db[i], now)))
    <3>1. SoundRow(db[i])
      BY <2>3, NullsAssumption DEF SoundRows, Exists
    <3>2. RetirementTimeExists(db[i], now) /\ id \in Ids /\ now \in Clock
      BY <1>3, <2>3, NullsAssumption DEF CaptureShape, Retirable
    <3> QED BY <2>3, <3>1, <3>2, RetirementIsLater
  <2> QED BY <1>1, <1>3, <2>1, <2>2, <2>3, CaptureEffect
<1>4. CASE CaptureStep
  <2>1. PICK p \in DOMAIN CaptureId, supersedes \in Ids \cup {Null}, now \in Clock :
               Capture(p[1], p[2], supersedes, now)
    BY <1>4 DEF CaptureStep
  <2>2. PICK sc, id, row, preds :
               CaptureShape(sc, id, row, preds, now) /\ row.valid_from = Null
    BY <2>1, CaptureHasStart
  <2>3. row.valid_until = Null
    BY <2>2 DEF CaptureShape
  <2>4. SoundRow(row)
    BY <2>2, <2>3, NullsAssumption, OpenRowIsSound DEF ParsersAgree, Canonical
  <2> QED BY <1>3, <2>2, <2>4
<1>5. CASE CaptureExternalStep
  <2>1. PICK r \in ExternalRequest, now \in Clock : CaptureExternal(r, now)
    BY <1>5 DEF CaptureExternalStep
  <2>2. CaptureShape(r.scope, r.id, ExternalRow(db, r, now), ExternalPredecessors(db, r), now)
    BY <1>1, <2>1, CaptureExternalIsShape
  <2> QED BY <1>3, <2>1, <2>2, CapturedWindow
<1>6. CASE ImportExternalStep
  <2>1. PICK batch \in ImportBatches : ImportExternal(batch)
    BY <1>6 DEF ImportExternalStep
  <2>2. CASE db'[i] = db[i]
    BY <1>2, <2>2 DEF Exists
  <2>3. ASSUME NEW n \in DOMAIN batch, db'[i] = batch[n].row PROVE SoundRow(db'[i])
    BY <2>3 DEF SoundInputs, SoundRow, Imports, Starts
  <2> QED BY <1>1, <2>1, <2>2, <2>3, ImportEffect
<1>7. CASE ImportDecisionsStep
  <2>1. \/ db'[i] = db[i]
        \/ db'[i].valid_from = Null /\ db'[i].valid_until = Null
    BY <1>7 DEF ImportDecisionsStep, ImportDecisions, AfterMining, NewRow
  <2>2. CASE db'[i].valid_from = Null /\ db'[i].valid_until = Null
    BY <2>2, NullsAssumption, OpenRowIsSound DEF ParsersAgree, Canonical
  <2> QED BY <1>2, <2>1, <2>2 DEF Exists
<1>8. CASE ReconcileStep
  <2>1. PICK p \in Ids, s \in Ids, sc \in Scopes, until \in Retirements :
               ReconcileExternalSupersession(p, s, sc, until)
    BY <1>8 DEF ReconcileStep
  <2>2. /\ \A j \in Ids \ {p} : db'[j] = db[j]
        /\ db[p] \in Row /\ db'[p] = Superseded(db[p], s, until)
    BY <1>1, <2>1, ReconcileEffect
  <2>3. ~StartsAfter(db[p], until) /\ SoundRow(db[p])
    BY <2>1, <2>2, NullsAssumption
    DEF ReconcileExternalSupersession, ReconcileAccepts, SoundRows, Exists
  <2>4. SoundRow(db'[p])
    BY <2>2, <2>3, ReconciliationIsLater
  <2> QED BY <1>2, <2>2, <2>4 DEF Exists
<1>9. CASE RescopeStep
  <2>1. PICK from \in Scopes, to \in Scopes : Rescope(from, to)
    BY <1>9 DEF RescopeStep
  <2>2. CASE db'[i] = db[i]
    BY <1>2, <2>2 DEF Exists
  <2>3. CASE /\ InScope(db, i, from) /\ db'[i].valid_until = db[i].valid_until
             /\ db'[i].superseded_by = db[i].superseded_by
             /\ Envelope(db'[i]) = [Envelope(db[i]) EXCEPT !.scope = to]
    <3>1. db'[i].valid_from = db[i].valid_from
      BY <2>3 DEF Envelope
    <3>2. SoundRow(db[i])
      BY <2>3 DEF InScope, SoundRows
    <3> QED BY <2>3, <3>1, <3>2 DEF SoundRow, AgreedWindow, ParsersAgree, PositiveWindow
  <2> QED BY <1>1, <2>1, <2>2, <2>3, RescopeEffect
<1>10. CASE UNCHANGED db
  BY <1>2, <1>10
<1> QED BY <1>4, <1>5, <1>6, <1>7, <1>8, <1>9, <1>10 DEF Next

LEMMA RowsAreSound ==
    ASSUME SoundInputs
    PROVE  Spec => []SoundRows
<1>1. Init => SoundRows
  BY DEF Init, SoundRows, Exists
<1>2. TypeOK /\ SoundRows /\ [Next]_db => SoundRows'
  BY StepKeepsSoundRows
<1> QED BY <1>1, <1>2, TypeCorrect, PTL DEF Spec

(* Captures, moves, reconciliations and imports of positive validities     *)
(* keep every validity positive, as SQLite measures it: no exact read      *)
(* fails on one (db/digest.rs:pending_retirement_time_on).                 *)
THEOREM ValidityIsPositive ==
    ASSUME SoundInputs
    PROVE  Spec => []PositiveValidity
<1>1. SoundRows => PositiveValidity
  BY DEF SoundRows, SoundRow, AgreedWindow, PositiveValidity
<1> QED BY <1>1, RowsAreSound, PTL

-----------------------------------------------------------------------------
(***************************************************************************)
(* Fact keys.  Only an import or a merge of scopes can bring a second open *)
(* record of a fact.                                                       *)
(***************************************************************************)
Holds(d, i, sc, kind, key) ==
    /\ Exists(d, i) /\ Open(d[i])
    /\ d[i].scope = sc /\ d[i].decision.kind = kind /\ d[i].fact_key = key

LEMMA OneHolder ==
    OneOpenRecordPerFact <=>
        \A i, j \in Ids : \A sc, kind, key :
            key # Null /\ Holds(db, i, sc, kind, key) /\ Holds(db, j, sc, kind, key) => i = j
    BY DEF OneOpenRecordPerFact, Holds

LEMMA OneHolderAfter ==
    OneOpenRecordPerFact' <=>
        \A i, j \in Ids : \A sc, kind, key :
            key # Null /\ Holds(db', i, sc, kind, key) /\ Holds(db', j, sc, kind, key) => i = j
    BY DEF OneOpenRecordPerFact, Holds

(* A step after which every open record with a key was one before. *)
LEMMA NoNewHolder ==
    ASSUME OneOpenRecordPerFact,
           \A i \in Ids : Exists(db', i) /\ Open(db'[i]) /\ db'[i].fact_key # Null
                           => db'[i] = db[i]
    PROVE  OneOpenRecordPerFact'
<1>1. \A i \in Ids : \A sc, kind, key :
          key # Null /\ Holds(db', i, sc, kind, key) => Holds(db, i, sc, kind, key)
  BY DEF Holds, Exists
<1> QED BY <1>1, OneHolder, OneHolderAfter

LEMMA RetiredIsNotOpen ==
    ASSUME NEW row \in Row, NEW s \in Ids, NEW t
    PROVE  ~Open(Superseded(row, s, t))
    BY SupersededRow, NullsAssumption DEF Open

LEMMA StepKeepsOneOpen ==
    ASSUME TypeOK, OneOpenRecordPerFact, [Next]_db
    PROVE  OneOpenRecordPerFact' \/ ImportExternalStep \/ RescopeStep
<1>1. db \in Table
  BY DEF TypeOK, Table
<1>2. CASE CaptureStep
  <2>1. PICK p \in DOMAIN CaptureId, supersedes \in Ids \cup {Null}, now \in Clock :
               Capture(p[1], p[2], supersedes, now)
    BY <1>2 DEF CaptureStep
  <2>2. PICK sc, id, row, preds :
               CaptureShape(sc, id, row, preds, now) /\ row.fact_key = Null
    BY <2>1, CaptureHasStart
  <2>3. ASSUME NEW i \in Ids, Exists(db', i), Open(db'[i]), db'[i].fact_key # Null
        PROVE  db'[i] = db[i]
    <3>1. id \in Ids
      BY <2>2 DEF CaptureShape
    <3> QED BY <1>1, <2>2, <2>3, <3>1, CaptureEffect, RetiredIsNotOpen
  <2> QED BY <2>3, NoNewHolder
<1>3. CASE CaptureExternalStep
  <2>1. PICK r \in ExternalRequest, now \in Clock : CaptureExternal(r, now)
    BY <1>3 DEF CaptureExternalStep
  <2>2. r.id \in Ids /\ CaptureExternalAccepts(db, r, now)
        /\ db' = AfterCaptureExternal(db, r, now)
    BY <2>1, InputsAssumption DEF CaptureExternal, ExternalRequest
  <2>3. ASSUME NEW i \in Ids, Exists(db', i), Open(db'[i]), i # r.id \/ Exists(db, r.id)
        PROVE  db'[i] = db[i]
    <3>1. i \notin ExternalPredecessors(db, r)
      BY <2>2, <2>3, AfterCaptureRows, NullsAssumption DEF Open
    <3> QED BY <2>2, <2>3, <3>1, AfterCaptureRows
  <2>4. CASE Exists(db, r.id)
    BY <2>3, <2>4, NoNewHolder
  <2>5. CASE ~Exists(db, r.id)
    <3>1. db'[r.id] = ExternalRow(db, r, now)
      BY <2>2, <2>5, AfterCaptureRows
    <3>2. /\ db'[r.id].scope = r.scope /\ db'[r.id].decision = r.decision
          /\ db'[r.id].fact_key = r.fact_key
      BY <3>1 DEF ExternalRow, NewRow
    <3>3. ASSUME NEW i \in Ids, i # r.id, NEW sc, NEW kind, NEW key, key # Null,
                 Holds(db', r.id, sc, kind, key), Holds(db', i, sc, kind, key)
          PROVE  FALSE
      <4>1. i \in SameFact(db', r)
        BY <3>2, <3>3 DEF Holds, SameFact, InScope
      <4> QED BY <2>2, <4>1, NoSameFactLeft
    <3>4. ASSUME NEW i \in Ids, i # r.id, NEW sc, NEW kind, NEW key,
                 Holds(db', i, sc, kind, key)
          PROVE  Holds(db, i, sc, kind, key)
      BY <2>3, <3>4 DEF Holds, Exists
    <3>5. ASSUME NEW i \in Ids, NEW j \in Ids, NEW sc, NEW kind, NEW key, key # Null,
                 Holds(db', i, sc, kind, key), Holds(db', j, sc, kind, key)
          PROVE  i = j
      <4>1. CASE i = r.id \/ j = r.id
        BY <3>3, <3>5, <4>1
      <4>2. CASE i # r.id /\ j # r.id
        BY <3>4, <3>5, <4>2, OneHolder
      <4> QED BY <4>1, <4>2
    <3> QED BY <3>5, OneHolderAfter
  <2> QED BY <2>4, <2>5
<1>4. CASE ImportDecisionsStep
  <2>1. \A i \in Ids : db'[i] = db[i] \/ db'[i].fact_key = Null
    BY <1>4 DEF ImportDecisionsStep, ImportDecisions, AfterMining, NewRow
  <2> QED BY <2>1, NoNewHolder
<1>5. CASE ReconcileStep
  <2>1. PICK p \in Ids, s \in Ids, sc \in Scopes, until \in Retirements :
               ReconcileExternalSupersession(p, s, sc, until)
    BY <1>5 DEF ReconcileStep
  <2>2. \A i \in Ids : db'[i] = db[i] \/ ~Open(db'[i])
    BY <1>1, <2>1, ReconcileEffect, RetiredIsNotOpen
  <2> QED BY <2>2, NoNewHolder
<1>6. CASE UNCHANGED db
  BY <1>6, NoNewHolder
<1> QED BY <1>2, <1>3, <1>4, <1>5, <1>6 DEF Next

(* Whatever order captures of one fact arrive in, at most one of them is   *)
(* open: only an import of rows as they are, or a move that merges two     *)
(* scopes, can leave two (db/capture_store.rs:209).                        *)
THEOREM OneOpenIsKept ==
    Spec => [][OneOpenRecordPerFact =>
                  OneOpenRecordPerFact' \/ ImportExternalStep \/ RescopeStep]_db
<1>1. TypeOK /\ [Next]_db =>
        [OneOpenRecordPerFact =>
            OneOpenRecordPerFact' \/ ImportExternalStep \/ RescopeStep]_db
  BY StepKeepsOneOpen
<1> QED BY <1>1, TypeCorrect, PTL DEF Spec

(* So it holds for ever in a store of one scope without imports. *)
THEOREM OneOpenRecord ==
    ASSUME ImportBatches = {}, \A sc, other \in Scopes : sc = other
    PROVE  Spec => []OneOpenRecordPerFact
<1>1. Init => OneOpenRecordPerFact
  BY DEF Init, OneOpenRecordPerFact, Exists
<1>2. TypeOK /\ OneOpenRecordPerFact /\ [Next]_db => OneOpenRecordPerFact'
  BY StepKeepsOneOpen DEF ImportExternalStep, RescopeStep, Rescope
<1> QED BY <1>1, <1>2, TypeCorrect, PTL DEF Spec

-----------------------------------------------------------------------------
(***************************************************************************)
(* Readable chains.  The walk of a retired record is the record and the    *)
(* walk of its successor.                                                  *)
(***************************************************************************)

(* A walk is the same in two tables that agree on what it visits. *)
LEMMA SameWalk ==
    ASSUME NEW d, NEW e, NEW sc, NEW s \in Ids,
           \A x \in Visited(d, sc, s) :
               /\ InScope(e, x, sc) <=> InScope(d, x, sc)
               /\ e[x].superseded_by = d[x].superseded_by
    PROVE  Visited(e, sc, s) = Visited(d, sc, s)
<1> DEFINE V == Visited(d, sc, s)
           W == Visited(e, sc, s)
<1>1. /\ s \in V /\ V \in SUBSET Ids /\ ClosedInScope(d, sc, V)
      /\ s \in W /\ W \in SUBSET Ids /\ ClosedInScope(e, sc, W)
  BY VisitedIsClosed
<1>2. ClosedInScope(e, sc, V)
  BY <1>1 DEF ClosedInScope
<1>3. W \subseteq V
  BY <1>1, <1>2 DEF Visited
<1>4. ClosedInScope(d, sc, W \cap V)
  BY <1>1 DEF ClosedInScope
<1>5. V \subseteq W \cap V
  BY <1>1, <1>4 DEF Visited
<1> QED BY <1>3, <1>5

(* One record more: the walk from a record of the scope is the record and  *)
(* the walk from its successor.                                            *)
LEMMA LongerWalk ==
    ASSUME NEW d, NEW sc, NEW i \in Ids, NEW s \in Ids,
           InScope(d, i, sc), d[i].superseded_by = s
    PROVE  Visited(d, sc, i) = {i} \cup Visited(d, sc, s)
<1> DEFINE V == Visited(d, sc, s)
           W == Visited(d, sc, i)
<1>1. /\ s \in V /\ V \in SUBSET Ids /\ ClosedInScope(d, sc, V)
      /\ i \in W /\ W \in SUBSET Ids /\ ClosedInScope(d, sc, W)
  BY VisitedIsClosed
<1>2. ClosedInScope(d, sc, {i} \cup V)
  BY <1>1 DEF ClosedInScope
<1>3. W \subseteq {i} \cup V
  BY <1>1, <1>2 DEF Visited
<1>4. s \in W
  BY <1>1 DEF ClosedInScope
<1>5. V \subseteq W
  BY <1>1, <1>4 DEF Visited
<1> QED BY <1>1, <1>3, <1>5

(* A record that ends its chain is all its walk visits. *)
LEMMA ShortestWalk ==
    ASSUME NEW d, NEW sc, NEW s \in Ids, d[s].superseded_by \notin Ids
    PROVE  Visited(d, sc, s) = {s}
<1>1. ClosedInScope(d, sc, {s})
  BY DEF ClosedInScope
<1> QED BY <1>1, VisitedIsClosed DEF Visited

(* A successor whose own chain is shorter than the limit makes a readable  *)
(* chain of a record of its scope that names it.                           *)
LEMMA ReadableBehind ==
    ASSUME NEW d, NEW sc, NEW i \in Ids, NEW s \in Ids,
           InScope(d, i, sc), d[i].superseded_by = s,
           \A x \in Visited(d, sc, s) : InScope(d, x, sc),
           \E x \in Visited(d, sc, s) : d[x].superseded_by \notin Ids,
           Cardinality(Visited(d, sc, s)) < MaxChain
    PROVE  ChainIsReadable(d, sc, i)
<1> DEFINE V == Visited(d, sc, s)
<1>1. Visited(d, sc, i) = V \cup {i}
  BY LongerWalk
<1>2. IsFiniteSet(V)
  BY ChainAssumption, FS_Subset, VisitedIsClosed
<1>3. Cardinality(V) \in Nat
  BY <1>2, FS_CardinalityType
<1>4. \/ Cardinality(V \cup {i}) = Cardinality(V)
      \/ Cardinality(V \cup {i}) = Cardinality(V) + 1
  BY <1>2, FS_AddElement
<1> HIDE DEF V
<1>5. Cardinality(Visited(d, sc, i)) <= MaxChain
  BY <1>1, <1>3, <1>4, ChainAssumption DEF V
<1> QED BY <1>1, <1>5 DEF ChainIsReadable, V

(* What a check before the step guarantees after it: the step changed no   *)
(* record of the successor's walk, and the record it retired names it.     *)
LEMMA ReadableAfter ==
    ASSUME NEW i \in Ids, NEW s \in Ids, NEW sc,
           InScope(db', i, sc), db'[i].superseded_by = s,
           InScope(db, s, sc), AcyclicRetirement(db, s, i, sc),
           \A x \in Visited(db, sc, s) : db'[x] = db[x]
    PROVE  ChainIsReadable(db', sc, i)
<1>1. Visited(db', sc, s) = Visited(db, sc, s)
  BY SameWalk DEF InScope, Exists
<1>2. /\ \A x \in Visited(db', sc, s) : InScope(db', x, sc)
      /\ \E x \in Visited(db', sc, s) : db'[x].superseded_by \notin Ids
      /\ Cardinality(Visited(db', sc, s)) < MaxChain
  BY <1>1 DEF AcyclicRetirement, InScope, Exists
<1> QED BY <1>2, ReadableBehind

(* A capture retires records into readable chains only: each of them was   *)
(* checked against the walk from the successor, and that walk holds none   *)
(* of the others.                                                          *)
LEMMA CaptureLeavesReadable ==
    ASSUME db \in Table, NEW sc, NEW id, NEW row, NEW preds, NEW now,
           CaptureShape(sc, id, row, preds, now),
           NEW i \in Ids, Exists(db, i), db[i].superseded_by = Null,
           db'[i].superseded_by \in Ids
    PROVE  ChainIsReadable(db', db'[i].scope, i)
<1>1. /\ i \in preds /\ db[i] \in Row /\ id \in Ids /\ row.superseded_by = Null
      /\ db'[i] = Superseded(db[i], id, Whole(RetirementTime(db[i], now)))
      /\ Whole(RetirementTime(db[i], now)) \in Text
  BY CaptureEffect, NullsAssumption DEF CaptureShape
<1>2. InScope(db, i, sc)
  BY <1>1 DEF CaptureShape, Retirable
<1>3. /\ db'[i] \in Row /\ db'[i].superseded_by = id /\ db'[i].scope = sc
  BY <1>1, <1>2, SupersededRow DEF InScope
<1>4. InScope(db', i, sc)
  BY <1>3, NullsAssumption DEF InScope, Exists
<1>5. \A p \in preds : db[p].superseded_by = Null => AcyclicRetirement(db, id, p, sc)
  BY <1>1, NullsAssumption DEF CaptureShape, Retirable
<1>6. CASE InScope(db, id, sc)
  <2>1. ASSUME NEW x \in Visited(db, sc, id) PROVE db'[x] = db[x]
    <3>1. x \in Ids
      BY DEF Visited
    <3>2. ~(x \in preds /\ db[x].superseded_by = Null)
      BY <1>5, <1>6 DEF AcyclicRetirement
    <3> QED BY <1>6, <3>1, <3>2, CaptureEffect DEF InScope
  <2>2. ChainIsReadable(db', sc, i)
    BY <1>1, <1>3, <1>4, <1>5, <1>6, <2>1, ReadableAfter
  <2> QED BY <1>3, <2>2
<1>7. CASE ~InScope(db, id, sc)
  <2>1. ~Exists(db, id) /\ id \notin preds
    BY <1>7 DEF CaptureShape, ExactReplay, Envelope, InScope, Retirable
  <2>2. InScope(db', id, sc) /\ db'[id].superseded_by = Null
    <3>1. db'[id] = row \/ db'[id] = db[id]
      BY <1>1, <2>1, CaptureEffect
    <3>2. InScope(db', id, sc)
      BY CaptureStoresInScope
    <3> QED BY <1>1, <2>1, <3>1, <3>2 DEF InScope, Exists
  <2>3. Visited(db', sc, id) = {id}
    BY <1>1, <2>2, ShortestWalk, NullsAssumption
  <2>4. Cardinality(Visited(db', sc, id)) < MaxChain
    <3>1. Cardinality({id}) = 1
      BY FS_Singleton
    <3> QED BY <2>3, <3>1, ChainAssumption
  <2>5. ChainIsReadable(db', sc, i)
    BY <1>1, <1>3, <1>4, <2>2, <2>3, <2>4, ReadableBehind, NullsAssumption
  <2> QED BY <1>3, <2>5
<1> QED BY <1>6, <1>7

(* So does a reconciliation. *)
LEMMA ReconcileLeavesReadable ==
    ASSUME db \in Table, NEW p \in Ids, NEW s \in Ids, NEW sc \in Scopes,
           NEW until \in Retirements, ReconcileExternalSupersession(p, s, sc, until)
    PROVE  ChainIsReadable(db', db'[p].scope, p)
<1>1. /\ \A x \in Ids \ {p} : db'[x] = db[x]
      /\ db[p] \in Row /\ db'[p] = Superseded(db[p], s, until)
  BY ReconcileEffect
<1>2. /\ InScope(db, p, sc) /\ InScope(db, s, sc) /\ AcyclicRetirement(db, s, p, sc)
  BY DEF ReconcileExternalSupersession, ReconcileAccepts
<1>3. until \in Text
  BY InputsAssumption
<1>4. db'[p] \in Row /\ db'[p].superseded_by = s /\ db'[p].scope = sc
  BY <1>1, <1>2, <1>3, SupersededRow DEF InScope
<1>5. InScope(db', p, sc)
  BY <1>4, NullsAssumption DEF InScope, Exists
<1>6. \A x \in Visited(db, sc, s) : db'[x] = db[x]
  BY <1>1, <1>2, VisitedIsClosed DEF AcyclicRetirement
<1>7. ChainIsReadable(db', sc, p)
  BY <1>2, <1>4, <1>5, <1>6, ReadableAfter
<1> QED BY <1>4, <1>7

(* Every record that a step retires has a chain the reads can follow to    *)
(* its end, whatever was imported before: the bound of the write path      *)
(* (fewer than MaxChain records from the successor on) is that of the      *)
(* reads (at most MaxChain records).                                       *)
LEMMA StepLeavesReadable ==
    ASSUME TypeOK, [Next]_db, NEW i \in Ids, Exists(db, i),
           db[i].superseded_by = Null, db'[i].superseded_by \in Ids
    PROVE  ChainIsReadable(db', db'[i].scope, i)
<1>1. db \in Table
  BY DEF TypeOK, Table
<1>2. db'[i].superseded_by # db[i].superseded_by
  BY NullsAssumption
<1>3. CASE CaptureStep
  BY <1>1, <1>3, CaptureHasShape, CaptureLeavesReadable DEF CaptureStep
<1>4. CASE CaptureExternalStep
  BY <1>1, <1>4, CaptureExternalHasShape, CaptureLeavesReadable
     DEF CaptureExternalStep
<1>5. CASE ImportExternalStep
  BY <1>1, <1>2, <1>5, ImportEffect DEF ImportExternalStep
<1>6. CASE ImportDecisionsStep
  BY <1>1, <1>2, <1>6, MinedEffect DEF ImportDecisionsStep
<1>7. CASE ReconcileStep
  <2>1. PICK p \in Ids, s \in Ids, sc \in Scopes, until \in Retirements :
            ReconcileExternalSupersession(p, s, sc, until)
    BY <1>7 DEF ReconcileStep
  <2>2. i = p
    BY <1>1, <1>2, <2>1, ReconcileEffect
  <2> QED BY <1>1, <2>1, <2>2, ReconcileLeavesReadable
<1>8. CASE RescopeStep
  BY <1>1, <1>2, <1>8, RescopeEffect DEF RescopeStep
<1>9. CASE UNCHANGED db
  BY <1>2, <1>9
<1> QED BY <1>3, <1>4, <1>5, <1>6, <1>7, <1>8, <1>9 DEF Next

(* So no store ever retires a record whose chain the exact reads then      *)
(* refuse for its length, its end or its scope                             *)
(* (db/digest.rs:ensure_acyclic_retirement_on).                            *)
THEOREM RetiredIsReadable == Spec => RetiredRecordIsReadable
<1>1. TypeOK /\ [Next]_db =>
        [\A i \in Ids :
          /\ Exists(db, i) /\ db[i].superseded_by = Null
          /\ db'[i].superseded_by \in Ids
          => ChainIsReadable(db', db'[i].scope, i)]_db
  BY StepLeavesReadable
<1> QED BY <1>1, TypeCorrect, PTL DEF Spec, RetiredRecordIsReadable
=============================================================================
