------------------------------- MODULE StoreOpen -------------------------------
(***************************************************************************)
(* Opening one store file from several processes: Store::open_with_...     *)
(* (db/lifecycle.rs) with its migration, the inspection it rests on        *)
(* (db/compatibility.rs), inspect_store, and `why setup` on top of them.   *)
(*                                                                         *)
(* The file is in SQLite's rollback-journal mode, the one a file created   *)
(* here has: a writer that commits first saves the old content in a        *)
(* journal, then overwrites the file, then deletes the journal.  A process *)
(* that dies in between leaves a hot journal, which the next ordinary      *)
(* connection plays back; inspect_store opens the file as immutable and    *)
(* looks at neither locks nor journal.                                     *)
(*                                                                         *)
(* inspect_connection is a series of statements.  Inside a transaction     *)
(* they read one snapshot; the first inspection of an open runs outside    *)
(* one, so that each of its statements reads the file as it is then.       *)
(***************************************************************************)
EXTENDS Naturals, FiniteSets

CONSTANTS
    Openers,         \* the processes that open the store
    Setups,          \* those that run `why setup`: inspect_store comes first
    Identities,      \* provider store identities, all of the allowed form
    Asked,           \* opener -> the identity it names, or Null
    Records,         \* identifiers of the rows a legacy store may hold
    InitialStores,   \* what the path may hold at first: store images or Absent
    MaxRestarts,     \* bound: how often a process that died runs again
    Null, Absent, NoRecord,
    Torn             \* a file some of whose pages are overwritten

VARIABLES
    image,           \* the file: Absent, Torn, or a store image
    journal,         \* the rollback journal: an image, or Null
    writer,          \* the holder of the write lock, or Null
    pc, seen, work,  \* opener -> its step, what it has read, its transaction
    outcome,         \* opener -> how its call ended
    held,            \* opener -> the identity of the store it has, or Null
    restarts,        \* how often a process was started again
    origin           \* history: the image the path held at first

vars == <<image, journal, writer, pc, seen, work, outcome, held, restarts, origin>>
-----------------------------------------------------------------------------
SchemaVersion == 1

(* The schema is its set of objects: the digest of sqlite_schema tells two *)
(* schemas apart exactly when they differ in an object or its definition.  *)
LegacyShape == {"decisions_v0", "search"}
CurrentShape == {"decisions_v1", "search", "metadata", "migrations", "guards"}
Objects == LegacyShape \cup CurrentShape \cup {"other"}

(* A row: seal is TRUE once record_digest_v1 is set; sealable is FALSE for *)
(* tags that are not a JSON array of strings, which no seal can cover.     *)
Record == [valid_until : BOOLEAN, declared : BOOLEAN, seal : BOOLEAN,
           sealable : BOOLEAN]

Image == [version : 0..2, objects : SUBSET Objects,
          identity : Identities \cup {Null}, ledger : {"none", "short", "whole"},
          wal : BOOLEAN, rows : [Records -> Record \cup {NoRecord}]]

EmptyStore == [version |-> 0, objects |-> {}, identity |-> Null, ledger |-> "none",
               wal |-> FALSE, rows |-> [r \in Records |-> NoRecord]]

ASSUME SentinelsAssumption ==
    /\ Null \notin Identities /\ Null \notin Openers
    /\ Null \notin Image /\ Absent \notin Image /\ Torn \notin Image
    /\ Null # Torn /\ Null # Absent /\ Absent # Torn
    /\ NoRecord \notin Record

ASSUME CallersAssumption ==
    /\ Setups \subseteq Openers
    /\ Asked \in [Openers -> Identities \cup {Null}]
    /\ \A o \in Setups : Asked[o] # Null       \* minted when none is configured
    /\ InitialStores \subseteq Image \cup {Absent}
    /\ MaxRestarts \in Nat

-----------------------------------------------------------------------------
(* What the statements of an inspection return, read from one image. *)
Look(s) == [version |-> s.version, some |-> s.objects # {},
            metadata |-> "metadata" \in s.objects,
            ledger |-> "migrations" \in s.objects, rest |-> s]

NothingSeen == Look(EmptyStore)

(* A file whose user_version is 0. *)
Unversioned(v) ==
    CASE v.metadata \/ v.ledger -> "partial_migration"
      [] ~v.metadata /\ ~v.ledger /\ ~v.some -> "uninitialized"
      [] ~v.metadata /\ ~v.ledger /\ v.some ->
             IF v.rest.objects = LegacyShape THEN "migration_required" ELSE "shape_drift"

(* A file of the build's version. *)
Versioned(s) ==
    CASE s.identity = Null -> "schema_corrupt"
      [] s.identity # Null /\ s.ledger # "whole" -> "partial_migration"
      [] s.identity # Null /\ s.ledger = "whole" ->
             IF s.objects = CurrentShape THEN "compatible" ELSE "shape_drift"

(***************************************************************************)
(* inspect_connection: the verdict on what was read.                       *)
(***************************************************************************)
InspectConnection(v) ==
    CASE v.version = 0 -> Unversioned(v)
      [] v.version > SchemaVersion -> "schema_newer"
      [] v.version = SchemaVersion ->
             IF v.metadata /\ v.ledger THEN Versioned(v.rest) ELSE "partial_migration"

(* inspect_store: the file as it is on disk, unless it is in WAL mode. *)
InspectStore(s) ==
    CASE s = Absent -> "missing"
      [] s = Torn -> "schema_corrupt"
      [] s \notin {Absent, Torn} ->
             IF s.wal THEN "live_wal_indeterminate" ELSE InspectConnection(Look(s))

(* Mutants of the next definition: an identity the caller names is not     *)
(* compared; a caller that names none is refused.                          *)
VerifyNothing(actual, asked) == TRUE
VerifyExactly(actual, asked) == asked = actual

(* verify_store_binding, and check_identity of `why setup`. *)
VerifyStoreBinding(actual, asked) == asked \in {Null, actual}

(* The committed content: a journal that is not deleted yet holds it. *)
Committed == IF journal = Null THEN image ELSE journal

Sound(s) == s \in Image /\ InspectConnection(Look(s)) = "compatible"

-----------------------------------------------------------------------------
Step(o, from, to) == pc[o] = from /\ pc' = [pc EXCEPT ![o] = to]

(* Mutant: a refused call keeps its transaction, and with it the lock. *)
EndInTransaction(o, how) ==
    /\ pc' = [pc EXCEPT ![o] = "done"]
    /\ outcome' = [outcome EXCEPT ![o] = how]
    /\ UNCHANGED <<work, writer>>

(* The call returns; what a transaction wrote is rolled back. *)
End(o, how) ==
    /\ pc' = [pc EXCEPT ![o] = "done"]
    /\ outcome' = [outcome EXCEPT ![o] = how]
    /\ work' = [work EXCEPT ![o] = Null]
    /\ writer' = IF writer = o THEN Null ELSE writer

Refuse(o, how) == End(o, how) /\ UNCHANGED <<held, seen>>

(* An inspection found the store sound: the caller gets it if its identity *)
(* is the one it names.                                                    *)
OpenBound(o, identity) ==
    \/ /\ VerifyStoreBinding(identity, Asked[o])
       /\ End(o, "opened")
       /\ held' = [held EXCEPT ![o] = identity]
       /\ UNCHANGED seen
    \/ /\ ~VerifyStoreBinding(identity, Asked[o])
       /\ Refuse(o, "identity_mismatch")

Still == UNCHANGED <<image, journal, restarts, origin>>

(***************************************************************************)
(* `why setup` inspects first, and opens only what is missing.             *)
(***************************************************************************)
Setup(o) ==
    /\ pc[o] = "inspect"
    /\ \/ /\ InspectStore(image) = "missing"
          /\ pc' = [pc EXCEPT ![o] = "prepare"]
          /\ UNCHANGED <<writer, seen, work, outcome, held>>
       \/ /\ InspectStore(image) = "compatible"
          /\ seen' = [seen EXCEPT ![o] = Look(image)]
          /\ End(o, IF VerifyStoreBinding(image.identity, Asked[o])
                      THEN "reported" ELSE "identity_mismatch")
          /\ UNCHANGED held
       \/ /\ InspectStore(image) \notin {"missing", "compatible"}
          /\ Refuse(o, InspectStore(image))
    /\ Still

(***************************************************************************)
(* open_with_embedder_and_identity: a path without a file is created only  *)
(* for a caller that names an identity, by a second call that takes the    *)
(* file another process may have made meanwhile.                           *)
(***************************************************************************)
Prepare(o) ==
    /\ pc[o] = "prepare"
    /\ \/ image # Absent /\ pc' = [pc EXCEPT ![o] = "version"]
                         /\ UNCHANGED <<writer, seen, work, outcome, held>>
       \/ image = Absent /\ Asked[o] # Null
            /\ pc' = [pc EXCEPT ![o] = "create"]
            /\ UNCHANGED <<writer, seen, work, outcome, held>>
       \/ image = Absent /\ Asked[o] = Null /\ Refuse(o, "identity_required")
    /\ Still

Create(o) ==
    /\ Step(o, "create", "version")
    /\ image' = IF image = Absent THEN EmptyStore ELSE image
    /\ UNCHANGED <<journal, writer, seen, work, outcome, held, restarts, origin>>

(* A statement can read: no writer is overwriting the file, and a journal  *)
(* a dead writer left has been played back.                                *)
Readable == journal = Null

PlayBack ==
    /\ journal # Null /\ writer = Null
    /\ \E o \in Openers : pc[o] \in {"version", "some", "metadata", "ledger", "rest", "begin"}
    /\ image' = journal
    /\ journal' = Null
    /\ UNCHANGED <<writer, pc, seen, work, outcome, held, restarts, origin>>

(* The first inspection: one statement after the other, no transaction. *)
Read(o, from, to, field) ==
    /\ Readable
    /\ Step(o, from, to)
    /\ seen' = [seen EXCEPT ![o][field] = Look(image)[field]]
    /\ UNCHANGED <<image, journal, writer, work, outcome, held, restarts, origin>>

ReadVersion(o) == Read(o, "version", "some", "version")
CountObjects(o) == Read(o, "some", "metadata", "some")
FindMetadata(o) == Read(o, "metadata", "ledger", "metadata")
FindLedger(o) == Read(o, "ledger", "rest", "ledger")

(* Its last statements, and migrate_with_hook up to the transaction.       *)
FirstVerdict(o) ==
    /\ Readable
    /\ pc[o] = "rest"
    /\ LET v == [seen[o] EXCEPT !.rest = image]
           verdict == InspectConnection(v)
       IN  \/ verdict = "compatible" /\ OpenBound(o, image.identity)
           \/ /\ verdict \in {"uninitialized", "migration_required"}
              /\ pc' = [pc EXCEPT ![o] = "begin"]
              /\ UNCHANGED <<writer, seen, work, outcome, held>>
           \/ /\ verdict \notin {"compatible", "uninitialized", "migration_required"}
              /\ Refuse(o, verdict)
    /\ Still

(* The busy timeout: a failed read is a verdict, a failed BEGIN an error. *)
TimeOut(o) ==
    /\ writer \notin {Null, o}
    /\ \/ pc[o] \in {"version", "some", "metadata", "ledger", "rest"}
            /\ ~Readable /\ Refuse(o, "unreadable")
       \/ pc[o] = "begin" /\ Refuse(o, "busy")
    /\ Still

(* BEGIN IMMEDIATE takes the write lock. *)
Begin(o) ==
    /\ writer = Null /\ Readable
    /\ Step(o, "begin", "locked")
    /\ writer' = o
    /\ work' = [work EXCEPT ![o] = image]
    /\ UNCHANGED <<seen, outcome, held>> /\ Still

(* The second inspection, under the lock. *)
SecondVerdict(o) ==
    /\ pc[o] = "locked"
    /\ LET verdict == InspectConnection(Look(work[o]))
       IN  \/ verdict = "compatible" /\ OpenBound(o, work[o].identity)
           \/ /\ verdict \in {"uninitialized", "migration_required"}
              /\ IF Asked[o] = Null THEN Refuse(o, "identity_required")
                 ELSE /\ pc' = [pc EXCEPT ![o] = "build"]
                      /\ UNCHANGED <<writer, seen, work, outcome, held>>
           \/ /\ verdict \notin {"compatible", "uninitialized", "migration_required"}
              /\ Refuse(o, verdict)
    /\ Still

-----------------------------------------------------------------------------
(* What the migration does to the transaction's image.                     *)
(* A legacy table is rebuilt row by row with its end of validity declared; *)
(* a new one is created; then the tables of the identity.                  *)
Declared(row) == [row EXCEPT !.declared = row.valid_until, !.seal = FALSE]
Built(s) ==
    [s EXCEPT !.objects = (@ \ {"decisions_v0"}) \cup (CurrentShape \ {"guards"}),
              !.rows = [r \in Records |->
                           IF @[r] = NoRecord THEN NoRecord ELSE Declared(@[r])]]

Stored(s) == {r \in Records : s.rows[r] # NoRecord}
CanSeal(s) == "guards" \notin s.objects /\ \A r \in Stored(s) : s.rows[r].sealable

(* Mutant: only the rows whose end of validity is declared are sealed. *)
SealedDeclared(s) ==
    [s EXCEPT !.rows = [r \in Records |->
                 IF r \in Stored(s) /\ @[r].declared THEN [@[r] EXCEPT !.seal = TRUE] ELSE @[r]],
              !.objects = @ \cup {"guards"}]

(* Every row is sealed, and only then the guards that forbid it go up. *)
Sealed(s) ==
    [s EXCEPT !.rows = [r \in Records |->
                 IF r \in Stored(s) THEN [@[r] EXCEPT !.seal = TRUE] ELSE @[r]],
              !.objects = @ \cup {"guards"}]

(* The ledger, the metadata row with the identity, and the version. *)
BoundTo(s, identity) ==
    [s EXCEPT !.ledger = "whole", !.identity = identity, !.version = SchemaVersion]

Build(o) ==
    /\ Step(o, "build", "seal")
    /\ work' = [work EXCEPT ![o] = Built(@)]
    /\ UNCHANGED <<writer, seen, outcome, held>> /\ Still

Seal(o) ==
    /\ pc[o] = "seal"
    /\ \/ /\ CanSeal(work[o])
          /\ pc' = [pc EXCEPT ![o] = "bind"]
          /\ work' = [work EXCEPT ![o] = Sealed(@)]
          /\ UNCHANGED <<writer, seen, outcome, held>>
       \/ ~CanSeal(work[o]) /\ Refuse(o, "not_sealable")
    /\ Still

(* The schema must be the known one, and the result must be inspected as   *)
(* compatible before it is committed.                                      *)
BindIdentity(o) ==
    /\ pc[o] = "bind"
    /\ LET next == BoundTo(work[o], Asked[o])
       IN  \/ /\ work[o].objects = CurrentShape
              /\ InspectConnection(Look(next)) = "compatible"
              /\ pc' = [pc EXCEPT ![o] = "write"]
              /\ work' = [work EXCEPT ![o] = next]
              /\ UNCHANGED <<writer, seen, outcome, held>>
           \/ /\ \/ work[o].objects # CurrentShape
                 \/ InspectConnection(Look(next)) # "compatible"
              /\ Refuse(o, "shape_drift")
    /\ Still

(* Commit: the journal is complete, pages are overwritten in some order... *)
WritePages(o) ==
    /\ Step(o, "write", "commit")
    /\ journal' = image
    /\ image' \in {Torn, work[o]}
    /\ UNCHANGED <<writer, seen, work, outcome, held, restarts, origin>>

(* ... and the journal is deleted. *)
Commit(o) ==
    /\ pc[o] = "commit"
    /\ image' = work[o]
    /\ journal' = Null
    /\ End(o, "opened")
    /\ held' = [held EXCEPT ![o] = work[o].identity]
    /\ UNCHANGED <<seen, restarts, origin>>

-----------------------------------------------------------------------------
(* The process dies, its locks go with it; what it wrote to the file stays. *)
Die(o) ==
    /\ pc[o] \notin {"dead", "done"}
    /\ pc' = [pc EXCEPT ![o] = "dead"]
    /\ work' = [work EXCEPT ![o] = Null]
    /\ writer' = IF writer = o THEN Null ELSE writer
    /\ UNCHANGED <<image, journal, seen, outcome, held, restarts, origin>>

FirstStep(o) == IF o \in Setups THEN "inspect" ELSE "prepare"

(* A process that died, or whose store was closed, runs again. *)
Restart(o) ==
    /\ pc[o] \in {"dead", "done"}
    /\ restarts < MaxRestarts
    /\ restarts' = restarts + 1
    /\ pc' = [pc EXCEPT ![o] = FirstStep(o)]
    /\ seen' = [seen EXCEPT ![o] = NothingSeen]
    /\ held' = [held EXCEPT ![o] = Null]
    /\ outcome' = [outcome EXCEPT ![o] = "none"]
    /\ UNCHANGED <<image, journal, writer, work, origin>>

Init ==
    /\ image \in InitialStores /\ origin = image
    /\ journal = Null /\ writer = Null
    /\ pc = [o \in Openers |-> FirstStep(o)]
    /\ seen = [o \in Openers |-> NothingSeen]
    /\ work = [o \in Openers |-> Null]
    /\ outcome = [o \in Openers |-> "none"]
    /\ held = [o \in Openers |-> Null]
    /\ restarts = 0

(* The steps a running process takes by itself. *)
Proceed(o) ==
    \/ Setup(o) \/ Prepare(o) \/ Create(o)
    \/ ReadVersion(o) \/ CountObjects(o) \/ FindMetadata(o) \/ FindLedger(o)
    \/ FirstVerdict(o) \/ Begin(o) \/ SecondVerdict(o)
    \/ Build(o) \/ Seal(o) \/ BindIdentity(o) \/ WritePages(o) \/ Commit(o)

Next == \/ \E o \in Openers : Proceed(o) \/ TimeOut(o) \/ Die(o) \/ Restart(o)
        \/ PlayBack

(* A running process goes on, and a read that meets a hot journal plays it *)
(* back; nothing makes a process die, time out or start again.             *)
Fairness == /\ \A o \in Openers : WF_vars(Proceed(o))
            /\ WF_vars(PlayBack)
Spec == Init /\ [][Next]_vars /\ Fairness
-----------------------------------------------------------------------------
Steps == {"inspect", "prepare", "create", "version", "some", "metadata", "ledger",
          "rest", "begin", "locked", "build", "seal", "bind", "write", "commit",
          "done", "dead"}

(* The write lock is held by the one process that has a transaction; the   *)
(* journal exists while that process overwrites the file, or once it died. *)
OpenTypeOK ==
    /\ image \in Image \cup {Absent, Torn} /\ journal \in Image \cup {Null}
    /\ pc \in [Openers -> Steps] /\ held \in [Openers -> Identities \cup {Null}]
    /\ \A o \in Openers :
           /\ work[o] \in Image \cup {Null}
           /\ (writer = o) = (pc[o] \in {"locked", "build", "seal", "bind", "write", "commit"})
           /\ (writer = o) = (work[o] # Null)
           /\ pc[o] = "commit" => journal # Null
    /\ image = Torn => journal # Null

(* What an opened store answers to store_identity. *)
StoreIdentity(s) == IF Sound(s) THEN s.identity ELSE Null

(* However opens, migrations and crashes interleave, the store is bound to *)
(* one identity for ever, by an opener that named it, and nobody gets a    *)
(* store bound to another identity than the one it named.                  *)
Binding == INSTANCE StoreBinding WITH bound <- StoreIdentity(Committed)
BindsOnce == Binding!Spec

(* A store that must stay as it is: one the build does not know, or one    *)
(* with a record no seal can cover.                                        *)
MustStay(s) ==
    /\ s # Absent
    /\ \/ InspectConnection(Look(s)) \notin {"uninitialized", "migration_required"}
       \/ \E r \in Stored(s) : ~s.rows[r].sealable

(* A migration happens whole or not at all, wherever a process dies or a   *)
(* record cannot be sealed: what is committed is what was there at first,  *)
(* an empty file, or a sound store with every record of the first one      *)
(* under its end of validity, declared and sealed.                         *)
MigrationIsWhole ==
    \/ Committed = origin
    \/ origin = Absent /\ Committed = EmptyStore
    \/ LET first == IF origin = Absent THEN EmptyStore ELSE origin
       IN  /\ ~MustStay(origin)
           /\ Sound(Committed)
           /\ Stored(Committed) = Stored(first)
           /\ \A r \in Stored(first) :
                  LET row == Committed.rows[r]
                  IN  /\ row.seal
                      /\ row.valid_until = first.rows[r].valid_until
                      /\ row.declared = row.valid_until

(* Every call ends, also when the holder of the lock died in the middle of *)
(* its commit: no lock is left behind and no journal blocks the file.      *)
OpensEnd == \A o \in Openers :
    pc[o] \notin {"done", "dead"} ~> pc[o] \in {"done", "dead"}

(* A store that is bound opens for everyone who names its identity or      *)
(* none, and for nobody else: whoever was refused while the store was      *)
(* being bound gets it by calling again.                                   *)
BoundStoreOpens == \A o \in Openers :
    pc[o] = "prepare" /\ Sound(Committed)
        ~> \/ pc[o] = "dead"
           \/ held[o] # Null /\ Asked[o] \in {Null, held[o]}
           \/ outcome[o] = "identity_mismatch"
              /\ Asked[o] \notin {Null, StoreIdentity(Committed)}

(***************************************************************************)
(* What a test says and the code does not keep.                            *)
(***************************************************************************)
(* The first touch of a new store converges: callers of the same identity  *)
(* all get it, and a caller of another identity than the winner's is told  *)
(* so.  A caller that waits too long for the file may give up.             *)
FirstTouchConverges ==
    origin = Absent => \A o \in Openers :
        pc[o] = "done" => outcome[o] \in {"opened", "reported", "identity_mismatch",
                                         "identity_required", "busy", "unreadable"}
===============================================================================
