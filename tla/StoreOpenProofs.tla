--------------------------- MODULE StoreOpenProofs ---------------------------
(***************************************************************************)
(* Theorems about StoreOpen, for every value of its constants: any number  *)
(* of processes, identities, records and restarts, any file to begin with. *)
(***************************************************************************)
EXTENDS StoreOpen, TLAPS

-----------------------------------------------------------------------------
(* What the path held at first, once there is a file. *)
First == IF origin = Absent THEN EmptyStore ELSE origin
Migratable(s) == InspectConnection(Look(s)) \in {"uninitialized", "migration_required"}
Finished(o) == BoundTo(Sealed(Built(First)), Asked[o])

Holding == {"locked", "build", "seal", "bind", "write", "commit"}
Working == Holding \ {"locked"}
Looking == {"some", "metadata", "ledger", "rest"}
Views == [version : 0..2, some : BOOLEAN, metadata : BOOLEAN, ledger : BOOLEAN, rest : Image]

Types ==
    /\ image \in Image \cup {Absent, Torn} /\ journal \in Image \cup {Null}
    /\ origin \in Image \cup {Absent}
    /\ writer \in Openers \cup {Null}
    /\ pc \in [Openers -> Steps] /\ held \in [Openers -> Identities \cup {Null}]
    /\ work \in [Openers -> Image \cup {Null}]
    /\ seen \in [Openers -> Views]

(* Who has the lock, and when there is a journal. *)
LockOf(o) ==
    /\ (writer = o) <=> (pc[o] \in Holding)
    /\ (work[o] # Null) <=> (pc[o] \in Holding)
    /\ pc[o] \in Holding => ((pc[o] = "commit") <=> (journal # Null))

(* A process that reads reads a file that was made, and a version it saw   *)
(* is that of the committed content for good.                              *)
ReadsOf(o) ==
    /\ pc[o] \in Looking \cup Holding \cup {"version", "begin"} => image # Absent
    /\ pc[o] \in Looking /\ seen[o].version # 0 => Committed.version = seen[o].version

(* A transaction that migrates works on what was there at first. *)
MigrationOf(o) ==
    /\ pc[o] = "locked" => work[o] = image
    /\ pc[o] \in Working => /\ Migratable(First) /\ Committed = First
                            /\ Asked[o] \in Identities
    /\ pc[o] = "build" => work[o] = First
    /\ pc[o] = "seal" => work[o] = Built(First)
    /\ pc[o] \in {"bind", "write", "commit"} =>
           \A r \in Stored(First) : First.rows[r].sealable
    /\ pc[o] = "bind" => work[o] = Sealed(Built(First))
    /\ pc[o] \in {"write", "commit"} => work[o] = Finished(o) /\ Sound(Finished(o))

File == (image = Torn => journal # Null) /\ (image = Absent => journal = Null)

OpenerInv(o) == LockOf(o) /\ ReadsOf(o) /\ MigrationOf(o)

OpenInv == Types /\ File /\ (\A o \in Openers : OpenerInv(o)) /\ MigrationIsWhole
-----------------------------------------------------------------------------
(* Images. *)
LEMMA EmptyIsImage == EmptyStore \in Image
    BY SentinelsAssumption DEF EmptyStore, Image

LEMMA MigrationSteps ==
    ASSUME NEW s \in Image
    PROVE  /\ Built(s) \in Image
           /\ Sealed(s) \in Image
           /\ \A i \in Identities : BoundTo(s, i) \in Image
<1>1. s.rows \in [Records -> Record \cup {NoRecord}] /\ s.objects \in SUBSET Objects
  BY DEF Image
<1>2. \A r \in Records : s.rows[r] # NoRecord =>
         /\ Declared(s.rows[r]) \in Record
         /\ [s.rows[r] EXCEPT !.seal = TRUE] \in Record
  BY <1>1 DEF Declared, Record
<1>3. Built(s) \in Image
  <2>1. (s.objects \ {"decisions_v0"}) \cup (CurrentShape \ {"guards"}) \in SUBSET Objects
    BY <1>1 DEF CurrentShape, Objects
  <2>2. [r \in Records |-> IF s.rows[r] = NoRecord THEN NoRecord ELSE Declared(s.rows[r])]
          \in [Records -> Record \cup {NoRecord}]
    BY <1>1, <1>2
  <2> QED BY <2>1, <2>2 DEF Built, Image
<1>4. Sealed(s) \in Image
  <2>1. s.objects \cup {"guards"} \in SUBSET Objects
    BY <1>1 DEF CurrentShape, Objects
  <2>2. [r \in Records |-> IF r \in Stored(s) THEN [s.rows[r] EXCEPT !.seal = TRUE] ELSE s.rows[r]]
          \in [Records -> Record \cup {NoRecord}]
    BY <1>1, <1>2 DEF Stored
  <2> QED BY <2>1, <2>2 DEF Sealed, Image
<1>5. ASSUME NEW i \in Identities
      PROVE  BoundTo(s, i) \in Image
  <2>1. [s EXCEPT !.ledger = "whole"] \in Image
    BY DEF Image
  <2>2. [[s EXCEPT !.ledger = "whole"] EXCEPT !.identity = i] \in Image
    BY <2>1 DEF Image
  <2>3. \A t \in Image : [t EXCEPT !.version = 1] \in Image
    BY DEF Image
  <2> QED BY <2>2, <2>3 DEF BoundTo, SchemaVersion
<1> QED BY <1>3, <1>4, <1>5

(* The verdicts of an inspection. *)
LEMMA Verdicts ==
    ASSUME NEW v \in Views
    PROVE  /\ InspectConnection(v) = "compatible" <=>
                 /\ v.version = SchemaVersion /\ v.metadata /\ v.ledger
                 /\ v.rest.identity # Null /\ v.rest.ledger = "whole"
                 /\ v.rest.objects = CurrentShape
           /\ InspectConnection(v) \in {"uninitialized", "migration_required"} =>
                 v.version = 0
<1>1. v.version \in 0..2 /\ v.metadata \in BOOLEAN /\ v.ledger \in BOOLEAN /\ v.some \in BOOLEAN
  BY DEF Views
<1>2. CASE v.version = 0
  BY <1>1, <1>2 DEF InspectConnection, Unversioned, SchemaVersion
<1>3. CASE v.version = 1
  BY <1>1, <1>3 DEF InspectConnection, Versioned, SchemaVersion
<1>4. CASE v.version = 2
  BY <1>1, <1>4 DEF InspectConnection, SchemaVersion
<1> QED BY <1>1, <1>2, <1>3, <1>4

LEMMA LookIsView ==
    ASSUME NEW s \in Image
    PROVE  /\ Look(s) \in Views
           /\ Look(s).version = s.version /\ Look(s).rest = s
           /\ (Look(s).metadata <=> "metadata" \in s.objects)
           /\ (Look(s).ledger <=> "migrations" \in s.objects)
<1> DEFINE v == Look(s)
<1>1. v = [version |-> s.version, some |-> s.objects # {},
           metadata |-> "metadata" \in s.objects,
           ledger |-> "migrations" \in s.objects, rest |-> s]
  BY DEF Look
<1>2. s.version \in 0..2
  BY DEF Image
<1>3. v \in Views
  BY <1>1, <1>2 DEF Views
<1>4. v.metadata = ("metadata" \in s.objects) /\ v.ledger = ("migrations" \in s.objects)
  BY <1>1
<1> HIDE DEF v
<1>5. /\ v.metadata <=> "metadata" \in s.objects
      /\ v.ledger <=> "migrations" \in s.objects
  BY <1>4, Zenon
<1> USE DEF v
<1>6. v.version = s.version /\ v.rest = s
  BY <1>1
<1> QED BY <1>3, <1>4, <1>5, <1>6

LEMMA SoundMeans ==
    ASSUME NEW s \in Image
    PROVE  /\ Sound(s) <=> /\ s.version = SchemaVersion
                           /\ s.identity # Null /\ s.ledger = "whole"
                           /\ s.objects = CurrentShape
           /\ Migratable(s) => s.version = 0 /\ ~Sound(s)
<1> DEFINE v == Look(s)
<1>1. /\ v \in Views /\ v.version = s.version /\ v.rest = s
      /\ (v.metadata <=> "metadata" \in s.objects)
      /\ (v.ledger <=> "migrations" \in s.objects)
  BY LookIsView
<1>2. /\ InspectConnection(v) = "compatible" <=>
             /\ v.version = SchemaVersion /\ v.metadata /\ v.ledger
             /\ v.rest.identity # Null /\ v.rest.ledger = "whole"
             /\ v.rest.objects = CurrentShape
      /\ InspectConnection(v) \in {"uninitialized", "migration_required"} => v.version = 0
  BY <1>1, Verdicts
<1>3. "metadata" \in CurrentShape /\ "migrations" \in CurrentShape
  BY DEF CurrentShape
<1> HIDE DEF v
<1>4. Sound(s) <=> InspectConnection(v) = "compatible"
  BY DEF Sound, v
<1>5. Migratable(s) <=> InspectConnection(v) \in {"uninitialized", "migration_required"}
  BY DEF Migratable, v
<1>6. Migratable(s) => s.version = 0
  BY <1>1, <1>2, <1>5
<1>7. Sound(s) => s.version = 1
  BY <1>1, <1>2, <1>4 DEF SchemaVersion
<1>8. Sound(s) <=> /\ s.version = SchemaVersion
                   /\ s.identity # Null /\ s.ledger = "whole"
                   /\ s.objects = CurrentShape
  BY <1>1, <1>2, <1>3, <1>4
<1> QED BY <1>6, <1>7, <1>8

-----------------------------------------------------------------------------
(* What committed content may be, as a predicate of it. *)
IsWhole(c) ==
    /\ ~MustStay(origin)
    /\ Sound(c)
    /\ Stored(c) = Stored(First)
    /\ \A r \in Stored(First) :
           /\ c.rows[r].seal
           /\ c.rows[r].valid_until = First.rows[r].valid_until
           /\ c.rows[r].declared = c.rows[r].valid_until
MayBe(c) == c = origin \/ (origin = Absent /\ c = EmptyStore) \/ IsWhole(c)

LEMMA WholeIsMayBe == MigrationIsWhole <=> MayBe(Committed)
    BY DEF MigrationIsWhole, MayBe, IsWhole, First

LEMMA FirstIsImage ==
    ASSUME Types
    PROVE  First \in Image
    BY EmptyIsImage DEF Types, First

(* What a migration makes of the store it found is whole. *)
LEMMA FinishedIsWhole ==
    ASSUME Types, Migratable(First), \A r \in Stored(First) : First.rows[r].sealable,
           NEW o \in Openers, Asked[o] \in Identities, Sound(Finished(o))
    PROVE  IsWhole(Finished(o)) /\ Finished(o).identity = Asked[o]
<1> DEFINE f == First
           b == Built(f)
           s == Sealed(b)
<1>1. f \in Image /\ b \in Image /\ s \in Image
  BY FirstIsImage, MigrationSteps
<1>2. ~MustStay(origin)
  BY DEF MustStay, Migratable, First
<1>3. /\ f.rows \in [Records -> Record \cup {NoRecord}]
      /\ \A r \in Records : b.rows[r] = IF f.rows[r] = NoRecord THEN NoRecord
                                         ELSE Declared(f.rows[r])
  BY <1>1 DEF Built, Image
<1>4. \A r \in Records : s.rows[r] = IF r \in Stored(b) THEN [b.rows[r] EXCEPT !.seal = TRUE]
                                                      ELSE b.rows[r]
  BY <1>1 DEF Sealed, Image
<1>5. Finished(o).rows = s.rows /\ Finished(o).identity = Asked[o]
  BY <1>1 DEF Finished, BoundTo, Image
<1>6. \A t \in Record : /\ Declared(t) \in Record
                         /\ Declared(t).valid_until = t.valid_until
                         /\ Declared(t).declared = t.valid_until
                         /\ [t EXCEPT !.seal = TRUE] \in Record
                         /\ [t EXCEPT !.seal = TRUE].seal = TRUE
                         /\ [t EXCEPT !.seal = TRUE].valid_until = t.valid_until
                         /\ [t EXCEPT !.seal = TRUE].declared = t.declared
  BY DEF Declared, Record
<1> HIDE DEF f, b, s
<1>7. ASSUME NEW r \in Records, f.rows[r] = NoRecord
      PROVE  s.rows[r] = NoRecord
  BY <1>3, <1>4, <1>7 DEF Stored
<1>8. ASSUME NEW r \in Records, f.rows[r] # NoRecord
      PROVE  /\ s.rows[r] # NoRecord
             /\ s.rows[r].seal = TRUE
             /\ s.rows[r].valid_until = f.rows[r].valid_until
             /\ s.rows[r].declared = s.rows[r].valid_until
  <2>1. f.rows[r] \in Record
    BY <1>3, <1>8
  <2>2. b.rows[r] = Declared(f.rows[r]) /\ b.rows[r] \in Record /\ b.rows[r] # NoRecord
    BY <1>3, <1>6, <1>8, <2>1, SentinelsAssumption
  <2>3. s.rows[r] = [b.rows[r] EXCEPT !.seal = TRUE] /\ s.rows[r] \in Record
    BY <1>4, <1>6, <2>2 DEF Stored
  <2>4. s.rows[r].seal = TRUE
    BY <1>6, <2>2, <2>3
  <2>5. s.rows[r].valid_until = b.rows[r].valid_until /\ s.rows[r].declared = b.rows[r].declared
    BY <1>6, <2>2, <2>3
  <2>6. b.rows[r].valid_until = f.rows[r].valid_until /\ b.rows[r].declared = f.rows[r].valid_until
    BY <1>6, <2>1, <2>2
  <2> QED BY <2>3, <2>4, <2>5, <2>6, SentinelsAssumption
<1>9. Stored(Finished(o)) = Stored(f)
  BY <1>5, <1>7, <1>8 DEF Stored
<1> QED BY <1>2, <1>5, <1>8, <1>9 DEF IsWhole, Stored, f

-----------------------------------------------------------------------------
LEMMA InitInv == Init => OpenInv
<1> SUFFICES ASSUME Init PROVE OpenInv
  OBVIOUS
<1>1. Look(EmptyStore) \in Views
  BY EmptyIsImage, LookIsView
<1>2. Types
  BY <1>1, CallersAssumption DEF Init, Types, NothingSeen, FirstStep, Steps
<1>3. image # Torn /\ File
  BY CallersAssumption, SentinelsAssumption DEF Init, File
<1>4. ASSUME NEW o \in Openers
      PROVE  OpenerInv(o)
  <2>1. pc[o] \in {"inspect", "prepare"} /\ work[o] = Null /\ writer # o
    BY SentinelsAssumption DEF Init, FirstStep
  <2> QED BY <2>1 DEF OpenerInv, LockOf, ReadsOf, MigrationOf, Holding, Looking, Working
<1>5. MigrationIsWhole
  BY WholeIsMayBe DEF Init, MayBe, Committed
<1> QED BY <1>2, <1>3, <1>4, <1>5 DEF OpenInv

(* A step of one opener that leaves the file alone. *)
Leaves == UNCHANGED <<image, journal, origin>>

LEMMA OwnStep ==
    ASSUME OpenInv, Leaves, NEW o \in Openers, NEW to \in Steps,
           pc' = [pc EXCEPT ![o] = to],
           work' \in [Openers -> Image \cup {Null}],
           seen' \in [Openers -> Views],
           held' \in [Openers -> Identities \cup {Null}],
           writer' \in Openers \cup {Null},
           \A q \in Openers \ {o} : /\ work'[q] = work[q] /\ seen'[q] = seen[q]
                                    /\ (writer' = q) <=> (writer = q),
           OpenerInv(o)'
    PROVE  OpenInv'
<1>1. Types'
  BY DEF OpenInv, Types, Leaves
<1>2. File' /\ MigrationIsWhole' /\ First' = First /\ Committed' = Committed
  BY DEF OpenInv, File, Leaves, MigrationIsWhole, Committed, First
<1>3. ASSUME NEW q \in Openers, q # o
      PROVE  OpenerInv(q)'
  <2>1. pc'[q] = pc[q] /\ OpenerInv(q)
    BY <1>3 DEF OpenInv, Types
  <2>2. /\ work'[q] = work[q] /\ seen'[q] = seen[q]
        /\ (writer' = q) <=> (writer = q)
    BY <1>3
  <2>3. LockOf(q)'
    BY <2>1, <2>2 DEF OpenerInv, LockOf, Leaves
  <2>4. ReadsOf(q)'
    BY <2>1, <2>2, <1>2 DEF OpenerInv, ReadsOf, Leaves
  <2>5. MigrationOf(q)'
    BY <2>1, <2>2, <1>2 DEF OpenerInv, MigrationOf, Leaves, Finished
  <2> QED BY <2>3, <2>4, <2>5 DEF OpenerInv
<1> QED BY <1>1, <1>2, <1>3 DEF OpenInv

(* A call that returns or dies. *)
LEMMA Ending ==
    ASSUME OpenInv, Leaves, NEW o \in Openers, NEW to \in {"done", "dead"},
           pc' = [pc EXCEPT ![o] = to],
           work' = [work EXCEPT ![o] = Null],
           writer' = IF writer = o THEN Null ELSE writer,
           seen' \in [Openers -> Views], \A q \in Openers \ {o} : seen'[q] = seen[q],
           held' \in [Openers -> Identities \cup {Null}]
    PROVE  OpenInv'
<1>1. to \in Steps
  BY DEF Steps
<1>2. pc'[o] = to /\ work'[o] = Null /\ writer' # o
  BY SentinelsAssumption DEF OpenInv, Types
<1>3. OpenerInv(o)'
  BY <1>2 DEF OpenerInv, LockOf, ReadsOf, MigrationOf, Holding, Looking, Working
<1>4. work' \in [Openers -> Image \cup {Null}] /\ writer' \in Openers \cup {Null}
  BY DEF OpenInv, Types
<1>5. \A q \in Openers \ {o} : work'[q] = work[q] /\ ((writer' = q) <=> (writer = q))
  BY SentinelsAssumption DEF OpenInv, Types
<1> QED BY <1>1, <1>3, <1>4, <1>5, OwnStep

LEMMA Refusing ==
    ASSUME OpenInv, Leaves, NEW o \in Openers, NEW how, Refuse(o, how)
    PROVE  OpenInv'
<1>1. seen' = seen /\ held' = held
  BY DEF Refuse
<1> QED BY <1>1, Ending DEF Refuse, End, OpenInv, Types

LEMMA OpeningBound ==
    ASSUME OpenInv, Leaves, NEW o \in Openers, NEW i \in Identities, OpenBound(o, i)
    PROVE  OpenInv'
<1>1. CASE Refuse(o, "identity_mismatch")
  BY <1>1, Refusing
<1>2. CASE End(o, "opened") /\ held' = [held EXCEPT ![o] = i] /\ UNCHANGED seen
  BY <1>2, Ending DEF End, OpenInv, Types
<1> QED BY <1>1, <1>2 DEF OpenBound

(* A step to a phase without the lock, in which nothing was read. *)
LEMMA Moving ==
    ASSUME OpenInv, Leaves, NEW o \in Openers,
           NEW to \in {"inspect", "prepare", "create", "version", "begin"},
           pc[o] \notin Holding, to \in {"version", "begin"} => image # Absent,
           pc' = [pc EXCEPT ![o] = to],
           UNCHANGED <<writer, work>>,
           seen' \in [Openers -> Views], \A q \in Openers \ {o} : seen'[q] = seen[q],
           held' \in [Openers -> Identities \cup {Null}]
    PROVE  OpenInv'
<1>1. to \in Steps
  BY DEF Steps
<1>2. pc'[o] = to /\ LockOf(o)
  BY DEF OpenInv, Types, OpenerInv
<1>3. OpenerInv(o)'
  BY <1>2 DEF OpenerInv, LockOf, ReadsOf, MigrationOf, Holding, Looking, Working, Leaves
<1> QED BY <1>1, <1>3, OwnStep DEF OpenInv, Types

LEMMA SetupKeeps ==
    ASSUME OpenInv, NEW o \in Openers, Setup(o)
    PROVE  OpenInv'
<1>1. Leaves /\ pc[o] = "inspect"
  BY DEF Setup, Still, Leaves
<1>2. CASE /\ InspectStore(image) = "missing"
           /\ pc' = [pc EXCEPT ![o] = "prepare"]
           /\ UNCHANGED <<writer, seen, work, outcome, held>>
  BY <1>1, <1>2, Moving DEF OpenInv, Types, Holding
<1>3. CASE /\ InspectStore(image) = "compatible"
           /\ seen' = [seen EXCEPT ![o] = Look(image)]
           /\ \E how : End(o, how)
           /\ UNCHANGED held
  <2>1. image \in Image
    BY <1>3 DEF InspectStore, OpenInv, Types
  <2>2. Look(image) \in Views
    BY <2>1, LookIsView
  <2>3. seen' \in [Openers -> Views] /\ \A q \in Openers \ {o} : seen'[q] = seen[q]
    BY <1>3, <2>2 DEF OpenInv, Types
  <2>4. held' \in [Openers -> Identities \cup {Null}]
    BY <1>3 DEF OpenInv, Types
  <2> QED BY <1>1, <1>3, <2>3, <2>4, Ending DEF End
<1>4. CASE Refuse(o, InspectStore(image))
  BY <1>1, <1>4, Refusing
<1> QED BY <1>2, <1>3, <1>4 DEF Setup

LEMMA PrepareKeeps ==
    ASSUME OpenInv, NEW o \in Openers, Prepare(o)
    PROVE  OpenInv'
<1>1. Leaves /\ pc[o] = "prepare"
  BY DEF Prepare, Still, Leaves
<1>2. CASE Refuse(o, "identity_required")
  BY <1>1, <1>2, Refusing
<1>3. CASE /\ \/ image # Absent /\ pc' = [pc EXCEPT ![o] = "version"]
              \/ pc' = [pc EXCEPT ![o] = "create"]
           /\ UNCHANGED <<writer, seen, work, outcome, held>>
  BY <1>1, <1>3, Moving DEF OpenInv, Types, Holding
<1> QED BY <1>2, <1>3 DEF Prepare

(* The one step besides a commit that changes what is committed: an absent *)
(* file becomes an empty one, when nobody has read anything yet.           *)
LEMMA CreateKeeps ==
    ASSUME OpenInv, NEW o \in Openers, Create(o)
    PROVE  OpenInv' /\ (image # Absent => Leaves) /\ image' \in Image \cup {Torn}
<1>1. /\ pc[o] = "create" /\ pc' = [pc EXCEPT ![o] = "version"]
      /\ image' = IF image = Absent THEN EmptyStore ELSE image
      /\ UNCHANGED <<journal, writer, seen, work, outcome, held, origin>>
  BY DEF Create, Step
<1>2. image' # Absent /\ image' \in Image \cup {Torn}
  BY <1>1, EmptyIsImage, SentinelsAssumption DEF OpenInv, Types
<1>3. Types'
  BY <1>1, <1>2 DEF OpenInv, Types, Steps
<1>4. pc'[o] = "version" /\ \A q \in Openers \ {o} : pc'[q] = pc[q]
  BY <1>1 DEF OpenInv, Types
<1>5. File' /\ First' = First
  BY <1>1, <1>2, EmptyIsImage, SentinelsAssumption DEF OpenInv, File, First
<1>6. CASE image # Absent
  <2>1. Leaves
    BY <1>1, <1>6 DEF Leaves
  <2> QED BY <1>1, <1>2, <1>6, <2>1, Moving DEF OpenInv, Types, Holding
<1>7. CASE image = Absent
  <2>1. /\ journal = Null /\ Committed = Absent /\ Committed' = EmptyStore
        /\ origin = Absent
    BY <1>1, <1>7, EmptyIsImage, SentinelsAssumption, WholeIsMayBe
    DEF OpenInv, File, Committed, MayBe, IsWhole, Sound
  <2>2. MigrationIsWhole'
    BY <1>1, <2>1 DEF MigrationIsWhole
  <2>3. ASSUME NEW q \in Openers
        PROVE  OpenerInv(q)'
    <3>1. /\ pc[q] \notin Looking \cup Holding \cup {"version", "begin"}
          /\ pc'[q] \notin Looking \cup Holding
          /\ writer' = writer /\ work' = work
      BY <1>1, <1>4, <1>7 DEF OpenInv, OpenerInv, ReadsOf, Looking, Holding
    <3>2. LockOf(q)'
      BY <3>1 DEF OpenInv, OpenerInv, LockOf
    <3>3. ReadsOf(q)' /\ MigrationOf(q)'
      BY <1>2, <3>1 DEF ReadsOf, MigrationOf, Working, Holding, Looking
    <3> QED BY <3>2, <3>3 DEF OpenerInv
  <2>4. OpenInv'
    BY <1>3, <1>5, <2>2, <2>3 DEF OpenInv
  <2> QED BY <1>2, <1>7, <2>4
<1> QED BY <1>1, <1>2, <1>6, <1>7 DEF Leaves

(* What a statement reads is committed content. *)
LEMMA ReadableImage ==
    ASSUME OpenInv, NEW o \in Openers, Readable,
           pc[o] \in Looking \cup {"version", "begin"}
    PROVE  image \in Image /\ Committed = image
    BY SentinelsAssumption
    DEF OpenInv, Types, File, OpenerInv, ReadsOf, Readable, Committed

LEMMA ReadKeeps ==
    ASSUME OpenInv, NEW o \in Openers,
           ReadVersion(o) \/ CountObjects(o) \/ FindMetadata(o) \/ FindLedger(o)
    PROVE  OpenInv'
<1>1. PICK to \in Looking :
         /\ Readable /\ Leaves
         /\ pc[o] \in Looking \cup {"version"}
         /\ pc' = [pc EXCEPT ![o] = to]
         /\ UNCHANGED <<writer, work, held>>
         /\ \/ pc[o] = "version"
               /\ seen' = [seen EXCEPT ![o].version = Look(image).version]
            \/ pc[o] \in Looking
               /\ \/ seen' = [seen EXCEPT ![o].some = Look(image).some]
                  \/ seen' = [seen EXCEPT ![o].metadata = Look(image).metadata]
                  \/ seen' = [seen EXCEPT ![o].ledger = Look(image).ledger]
  BY DEF ReadVersion, CountObjects, FindMetadata, FindLedger, Read, Step, Looking, Leaves
<1>2. image \in Image /\ Committed = image /\ image # Absent
  BY <1>1, ReadableImage, SentinelsAssumption
<1>3. Look(image) \in Views /\ Look(image).version = image.version
  BY <1>2, LookIsView
<1>4. seen[o] \in Views
  BY DEF OpenInv, Types
<1>5. seen' \in [Openers -> Views] /\ \A q \in Openers \ {o} : seen'[q] = seen[q]
  <2>1. /\ [seen[o] EXCEPT !.version = Look(image).version] \in Views
        /\ [seen[o] EXCEPT !.some = Look(image).some] \in Views
        /\ [seen[o] EXCEPT !.metadata = Look(image).metadata] \in Views
        /\ [seen[o] EXCEPT !.ledger = Look(image).ledger] \in Views
    BY <1>3, <1>4 DEF Views
  <2> QED BY <1>1, <2>1 DEF OpenInv, Types
<1>6. \/ seen'[o].version = image.version
      \/ pc[o] \in Looking /\ seen'[o].version = seen[o].version
  BY <1>1, <1>3, <1>4 DEF OpenInv, Types, Views
<1>7. Committed' = Committed /\ pc'[o] = to
  BY <1>1 DEF Committed, Leaves, OpenInv, Types
<1>8. OpenerInv(o)'
  <2>1. pc[o] \notin Holding /\ to \notin Holding
    BY <1>1 DEF Holding, Looking
  <2>2. LockOf(o)'
    BY <1>1, <1>7, <2>1 DEF OpenInv, OpenerInv, LockOf
  <2>3. ReadsOf(o)'
    BY <1>1, <1>2, <1>6, <1>7 DEF OpenInv, OpenerInv, ReadsOf, Leaves
  <2>4. MigrationOf(o)'
    BY <1>7, <2>1 DEF MigrationOf, Holding, Working
  <2> QED BY <2>2, <2>3, <2>4 DEF OpenerInv
<1>9. to \in Steps
  BY DEF Looking, Steps
<1> QED BY <1>1, <1>5, <1>8, <1>9, OwnStep DEF OpenInv, Types

(* A first inspection that finds the store sound, by statements of several *)
(* moments, is right: the version it saw first is still that of the file.  *)
LEMMA FirstInspection ==
    ASSUME OpenInv, NEW o \in Openers, Readable, pc[o] = "rest",
           InspectConnection([seen[o] EXCEPT !.rest = image]) = "compatible"
    PROVE  Sound(image) /\ Committed = image /\ image.identity \in Identities
<1> DEFINE v == [seen[o] EXCEPT !.rest = image]
<1>1. image \in Image /\ Committed = image
  BY ReadableImage DEF Looking
<1>2. seen[o] \in Views
  BY DEF OpenInv, Types
<1>3. v \in Views /\ v.rest = image /\ v.version = seen[o].version
  BY <1>1, <1>2 DEF Views
<1>4. /\ seen[o].version = 1
      /\ image.identity # Null /\ image.ledger = "whole"
      /\ image.objects = CurrentShape
  BY <1>3, Verdicts DEF SchemaVersion
<1>5. image.version = 1
  BY <1>1, <1>4 DEF OpenInv, OpenerInv, ReadsOf, Looking
<1>6. image.identity \in Identities
  BY <1>1, <1>4 DEF Image
<1> QED BY <1>1, <1>4, <1>5, <1>6, SoundMeans DEF SchemaVersion

LEMMA FirstVerdictKeeps ==
    ASSUME OpenInv, NEW o \in Openers, FirstVerdict(o)
    PROVE  OpenInv'
<1> DEFINE verdict == InspectConnection([seen[o] EXCEPT !.rest = image])
<1>1. Leaves /\ Readable /\ pc[o] = "rest"
  BY DEF FirstVerdict, Still, Leaves
<1>2. CASE verdict = "compatible" /\ OpenBound(o, image.identity)
  BY <1>1, <1>2, FirstInspection, OpeningBound
<1>3. CASE /\ pc' = [pc EXCEPT ![o] = "begin"]
           /\ UNCHANGED <<writer, seen, work, outcome, held>>
  <2>1. image # Absent
    BY <1>1 DEF OpenInv, OpenerInv, ReadsOf, Looking
  <2> QED BY <1>1, <1>3, <2>1, Moving DEF OpenInv, Types, Holding
<1>4. CASE Refuse(o, verdict)
  BY <1>1, <1>4, Refusing
<1> QED BY <1>2, <1>3, <1>4 DEF FirstVerdict

LEMMA BeginKeeps ==
    ASSUME OpenInv, NEW o \in Openers, Begin(o)
    PROVE  OpenInv'
<1>1. /\ Leaves /\ Readable /\ pc[o] = "begin" /\ writer = Null
      /\ pc' = [pc EXCEPT ![o] = "locked"]
      /\ writer' = o /\ work' = [work EXCEPT ![o] = image]
      /\ UNCHANGED <<seen, held>>
  BY DEF Begin, Step, Still, Leaves
<1>2. image \in Image /\ image # Null
  BY <1>1, ReadableImage, SentinelsAssumption
<1>3. pc'[o] = "locked" /\ work'[o] = image /\ "locked" \in Steps
  BY <1>1 DEF OpenInv, Types, Steps
<1>4. OpenerInv(o)'
  <2>1. LockOf(o)'
    BY <1>1, <1>2, <1>3 DEF LockOf, Holding, Readable, Leaves
  <2>2. ReadsOf(o)' /\ MigrationOf(o)'
    BY <1>1, <1>2, <1>3, SentinelsAssumption DEF ReadsOf, MigrationOf, Leaves, Working, Holding, Looking
  <2> QED BY <2>1, <2>2 DEF OpenerInv
<1>5. work' \in [Openers -> Image \cup {Null}]
  BY <1>1, <1>2 DEF OpenInv, Types
<1>6. \A q \in Openers \ {o} : work'[q] = work[q] /\ ((writer' = q) <=> (writer = q))
  BY <1>1, SentinelsAssumption DEF OpenInv, Types
<1> QED BY <1>1, <1>3, <1>4, <1>5, <1>6, OwnStep DEF OpenInv, Types

-----------------------------------------------------------------------------
(* The holder of the lock. *)
LEMMA HolderState ==
    ASSUME OpenInv, NEW o \in Openers, pc[o] \in Holding \ {"commit"}
    PROVE  /\ writer = o /\ journal = Null /\ image \in Image /\ Committed = image
           /\ work[o] \in Image /\ work[o] # Null
<1>1. /\ writer = o /\ journal = Null /\ work[o] # Null /\ image # Absent
  BY DEF OpenInv, OpenerInv, LockOf, ReadsOf
<1> QED BY <1>1, SentinelsAssumption DEF OpenInv, Types, File, Committed

(* It goes on to the next step of its transaction. *)
LEMMA HolderMoves ==
    ASSUME OpenInv, Leaves, NEW o \in Openers, pc[o] \in Holding \ {"commit"},
           NEW to \in Holding \ {"commit"}, pc' = [pc EXCEPT ![o] = to],
           NEW w \in Image, work' = [work EXCEPT ![o] = w],
           UNCHANGED <<writer, seen, held>>, MigrationOf(o)'
    PROVE  OpenInv'
<1>1. writer = o /\ journal = Null /\ image # Absent
  BY HolderState, SentinelsAssumption
<1>2. pc'[o] = to /\ work'[o] = w /\ w # Null
  BY SentinelsAssumption DEF OpenInv, Types
<1>3. LockOf(o)' /\ ReadsOf(o)'
  BY <1>1, <1>2 DEF LockOf, ReadsOf, Holding, Looking, Leaves
<1>4. to \in Steps /\ work' \in [Openers -> Image \cup {Null}]
  BY DEF Holding, Steps, OpenInv, Types
<1> QED BY <1>3, <1>4, OwnStep DEF OpenInv, Types, OpenerInv

(* The second inspection finds what was there at first, if it finds a      *)
(* store to migrate.                                                       *)
LEMMA SecondVerdictKeeps ==
    ASSUME OpenInv, NEW o \in Openers, SecondVerdict(o)
    PROVE  OpenInv'
<1> DEFINE verdict == InspectConnection(Look(work[o]))
<1>1. Leaves /\ pc[o] = "locked"
  BY DEF SecondVerdict, Still, Leaves
<1>2. image \in Image /\ Committed = image /\ work[o] = image /\ image # Absent
  BY <1>1, HolderState, SentinelsAssumption DEF OpenInv, OpenerInv, MigrationOf, Holding
<1>3. CASE verdict = "compatible" /\ OpenBound(o, work[o].identity)
  <2>1. Sound(image)
    BY <1>2, <1>3 DEF Sound
  <2>2. image.identity \in Identities
    BY <1>2, <2>1, SoundMeans DEF Image
  <2> QED BY <1>1, <1>2, <1>3, <2>2, OpeningBound
<1>4. CASE /\ verdict \in {"uninitialized", "migration_required"} /\ Asked[o] # Null
           /\ pc' = [pc EXCEPT ![o] = "build"]
           /\ UNCHANGED <<writer, seen, work, outcome, held>>
  <2>1. Migratable(image) /\ ~Sound(image)
    BY <1>2, <1>4, SoundMeans DEF Migratable
  <2>2. image = First
    BY <1>2, <2>1, WholeIsMayBe DEF OpenInv, MayBe, IsWhole, First
  <2>3. Asked[o] \in Identities
    BY <1>4, CallersAssumption
  <2>4. pc'[o] = "build" /\ work'[o] = image /\ First' = First /\ Committed' = Committed
    BY <1>1, <1>2, <1>4 DEF OpenInv, Types, Leaves, First, Committed
  <2>5. MigrationOf(o)'
    BY <1>2, <2>1, <2>2, <2>3, <2>4 DEF MigrationOf, Working, Holding
  <2>6. work' = [work EXCEPT ![o] = image]
    BY <1>2, <1>4 DEF OpenInv, Types
  <2> QED BY <1>1, <1>2, <1>4, <2>5, <2>6, HolderMoves DEF Holding
<1>5. CASE \E how : Refuse(o, how)
  BY <1>1, <1>5, Refusing
<1> QED BY <1>3, <1>4, <1>5 DEF SecondVerdict

LEMMA BuildKeeps ==
    ASSUME OpenInv, NEW o \in Openers, Build(o)
    PROVE  OpenInv'
<1>1. /\ Leaves /\ pc[o] = "build" /\ pc' = [pc EXCEPT ![o] = "seal"]
      /\ work' = [work EXCEPT ![o] = Built(work[o])]
      /\ UNCHANGED <<writer, seen, held>>
  BY DEF Build, Step, Still, Leaves
<1>2. /\ Migratable(First) /\ Committed = First /\ Asked[o] \in Identities
      /\ work[o] = First
  BY <1>1 DEF OpenInv, OpenerInv, MigrationOf, Working, Holding
<1>3. Built(First) \in Image
  BY FirstIsImage, MigrationSteps DEF OpenInv
<1>4. /\ pc'[o] = "seal" /\ work'[o] = Built(First)
      /\ First' = First /\ Committed' = Committed
  BY <1>1, <1>2 DEF OpenInv, Types, Leaves, First, Committed
<1>5. MigrationOf(o)'
  BY <1>2, <1>4 DEF MigrationOf, Working, Holding
<1> QED BY <1>1, <1>2, <1>3, <1>5, HolderMoves DEF Holding

LEMMA SealKeeps ==
    ASSUME OpenInv, NEW o \in Openers, Seal(o)
    PROVE  OpenInv'
<1>1. Leaves /\ pc[o] = "seal"
  BY DEF Seal, Still, Leaves
<1>2. CASE Refuse(o, "not_sealable")
  BY <1>1, <1>2, Refusing
<1>3. CASE /\ CanSeal(work[o])
           /\ pc' = [pc EXCEPT ![o] = "bind"]
           /\ work' = [work EXCEPT ![o] = Sealed(work[o])]
           /\ UNCHANGED <<writer, seen, outcome, held>>
  <2>1. /\ Migratable(First) /\ Committed = First /\ Asked[o] \in Identities
        /\ work[o] = Built(First)
    BY <1>1 DEF OpenInv, OpenerInv, MigrationOf, Working, Holding
  <2>2. First \in Image /\ Built(First) \in Image /\ Sealed(Built(First)) \in Image
    BY FirstIsImage, MigrationSteps DEF OpenInv
  <2>3. \A r \in Stored(First) : First.rows[r].sealable
    <3>1. First.rows \in [Records -> Record \cup {NoRecord}]
      BY <2>2 DEF Image
    <3>2. \A r \in Records : Built(First).rows[r] =
             IF First.rows[r] = NoRecord THEN NoRecord ELSE Declared(First.rows[r])
      BY <2>2 DEF Built, Image
    <3>3. \A t \in Record : Declared(t) \in Record /\ Declared(t).sealable = t.sealable
      BY DEF Declared, Record
    <3>4. ASSUME NEW r \in Stored(First)
          PROVE  First.rows[r].sealable
      <4>1. r \in Records /\ First.rows[r] \in Record
        BY <3>1 DEF Stored
      <4>2. /\ Built(First).rows[r] = Declared(First.rows[r])
            /\ Built(First).rows[r] # NoRecord
        BY <3>2, <3>3, <4>1, SentinelsAssumption DEF Stored
      <4>3. Built(First).rows[r].sealable
        BY <1>3, <2>1, <4>1, <4>2 DEF CanSeal, Stored
      <4> QED BY <3>3, <4>1, <4>2, <4>3
    <3> QED BY <3>4
  <2>4. /\ pc'[o] = "bind" /\ work'[o] = Sealed(Built(First))
        /\ First' = First /\ Committed' = Committed
    BY <1>1, <1>3, <2>1 DEF OpenInv, Types, Leaves, First, Committed
  <2>5. MigrationOf(o)'
    BY <2>1, <2>3, <2>4 DEF MigrationOf, Working, Holding
  <2> QED BY <1>1, <1>3, <2>1, <2>2, <2>5, HolderMoves DEF Holding
<1> QED BY <1>2, <1>3 DEF Seal

LEMMA BindIdentityKeeps ==
    ASSUME OpenInv, NEW o \in Openers, BindIdentity(o)
    PROVE  OpenInv'
<1> DEFINE next == BoundTo(work[o], Asked[o])
<1>1. Leaves /\ pc[o] = "bind"
  BY DEF BindIdentity, Still, Leaves
<1>2. CASE Refuse(o, "shape_drift")
  BY <1>1, <1>2, Refusing
<1>3. CASE /\ InspectConnection(Look(next)) = "compatible"
           /\ pc' = [pc EXCEPT ![o] = "write"]
           /\ work' = [work EXCEPT ![o] = next]
           /\ UNCHANGED <<writer, seen, outcome, held>>
  <2>1. /\ Migratable(First) /\ Committed = First /\ Asked[o] \in Identities
        /\ work[o] = Sealed(Built(First))
        /\ \A r \in Stored(First) : First.rows[r].sealable
    BY <1>1 DEF OpenInv, OpenerInv, MigrationOf, Working, Holding
  <2>2. next = Finished(o) /\ next \in Image
    BY <2>1, FirstIsImage, MigrationSteps DEF OpenInv, Finished
  <2>3. Sound(Finished(o))
    BY <1>3, <2>2 DEF Sound
  <2>4. /\ pc'[o] = "write" /\ work'[o] = Finished(o)
        /\ First' = First /\ Committed' = Committed /\ Finished(o)' = Finished(o)
    BY <1>1, <1>3, <2>2 DEF OpenInv, Types, Leaves, First, Committed, Finished
  <2>5. MigrationOf(o)'
    BY <2>1, <2>3, <2>4 DEF MigrationOf, Working, Holding
  <2> QED BY <1>1, <1>3, <2>2, <2>5, HolderMoves DEF Holding
<1> QED BY <1>2, <1>3 DEF BindIdentity

LEMMA WritePagesKeeps ==
    ASSUME OpenInv, NEW o \in Openers, WritePages(o)
    PROVE  OpenInv' /\ Committed' = Committed /\ held' = held
<1>1. /\ pc[o] = "write" /\ pc' = [pc EXCEPT ![o] = "commit"]
      /\ journal' = image /\ image' \in {Torn, work[o]}
      /\ UNCHANGED <<writer, seen, work, held, origin>>
  BY DEF WritePages, Step
<1>2. /\ writer = o /\ journal = Null /\ image \in Image /\ Committed = image
      /\ work[o] \in Image
  BY <1>1, HolderState DEF Holding
<1>3. /\ Committed' = Committed /\ First' = First /\ Finished(o)' = Finished(o)
      /\ image' # Absent /\ journal' # Null
  BY <1>1, <1>2, SentinelsAssumption DEF Committed, First, Finished
<1>4. Types' /\ File'
  BY <1>1, <1>2, <1>3 DEF OpenInv, Types, File, Steps
<1>5. MigrationIsWhole'
  BY <1>1, <1>3 DEF OpenInv, MigrationIsWhole
<1>6. OpenerInv(o)'
  <2>1. pc'[o] = "commit" /\ writer' = o /\ work'[o] = work[o] /\ work[o] # Null
    BY <1>1, <1>2, SentinelsAssumption DEF OpenInv, Types
  <2>2. LockOf(o)' /\ ReadsOf(o)'
    BY <1>3, <2>1 DEF LockOf, ReadsOf, Holding, Looking
  <2>3. MigrationOf(o)'
    BY <1>1, <1>3, <2>1 DEF OpenInv, OpenerInv, MigrationOf, Working, Holding
  <2> QED BY <2>2, <2>3 DEF OpenerInv
<1>7. ASSUME NEW q \in Openers, q # o
      PROVE  OpenerInv(q)'
  <2>1. OpenerInv(q) /\ writer # q
    BY <1>2, <1>7 DEF OpenInv
  <2>2. pc[q] \notin Holding /\ pc'[q] = pc[q] /\ writer' # q /\ work'[q] = work[q] /\ seen'[q] = seen[q]
    BY <1>1, <1>7, <2>1 DEF OpenInv, Types, OpenerInv, LockOf
  <2>3. LockOf(q)' /\ ReadsOf(q)'
    BY <1>3, <2>1, <2>2 DEF OpenerInv, LockOf, ReadsOf
  <2>4. MigrationOf(q)'
    BY <2>2 DEF MigrationOf, Working, Holding
  <2> QED BY <2>3, <2>4 DEF OpenerInv
<1> QED BY <1>1, <1>3, <1>4, <1>5, <1>6, <1>7 DEF OpenInv

(* A commit makes the migrated store the committed one, in one step, and   *)
(* nobody has seen a version of the store before it.                       *)
LEMMA CommitKeeps ==
    ASSUME OpenInv, NEW o \in Openers, Commit(o)
    PROVE  /\ OpenInv'
           /\ ~Sound(Committed) /\ Sound(Committed')
           /\ Asked[o] \in Identities /\ Committed'.identity = Asked[o]
           /\ held' = [held EXCEPT ![o] = Asked[o]]
<1>1. /\ pc[o] = "commit" /\ pc' = [pc EXCEPT ![o] = "done"]
      /\ image' = work[o] /\ journal' = Null
      /\ work' = [work EXCEPT ![o] = Null]
      /\ writer' = IF writer = o THEN Null ELSE writer
      /\ held' = [held EXCEPT ![o] = work[o].identity]
      /\ UNCHANGED <<seen, origin>>
  BY DEF Commit, End
<1>2. /\ OpenerInv(o) /\ writer = o
  BY <1>1 DEF OpenInv, OpenerInv, LockOf, Holding
<1>3. /\ Migratable(First) /\ Committed = First /\ Asked[o] \in Identities
      /\ \A r \in Stored(First) : First.rows[r].sealable
      /\ work[o] = Finished(o) /\ Sound(Finished(o))
  BY <1>1, <1>2 DEF OpenerInv, MigrationOf, Working, Holding
<1>4. IsWhole(work[o]) /\ work[o].identity = Asked[o] /\ work[o] \in Image
  BY <1>3, FinishedIsWhole DEF OpenInv, Sound
<1>5. Committed.version = 0 /\ ~Sound(Committed)
  BY <1>3, FirstIsImage, SoundMeans DEF OpenInv
<1>6. /\ Committed' = work[o] /\ First' = First /\ writer' = Null
      /\ image' \in Image /\ image' # Absent /\ image' # Torn
  BY <1>1, <1>2, <1>4, SentinelsAssumption DEF Committed, First
<1>7. Types' /\ File'
  BY <1>1, <1>3, <1>4, <1>6 DEF OpenInv, Types, File, Steps
<1>8. MigrationIsWhole'
  BY <1>1, <1>4, <1>6 DEF MigrationIsWhole, IsWhole, First
<1>9. ASSUME NEW q \in Openers
      PROVE  OpenerInv(q)'
  <2>1. OpenerInv(q) /\ pc'[q] \notin Holding /\ work'[q] = Null /\ writer' # q
    <3>1. CASE q = o
      BY <1>1, <1>2, <1>6, <3>1, SentinelsAssumption DEF OpenInv, Types, Holding
    <3>2. CASE q # o
      BY <1>1, <1>2, <1>6, <3>2, SentinelsAssumption DEF OpenInv, Types, OpenerInv, LockOf
    <3> QED BY <3>1, <3>2
  <2>2. pc'[q] \in Looking => pc'[q] = pc[q]
    BY <1>1 DEF OpenInv, Types, Looking
  <2>3. ReadsOf(q)'
    BY <1>1, <1>5, <1>6, <2>1, <2>2 DEF OpenerInv, ReadsOf
  <2>4. LockOf(q)' /\ MigrationOf(q)'
    BY <2>1 DEF LockOf, MigrationOf, Working, Holding
  <2> QED BY <2>3, <2>4 DEF OpenerInv
<1>10. OpenInv'
  BY <1>7, <1>8, <1>9 DEF OpenInv
<1>11. Sound(Committed')
  BY <1>3, <1>6
<1> QED BY <1>1, <1>3, <1>4, <1>5, <1>6, <1>10, <1>11

-----------------------------------------------------------------------------
LEMMA PlayBackKeeps ==
    ASSUME OpenInv, PlayBack
    PROVE  OpenInv' /\ Committed' = Committed /\ held' = held
<1>1. /\ journal # Null /\ writer = Null /\ image' = journal /\ journal' = Null
      /\ UNCHANGED <<writer, pc, seen, work, held, origin>>
  BY DEF PlayBack
<1>2. /\ Committed' = Committed /\ First' = First /\ image' \in Image
      /\ image' # Absent /\ image' # Torn
  BY <1>1, SentinelsAssumption DEF OpenInv, Types, Committed, First
<1>3. Types' /\ File' /\ MigrationIsWhole'
  BY <1>1, <1>2 DEF OpenInv, Types, File, MigrationIsWhole
<1>4. ASSUME NEW q \in Openers
      PROVE  OpenerInv(q)'
  <2>1. OpenerInv(q) /\ pc[q] \notin Holding
    BY <1>1, SentinelsAssumption DEF OpenInv, OpenerInv, LockOf
  <2>2. LockOf(q)' /\ ReadsOf(q)' /\ MigrationOf(q)'
    BY <1>1, <1>2, <2>1 DEF OpenerInv, LockOf, ReadsOf, MigrationOf, Working, Holding
  <2> QED BY <2>2 DEF OpenerInv
<1> QED BY <1>1, <1>2, <1>3, <1>4 DEF OpenInv

LEMMA TimeOutKeeps ==
    ASSUME OpenInv, NEW o \in Openers, TimeOut(o)
    PROVE  OpenInv'
<1>1. Leaves /\ \E how : Refuse(o, how)
  BY DEF TimeOut, Still, Leaves
<1> QED BY <1>1, Refusing

LEMMA DieKeeps ==
    ASSUME OpenInv, NEW o \in Openers, Die(o)
    PROVE  OpenInv' /\ Leaves /\ held' = held
<1>1. /\ Leaves /\ pc' = [pc EXCEPT ![o] = "dead"] /\ UNCHANGED <<seen, held>>
      /\ work' = [work EXCEPT ![o] = Null]
      /\ writer' = IF writer = o THEN Null ELSE writer
  BY DEF Die, Leaves
<1> QED BY <1>1, Ending DEF OpenInv, Types

LEMMA RestartKeeps ==
    ASSUME OpenInv, NEW o \in Openers, Restart(o)
    PROVE  OpenInv' /\ Leaves /\ held' = [held EXCEPT ![o] = Null]
<1>1. /\ Leaves /\ pc[o] \in {"dead", "done"}
      /\ pc' = [pc EXCEPT ![o] = FirstStep(o)]
      /\ seen' = [seen EXCEPT ![o] = NothingSeen]
      /\ held' = [held EXCEPT ![o] = Null]
      /\ UNCHANGED <<writer, work>>
  BY DEF Restart, Leaves
<1>2. NothingSeen \in Views
  BY EmptyIsImage, LookIsView DEF NothingSeen
<1>3. seen' \in [Openers -> Views] /\ held' \in [Openers -> Identities \cup {Null}]
  BY <1>1, <1>2 DEF OpenInv, Types
<1>4. FirstStep(o) \in {"inspect", "prepare"}
  BY DEF FirstStep
<1>5. \A q \in Openers \ {o} : seen'[q] = seen[q]
  BY <1>1 DEF OpenInv, Types
<1>6. OpenInv'
  BY <1>1, <1>3, <1>4, <1>5, Moving DEF Holding
<1> QED BY <1>1, <1>6

LEMMA StepKeepsInv == OpenInv /\ [Next]_vars => OpenInv'
<1> SUFFICES ASSUME OpenInv, [Next]_vars PROVE OpenInv'
  OBVIOUS
<1>1. ASSUME NEW o \in Openers, Proceed(o)
      PROVE  OpenInv'
  BY <1>1, SetupKeeps, PrepareKeeps, CreateKeeps, ReadKeeps, FirstVerdictKeeps, BeginKeeps,
     SecondVerdictKeeps, BuildKeeps, SealKeeps, BindIdentityKeeps, WritePagesKeeps,
     CommitKeeps DEF Proceed
<1>2. ASSUME NEW o \in Openers, TimeOut(o) \/ Die(o) \/ Restart(o)
      PROVE  OpenInv'
  BY <1>2, TimeOutKeeps, DieKeeps, RestartKeeps
<1>3. CASE PlayBack
  BY <1>3, PlayBackKeeps
<1>4. CASE UNCHANGED vars
  BY <1>4 DEF vars, OpenInv, Types, File, OpenerInv, LockOf, ReadsOf, MigrationOf,
              MigrationIsWhole, Committed, First, Finished
<1> QED BY <1>1, <1>2, <1>3, <1>4 DEF Next

THEOREM OpenInvariant == Spec => []OpenInv
<1> QED BY InitInv, StepKeepsInv, PTL DEF Spec

(* Types, and who holds the lock and when there is a journal               *)
(* (db/lifecycle.rs: one immediate transaction per migration).             *)
THEOREM OpenTypeCorrect == Spec => []OpenTypeOK
<1>1. OpenInv => OpenTypeOK
  BY DEF OpenInv, Types, File, OpenerInv, LockOf, OpenTypeOK, Holding
<1> QED BY <1>1, OpenInvariant, PTL

(* Wherever openers die, what is committed is what was there at first, an  *)
(* empty new file, or the whole migrated store (db/lifecycle.rs:93).       *)
THEOREM MigratesWhole == Spec => []MigrationIsWhole
<1>1. OpenInv => MigrationIsWhole
  BY DEF OpenInv
<1> QED BY <1>1, OpenInvariant, PTL

-----------------------------------------------------------------------------
(* Refinement: what is committed is the register of StoreBinding.          *)
Bound == StoreIdentity(Committed)

LEMMA BoundMeans ==
    /\ \A s : StoreIdentity(s) \in Identities \cup {Null}
    /\ \A s : Sound(s) => StoreIdentity(s) = s.identity /\ s.identity \in Identities
    /\ \A s : ~Sound(s) => StoreIdentity(s) = Null
<1>1. ASSUME NEW s, Sound(s)
      PROVE  s.identity \in Identities
  <2>1. s \in Image /\ s.identity # Null
    BY <1>1, SoundMeans DEF Sound
  <2> QED BY <2>1 DEF Image
<1> QED BY <1>1 DEF StoreIdentity

LEMMA BindingStarts == Init => Binding!Init
    BY BoundMeans DEF Init, Binding!Init

(* A step that neither commits nor opens or closes a store. *)
LEMMA Stutter ==
    ASSUME Committed' = Committed, held' = held
    PROVE  [Binding!Next]_<<Bound, held>>
    BY DEF Bound, StoreIdentity, Sound

LEMMA LeavesCommitted == Leaves => Committed' = Committed
    BY DEF Leaves, Committed

(* A caller is given a sound store only under the identity it names. *)
LEMMA OpeningBinds ==
    ASSUME Leaves, NEW o \in Openers, Sound(Committed), OpenBound(o, Committed.identity)
    PROVE  [Binding!Next]_<<Bound, held>>
<1>1. CASE Refuse(o, "identity_mismatch")
  BY <1>1, Stutter, LeavesCommitted DEF Refuse
<1>2. CASE /\ VerifyStoreBinding(Committed.identity, Asked[o])
           /\ held' = [held EXCEPT ![o] = Committed.identity]
  <2>1. Bound \in Identities /\ Bound = Committed.identity
    BY BoundMeans DEF Bound
  <2>2. Bound' = Bound
    BY LeavesCommitted DEF Bound, StoreIdentity, Sound
  <2>3. Binding!Open(o)
    BY <1>2, <2>1, <2>2 DEF Binding!Open, VerifyStoreBinding, Bound
  <2> QED BY <2>3 DEF Binding!Next
<1> QED BY <1>1, <1>2 DEF OpenBound

LEMMA ProceedBinds ==
    ASSUME OpenInv, NEW o \in Openers, Proceed(o)
    PROVE  [Binding!Next]_<<Bound, held>>
<1>1. CASE Setup(o) \/ Prepare(o) \/ ReadVersion(o) \/ CountObjects(o) \/ FindMetadata(o)
           \/ FindLedger(o) \/ Begin(o) \/ Build(o) \/ Seal(o) \/ BindIdentity(o)
  <2>1. Leaves /\ held' = held
    BY <1>1 DEF Setup, Prepare, ReadVersion, CountObjects, FindMetadata, FindLedger, Read,
                Begin, Build, Seal, BindIdentity, Refuse, Still, Leaves
  <2> QED BY <2>1, Stutter, LeavesCommitted
<1>2. CASE Create(o)
  <2>1. held' = held /\ journal' = journal
    BY <1>2 DEF Create
  <2>2. CASE image # Absent
    BY <1>2, <2>1, <2>2, CreateKeeps, Stutter, LeavesCommitted
  <2>3. CASE image = Absent
    <3>1. journal = Null /\ Committed = Absent /\ Committed' = EmptyStore
      BY <1>2, <2>1, <2>3 DEF Create, OpenInv, File, Committed
    <3>2. ~Sound(Absent) /\ ~Sound(EmptyStore)
      BY EmptyIsImage, SoundMeans, SentinelsAssumption DEF Sound, EmptyStore
    <3>3. Bound = Null /\ Bound' = Null
      BY <3>1, <3>2, BoundMeans DEF Bound
    <3> QED BY <2>1, <3>3
  <2> QED BY <2>2, <2>3
<1>3. CASE FirstVerdict(o)
  <2> DEFINE verdict == InspectConnection([seen[o] EXCEPT !.rest = image])
  <2>1. Leaves /\ Readable /\ pc[o] = "rest"
    BY <1>3 DEF FirstVerdict, Still, Leaves
  <2>2. CASE verdict = "compatible" /\ OpenBound(o, image.identity)
    BY <2>1, <2>2, FirstInspection, OpeningBinds
  <2>3. CASE held' = held
    BY <2>1, <2>3, Stutter, LeavesCommitted
  <2> QED BY <1>3, <2>2, <2>3 DEF FirstVerdict, Refuse
<1>4. CASE SecondVerdict(o)
  <2>1. Leaves /\ pc[o] = "locked"
    BY <1>4 DEF SecondVerdict, Still, Leaves
  <2>2. Committed = work[o] /\ work[o] \in Image
    BY <2>1, HolderState DEF OpenInv, OpenerInv, MigrationOf, Holding
  <2>3. CASE InspectConnection(Look(work[o])) = "compatible" /\ OpenBound(o, work[o].identity)
    BY <2>1, <2>2, <2>3, OpeningBinds DEF Sound
  <2>4. CASE held' = held
    BY <2>1, <2>4, Stutter, LeavesCommitted
  <2> QED BY <1>4, <2>3, <2>4 DEF SecondVerdict, Refuse
<1>5. CASE WritePages(o)
  BY <1>5, WritePagesKeeps, Stutter
<1>6. CASE Commit(o)
  <2>1. /\ ~Sound(Committed) /\ Sound(Committed')
        /\ Asked[o] \in Identities /\ Committed'.identity = Asked[o]
        /\ held' = [held EXCEPT ![o] = Asked[o]]
    BY <1>6, CommitKeeps
  <2>2. Bound = Null /\ Bound' = Asked[o]
    BY <2>1, BoundMeans DEF Bound
  <2>3. Binding!Bind(o)
    BY <2>1, <2>2 DEF Binding!Bind, Bound
  <2> QED BY <2>3 DEF Binding!Next
<1> QED BY <1>1, <1>2, <1>3, <1>4, <1>5, <1>6 DEF Proceed

LEMMA StepBinds == OpenInv /\ [Next]_vars => [Binding!Next]_<<Bound, held>>
<1> SUFFICES ASSUME OpenInv, [Next]_vars PROVE [Binding!Next]_<<Bound, held>>
  OBVIOUS
<1>1. ASSUME NEW o \in Openers, TimeOut(o) \/ Die(o)
      PROVE  [Binding!Next]_<<Bound, held>>
  <2>1. Leaves /\ held' = held
    BY <1>1 DEF TimeOut, Die, Refuse, Still, Leaves
  <2> QED BY <2>1, Stutter, LeavesCommitted
<1>2. ASSUME NEW o \in Openers, Restart(o)
      PROVE  [Binding!Next]_<<Bound, held>>
  <2>1. Committed' = Committed /\ held' = [held EXCEPT ![o] = Null]
    BY <1>2, RestartKeeps, LeavesCommitted
  <2>2. Bound' = Bound
    BY <2>1 DEF Bound, StoreIdentity, Sound
  <2>3. Binding!Close(o)
    BY <2>1, <2>2 DEF Binding!Close, Bound
  <2> QED BY <2>3 DEF Binding!Next
<1>3. CASE PlayBack
  BY <1>3, PlayBackKeeps, Stutter
<1>4. CASE UNCHANGED vars
  <2>1. Committed' = Committed /\ held' = held
    BY <1>4 DEF vars, Committed
  <2> QED BY <2>1, Stutter
<1> QED BY <1>1, <1>2, <1>3, <1>4, ProceedBinds DEF Next

(* However opens, migrations and deaths interleave, the store is bound to  *)
(* one identity, once, by an opener that named it, and nobody gets a store *)
(* bound to another one (db/lifecycle.rs:62, db/compatibility.rs).         *)
THEOREM BindingIsImplemented == Spec => BindsOnce
<1>1. Init => Binding!Init
  BY BindingStarts
<1>2. OpenInv /\ [Next]_vars => [Binding!Next]_<<Bound, held>>
  BY StepBinds
<1> QED BY <1>1, <1>2, OpenInvariant, PTL DEF Spec, BindsOnce, Binding!Spec, Bound
===============================================================================
