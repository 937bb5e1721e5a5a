# A formal model of open-why

open-why keeps records of why code decisions were made in one SQLite file, and
answers exact reads, searches and histories over them. Records are never deleted:
a newer record *supersedes* an older one, and the chains of `superseded_by` are
the history. This directory holds TLA+ modules of that program, the TLC
configurations that model-check them, and machine-checked proofs about them.
Paths such as `db/digest.rs` are under `src/src/`.

## The system and its parts

| Part | State it keeps | Operations | Hard behaviour | What makes it correct |
|---|---|---|---|---|
| Store writes (`db/capture_store.rs`, `digest.rs`, `external_supersession.rs`, `rescope.rs`, `records.rs`) | tables `decisions`, `decision_git_refs`, `feedback_log` | `capture`, `capture_external`, `import_external`, `import_decisions`, `reconcile_external_supersession`, `rescope`, `link_git*`, `feedback` | replays and retries, several predecessors retired at once, bounds on chains, instants at the edge of a second or of the calendar, imported lifecycles | supersession is acyclic, stays in one scope, is written once, closes every validity after its start, leaves one open record per fact; a retry is harmless |
| Exact reads (`db/evidence.rs`) | none; one snapshot per call | `get_current_evidence(_in_scope)`, `get_rationale_history`, `get_commit_links` | chains damaged by imports, cursors used in a later snapshot | a scoped read depends on its scope alone; pages fit together; every captured record resolves |
| Search and ranking (`db/query.rs`, `ranking.rs`, `search.rs`, `relevance.rs`, `answer.rs`) | full-text index kept by triggers | `search*`, `get`, `count_for_scope` | two statements without a common snapshot, comparisons with SQL NULL | what it calls current is current for exact reads |
| Timestamps (`db/time.rs`) | none | `iso_to_epoch`, `epoch_to_iso`, SQLite's `unixepoch` | two parsers with different domains, calendar edges | what is written can be read by both |
| Schema, migration, identity (`db/lifecycle.rs`, `schema.rs`, `compatibility.rs`) | schema, ledger, `store_instance_id`, seals | open, migrate, bind, inspect, backfill | two openers of an unbound store, crash before commit, legacy rows | one identity for ever; all of the migration or nothing |
| Transactions (SQLite; the code never sets a journal mode, so a new store has a rollback journal; busy timeout 5 s) | connections, SQLite's file locks | deferred and immediate transactions | a reader that upgrades to writer, a commit that waits for readers, death inside a transaction | operations are serializable, as the other modules assume; nobody waits for ever |
| Private paths (`private_store_path.rs`) | descriptors of directory and file | `prepare`, `prepare_new`, `open_connection`, `verify_connection_has_not_moved` | names that change between two opens | the connection uses the file that was checked |
| Backup and maintenance (`db/backup.rs`, `bin/maintenance`) | a new destination file | `backup_to`, `verify_integrity` | failure after creation, failure of the clean-up, a source that is written meanwhile | never overwrites; leaves a complete copy of the same identity or no file |
| MCP server (`mcp/`) | one store behind a mutex, a socket | sessions, proxy, tools | check and act in two transactions, stale sockets, replaced files, a panicking handler | a session is answered from the store it was bound to |
| Indexing (`miner.rs`) | none | `mine`, `resolve_repo` | two clients index at once, one commit in two scopes | a record per commit and scope |
| Embeddings, privacy, integration standard, command line, onboarding | configuration files written once | | sequential | |

Interaction: the command line and the MCP handlers call `Store`; every writing
operation of `Store` is one SQLite transaction on the shared file (several
processes may have it open); exact reads take one read transaction per call, a
search several statements; some MCP tools look in one transaction and act in
another; the daemon serialises its sessions by a mutex, other processes are
serialised by SQLite only.

## Modules

| Module | Models | Uses |
|---|---|---|
| `DecisionStore` | the `decisions` table and the operations that write its lifecycle, one action each | |
| `ExactReads` | the reads that follow `superseded_by`, and search's notion of a current record | `DecisionStore` |
| `HistoryReaders` | readers that need several snapshots: paging a history, `why get --historical` | `ExactReads` |
| `EvidenceLinks` | the tables beside `decisions`: commit links and feedback, as operators of a store | `ExactReads` |
| `Tools` | clients at work at once: MCP tools and library calls as the transactions they are made of, under SQLite's locks | `EvidenceLinks`; implements `DecisionStore` |
| `StoreBinding` | abstract: a store is bound to one identity, once | |
| `StoreOpen` | opening, inspecting, migrating and binding a store by several processes that may die | implements `StoreBinding` |
| `StoreFiles` | opening a path whose names change meanwhile; backup and restore | |
| `DaemonSessions` | the daemon, its clients, their bindings and sessions | `StoreFiles` |
| `DecisionStoreProofs`, `StoreOpenProofs`, `ToolsProofs` | theorems about `DecisionStore`, `StoreOpen` and `Tools` | |
| `ExactReadsProofs`, `HistoryReadersProofs` | theorems about the reads and about readers of several snapshots | `DecisionStoreProofs` |
| `CommitListingProofs` | theorem about the listings of commit links in `Tools` | `ToolsProofs` |
| `DaemonSessionsProofs` | theorems about `StoreFiles` and `DaemonSessions` | |
| `MCDecisionStore`, `MCExactReads`, `MCHistoryReaders`, `MCTools`, `MCStoreOpen`, `MCFiles` | small instances for TLC | |

### DecisionStore

`db` maps an identifier to its row, or to `NoRow`. A row has the columns the
lifecycle depends on: scope, decision (kind and title; the sealed payload is one
value), fact key, `valid_from`, `declared_valid_until`, `valid_until`,
`superseded_by`. NULL and the empty text are different values, since the code
treats them differently (`ensure_acyclic_retirement_on` takes both for the end of
a chain, `pending_retirement_time_on` takes the empty text for a successor).

A timestamp is a pair: what the strict `iso_to_epoch` reads and what SQLite's
`unixepoch` reads, either of which may refuse the text. The end of the calendar
(`epoch_to_iso` of an instant after 9999 does not read back) is the bound
`MaxInstant`.

| Action | Code |
|---|---|
| `Capture` | `Store::capture`: digest id, explicit `supersedes` only |
| `CaptureExternal` | `Store::capture_external`: replay check, explicit, same-key and same-title predecessors, `INSERT OR IGNORE`, retirements |
| `ImportExternal` | `Store::import_external`: duplicates in a batch, replay check, rows stored with their lifecycle |
| `ImportDecisions` | `Store::import_decisions`: known ids are skipped |
| `ReconcileExternalSupersession` | the function of that name |
| `Rescope` | `Store::rescope` |

Each operation is one transaction and one action; an error rolls back, so a
refused call is a step that does not happen. `now_epoch` is an input of the
action, any member of `Clock`: nothing in the code needs the clock to move
forward. `Visited` is the walk of `ensure_acyclic_retirement_on` as the least set
closed under the successor relation; this keeps the module free of recursive
operators, so that it can be proved about. `Retirable` is
`pending_retirement_time_on` (already retired by the same successor, or open,
acyclic and with a representable closing instant).

The unique index on (`source_identity`, `content_digest`) is not modelled: with
the ids the write paths mint it follows from the primary key. The digests are
injective here.

### ExactReads

`Walk` is the loop of `get_current_evidence` and of `get_rationale_history`, with
its faults in the code's order (cycle, not found or broken chain, invalid temporal
data, traversal limit); `CurrentEvidence` adds the checks on the last record.
`Searchable` is the WHERE clause shared by `select_decisions`, `get`,
`count_for_scope` and `feedback`, with SQL's three-valued comparison. Reads are
operators of a table, because a call sees one snapshot.

### HistoryReaders

`pager` is a client of `get_rationale_history`: what it asked for, the cursor it
was given, what it has received. Each `Page` reads a fresh snapshot; any limit of
`Limits` may be chosen for each call. `listing` is `supersession_chain`, one
`SELECT` per step. `StoreStep` interleaves every operation of `DecisionStore`.

### EvidenceLinks

A store is a record of the tables one transaction sees: `table` (the decisions),
`links` (`decision_git_refs`: the subject of a record and a commit), `ratings`
(the two columns feedback moves, in hundredths) and `log` (`feedback_log`). A
record is stored with the effectiveness its import row brings, as it is
(`capture_store.rs:372`; the MCP tool refuses one outside 0 to 1, the library
none), and otherwise with the column's default, 0.5; feedback moves it and clamps
the result to 0.01..1. So a rating may lie outside that range until the first
verdict: `Given` are the values rows may bring. An evidence identity is the identifier with what the seal covers, so that a moved
record has another identity. `LinkVerdict` is `link_git_in_scope_inner`,
`WithFeedback` is `Store::feedback`, `LinksPage` one call of `get_commit_links`
(its cursor is the first link of the page it stands for, and must still be linked
in the scope). `Precedes` is the order of identifiers as text; `InOrder` puts a set
of them in that order by the number of members before each.

### Tools

Each client has a `program` of calls, its present `call`, the `phase` the call is
in, what it has `seen` in an earlier transaction and the `plan`: the store as its
transaction leaves it when it commits.

| Action | Code |
|---|---|
| `Look` | what a handler asks before its transaction: `capture_tool`'s scope check, the identity `link_tool` reads, the scope check of `feedback_tool`, `ask_tool`'s count |
| `Begin` | the transaction starts and decides; a deferred one keeps SHARED, an immediate one (links, feedback) takes RESERVED |
| `Write` | the first write of a deferred transaction: RESERVED, or SQLITE_BUSY at once when another has it |
| `Wait`, `Commit` | PENDING keeps new readers out; the commit waits for the old ones |
| `TimeOut`, `Die` | the busy timeout of a wait in vain, the death of a client: both roll back |
| `Search` | candidates and lexical matches, one statement each |
| `ListPage` | one page of commit links |

`stored` is a history variable: the effectiveness each record was stored with.

The calls are the tools of `dispatch_tool` that touch the store, and three
operations of the library a host program may call beside them: `rescope`, `link_git`
and `reconcile_external_supersession` (whose replay is a success that writes nothing).

The call's verdict uses the operators of `DecisionStore` and `EvidenceLinks`, and
`WritesAreSerial == [][Next]_db` says that what is committed is always one of
`DecisionStore`'s operations on the table the commit replaces: this is the
refinement that justifies one action per operation there. A search that finds
nothing is the same step as one that finds records. SQLite's own atomic commit is
a primitive here; `StoreOpen` opens it up.

### StoreOpen and StoreBinding

`image` is the file: absent, torn, or a store image (version, set of schema
objects, identity, ledger, whether it is in WAL mode, rows with seal and declared
end). The set of objects stands for the schema digest.

| Action | Code |
|---|---|
| `Setup` | `why setup`: `inspect_store`, then open only what is missing |
| `Prepare`, `Create` | `open_with_embedder_and_identity` and the private path: create only for a caller that names an identity |
| `ReadVersion` … `FirstVerdict` | `inspect_connection`, a statement at a time, outside a transaction |
| `Begin`, `SecondVerdict` | `BEGIN IMMEDIATE` and the inspection repeated under the lock |
| `Build`, `Seal`, `BindIdentity` | rebuild or create the tables, backfill and seal the rows, write ledger, identity and version, inspect the result |
| `WritePages`, `Commit` | SQLite's commit: the journal holds the old pages while the file is overwritten, then it is deleted |
| `Die`, `PlayBack`, `Restart` | a process dies anywhere, the next connection rolls a hot journal back, the process may run again |
| `TimeOut` | the busy timeout while another process writes |

`StoreBinding` is a register that is bound once, with what each caller holds.
`BindsOnce` is its specification with `bound` replaced by the identity of the
committed content (the journal's, while there is one).

### StoreFiles and DaemonSessions

The steps of a call that reach the file system are the entries of a script (open
by descriptor, check the path, let SQLite open the name, check `HAS_MOVED`,
begin the copy, ...). `Exchange` gives two names each other's files between any
two steps. `CopyCommand` is `why backup` and `why restore`: verification of the
source, `Store::backup_to`, verification of the result. `Cleanup` is
`remove_created_file`, which goes by name.

In `DaemonSessions` a server binds itself to the path and the file under it
(`Configuring`), opens the store again (`Serving`), and the daemon listens, first
with a socket anyone may use, then with a private one. A client that finds a
private endpoint asks the daemon to accept its binding (`Greet`) and forwards;
one that finds none serves itself; one that finds anything else fails.

Every server has a `lock` around its store; the threads of the daemon contend for
the one of the daemon's. A new session takes it to verify the binding (`HAS_MOVED`,
then the file under the name), drops it, and compares the client's binding with its
own without it. A request is read without it; `Check` takes it and verifies the
binding again, `Handle` is `handle_message` and drops it, `Answer` writes the
response without it. A check that fails (`Refuse`) and a handler that panics drop it
too and end the session; a poisoned lock is taken like any other
(`PoisonError::into_inner`). A client that gives up while the daemon verifies for it
leaves that thread to go on, and to find it gone.

## What is checked

| Run | Instance | Shows |
|---|---|---|
| `captures` | 3 external ids and 1 digest id, 2 titles, 1 key, starts at instants 1 and 2 of 0..2, clock 0 or 1, `MaxChain` 3; ids symmetric | `TypeOK`, `NoSupersessionCycle`, `PositiveValidity`, `OneOpenRecordPerFact`, `RetryIsAcceptedAndIdle`, `RetiredRecordIsReadable` |
| `scopes` | 2 scopes, a digest id in each, a mined commit, an imported record, reconciliation, moves in both directions | `SupersessionStaysInScope`, `CapturedRecordsResolve` |
| `damaged` | ten imports that no capture could have written, 2 scopes, captures and reconciliations on top | `LifecycleWriteOnce`, `OnlyImportsCloseCycles`, `RetiredRecordIsReadable`, `ChainsOnlyGrow`, `SearchAgreesWithExactRead`, `ScopedReadIsBlindElsewhere` |
| `paging` | 4 ids, chains up to 3 records, page sizes 1 and 2, a page budget two records may exceed, 2 scopes, linked imports | `PagesFollowTheChain`, `CompleteHistoryIsWhole`, `ListingFollowsTheChain`, `PagingEnds` |
| `open` | 3 openers (one names an identity, one another and runs `why setup`, one none), 9 files to begin with, one restart | `OpenTypeOK`, `BindsOnce` (refinement), `MigrationIsWhole`, `OpensEnd`, `BoundStoreOpens` |
| `files` | on three files and three names: a maintenance command (3 situations), a daemon and a client that start together (2), a daemon that was started before with a client (1) and with two that share its lock (1) | `FilesTypeOK`, `BackupIsWhole`, `BackupWritesOnlyItsFile`, `FailedBackupLeavesNoTrace`, `AnswersComeFromTheBoundFile`, `LockIsHeldInUse`, `RequestsAreAnswered` |
| `server` | 3 clients: every pair of writing tools beside a rescope, and listings, searches and feedback beside writers | `ToolsTypeOK`, `WritesAreSerial` (refinement), `LinkIsAuthorised`, `LinkAnswerHolds`, `FeedbackIsLogged`, `CommitListingIsComplete`, `SearchAnswersAreCurrent`, `CallsEnd` |

Five runs show where the code departs from what it says of itself:

| Run | Said | Shown |
|---|---|---|
| `replay` | replaying a capture is idempotent (`capture_store.rs:104`, `STABILITY.md:61`) | capture e1, capture e2 of the same title (retires e1), capture e1 again: refused with `SupersessionCycle`. With a third record that does not succeed e1, the replay retires that one into e1. `RetryIsAcceptedAndIdle` shows that an immediate retry is safe |
| `reconciled_window` | invalid lifecycle state fails before effect (`external_supersession.rs:6`) | an end equal to the start is accepted; every exact read of the record then fails |
| `current_searchable` | normal search returns current records (`docs/design.md:21`) | a record imported with an empty `superseded_by` or `valid_from` is current for exact reads and invisible to search |
| `first_touch` | callers that race to create one store all get it or an identity mismatch (`tests/store_identity/identity_inspection.rs:125`) | the first inspection reads the version before another process commits its migration and the tables after it: the caller is refused with `partial_migration`; a second call succeeds (`BoundStoreOpens`) |
| `historical_label` | "successor not in store" (`bin/why.rs:273`) | printed when the list was only cut at its cap |

**Bounds.** `MaxChain` (64 in the code) is 3, so the bound of the writes, the
bound of the reads and one record more are all met with three or four
identifiers. Two instants distinguish before, at and after a start; the largest
instant makes a retirement fall out of the calendar. Two scopes are enough to
leave, enter, merge and cross; two titles and one key let predecessors be found
by each alone and by both. Two pages of at most two records with a chain that
grows cover the first, a middle, and the last page. `HistoricalCap` (20) is 3 or 2.

`MaxRestarts` is 1: one process that died, or that closed its store, opens it again
beside two others. `InitialStores` are a missing path, legacy stores (one with a
record that cannot be sealed), bound ones, one in WAL mode, and the kinds the
build refuses. `MaxMoves` is 3: a name leaves, comes back and leaves again, also
between a check and its use. `MaxWrites` and `MaxRequests` are 1: the backup's
properties compare a copy with its source before and after one write, and a
request is judged by the moves since its own check; one request of each of two
clients is enough for one to be refused, or to panic, under the lock the other
waits for. `BackupWritesOnlyItsFile` is
stated for fewer than five exchanges: five of them, each in step with one of the
four checks after the open, lead the copy into another file (seen with `MaxMoves`
5), and the theorem says that it takes that many. `Situations` are a command
whose destination is free or taken and beside which another store, a broken one or
a copy may be renamed in; a daemon with a client, which start with one or two moves
used up (a name may leave and come back, or only leave); a daemon that was started
before and serves a file that has lost the name since to a copy of it, with one client
(the client may bind itself to the copy, and the names come back and go again until the
daemon checks a request of it); and a daemon that was started before with two clients,
which start with one used up. `Programs` in `server` are every pair of a writing tool
with another call, with and without a rescope beside them, and a listing beside two
writers; `PageLimit` (100) is 1, so two links make two pages. `InitialTables` hold
no record, one or two. `Given` is {0, 98}: below the least value a verdict leaves,
and so near the greatest that one verdict is clamped.

**Symmetry** is used in `captures` only, where no liveness is checked and the
external ids are interchangeable.

**Fairness.** `PagingEnds` assumes `WF_vars(Page)`: a client that was given a
cursor asks again; a read waits at most while a writer commits. No fairness is
assumed of writers. `ListRecord` needs none: the listing ends or not without
consequence for a property. In `StoreOpen` a running process goes on
(`WF_vars(Proceed(o))`) and a read that meets a hot journal plays it back
(`WF_vars(PlayBack)`); nothing makes a process die, time out or start again, so
`OpensEnd` needs neither a timeout nor a fair lock. In `DaemonSessions` every
thread goes on, each with its own weak fairness; nobody has to send, to rename or to
die, and the mutex is not assumed to be fair: a client's requests are bounded, so
the others get the lock in the end (without that bound `std::sync::Mutex` promises
nothing, and neither does `RequestsAreAnswered`). Of the two ends of a session only the daemon's death
is modelled: a client that dies is to the daemon an input that ends. In `Tools`
every call goes on (`WF_vars(Works(c))`), timeouts do not have to happen:
`CallsEnd` holds because an upgrade that would wait for another writer is refused
at once.

**Deadlock** is checked in every run but `open`, `files`, `server` and
`first_touch`: a store always accepts some call, whereas opens, commands and the
clients' programs really come to an end.

**Seen in the models, and stated by no property**, since nothing in the repository
promises otherwise: feedback that follows a rescope lands on a record outside the
scope that was named; a search between whose statements a record is replaced may
return neither the old record nor the new; the clean-up of a failed backup goes by
name and may remove another file when the destination was renamed meanwhile; an
inspection with `immutable=1` may report an identity that a hot journal takes
back; a client that comes between the daemon's `bind` and `chmod` gives up; a
capture that meets another writer's lock is told of an internal error although a
retry would succeed; a commit indexed in one scope is skipped in every other.

## What is proved

`DecisionStoreProofs` proves for every value of the constants (any number of
records, scopes, keys, any clock, any imports):

| Theorem | Statement | Assumption |
|---|---|---|
| `TypeCorrect` | `Spec => []TypeOK` | |
| `CyclesComeFromImports` | `Spec => OnlyImportsCloseCycles` | |
| `Acyclic` | `Spec => []NoSupersessionCycle` | imports carry no successor |
| `WrittenOnce` | `Spec => LifecycleWriteOnce` | |
| `StaysInScope` | `Spec => []SupersessionStaysInScope` | imports carry no successor |
| `RetriesAreSafe` | `Spec => []RetryIsAcceptedAndIdle` | |
| `RetiredIsReadable` | `Spec => RetiredRecordIsReadable` | |
| `ValidityIsPositive` | `Spec => []PositiveValidity` | `SoundInputs`: explicit starts read alike by both parsers, imports with sound windows, no reconciliation at the very instant a record may start |
| `OneOpenIsKept` | only an import or a rescope can break `OneOpenRecordPerFact` | |
| `OneOpenRecord` | `Spec => []OneOpenRecordPerFact` | no imports, one scope |

The assumptions are needed: a reconciliation may close an empty window (run
`reconciled_window`), an import may bring a bad one or a second open record, and a
merge of two scopes brings their open records together.

`ExactReadsProofs`, for the same stores read at any instant, and
`HistoryReadersProofs`, for any page limits, weights and caps:

| Theorem | Statement | Assumption |
|---|---|---|
| `SearchAgrees` | `Spec => []SearchAgreesWithExactRead` | |
| `ScopedReadIsBlind` | `Spec => []ScopedReadIsBlindElsewhere` | |
| `ChainsGrow` | `Spec => ChainsOnlyGrow` | |
| `RecordsResolve` | `Spec => []CapturedRecordsResolve` | `SoundInputs`; imports carry no successor, no end of validity, and starts SQLite can read |
| `PagesFollow` | `ReadersSpec => []PagesFollowTheChain` | |
| `ListingFollows` | `ReadersSpec => []ListingFollowsTheChain` | |
| `CompleteIsWhole` | `ReadersSpec => CompleteHistoryIsWhole` | |

An import may bring a cycle, a missing successor or an expired record, which an
exact read rightly refuses: hence the assumptions of `RecordsResolve`, and of no
other theorem here.

`StoreOpenProofs`, for any number of openers, records and restarts and any file to
begin with:

| Theorem | Statement |
|---|---|
| `OpenTypeCorrect` | `Spec => []OpenTypeOK` |
| `MigratesWhole` | `Spec => []MigrationIsWhole` |
| `BindingIsImplemented` | `Spec => BindsOnce` (refinement of `StoreBinding`) |

`ToolsProofs` and `CommitListingProofs`, for any number of clients, any programs of
calls, any page limit and any tables to begin with:

| Theorem | Statement |
|---|---|
| `ToolsTypeCorrect` | `ToolsSpec => []ToolsTypeOK`, one writer included |
| `WritesSerialize` | `ToolsSpec => WritesAreSerial` (every commit is an operation of `DecisionStore`) |
| `LinksAreAuthorised` | `ToolsSpec => LinkIsAuthorised` |
| `LinkAnswersHold` | `ToolsSpec => []LinkAnswerHolds` |
| `FeedbackAddsUp` | `ToolsSpec => []FeedbackIsLogged` |
| `ListingsAreComplete` | `ToolsSpec => []CommitListingIsComplete` |
| `SearchesAreCurrent` | `ToolsSpec => SearchAnswersAreCurrent` |
| `ConcurrentHistory` | `ToolsSpec` implies `OnlyImportsCloseCycles`, `LifecycleWriteOnce`, `RetiredRecordIsReadable` and `ChainsOnlyGrow` |
| `ConcurrentLineage` | clients that find `NoSupersessionCycle`, or `SupersessionStaysInScope`, keep it, if imports carry no successor |
| `ConcurrentCapturesAgree` | only an import or a rescope can break `OneOpenRecordPerFact` |
| `ConcurrentReadsResolve` | clients that find an undamaged store keep `CapturedRecordsResolve` and `PositiveValidity`, under the assumptions of `RecordsResolve` |

`DaemonSessionsProofs`, for any number of clients, files, requests, writes and
exchanges of names, in any situation:

| Theorem | Statement |
|---|---|
| `FilesTypeCorrect` | `Spec => []FilesTypeOK` |
| `AnswersAreBound` | `Spec => []AnswersComeFromTheBoundFile` |
| `LockIsNeverLeft` | `Spec => []LockIsHeldInUse` |
| `BackupsAreWhole` | `Spec => []BackupIsWhole` |
| `BackupKeepsToItsFile` | `Spec => BackupWritesOnlyItsFile` |
| `FailureLeavesNoTrace` | `Spec => FailedBackupLeavesNoTrace` |

The assumptions on the constants are the named `ASSUME`s of the modules, which TLC
evaluates on the runs: sentinels differ from data; the clock is within the
calendar; the limit on chains is at least 2 and there are finitely many
identifiers (texts SQLite bounds), so that the walks the limit counts are finite;
identifiers are totally ordered as text; inputs, programs, files and situations have
the types their callers give them.

*Type correctness* is inductive by itself; the point is the closing instant, which
`RetirementTimeExists` keeps in the calendar.

*Cycles.* A cycle is a `Trap`: a nonempty set of records each superseded by
another member. Suppose a capture leaves a trap `S`. If no record it retired is
in `S`, `S` was a trap before. Otherwise `S` holds the successor, and the part
of `S` the walk from the successor visits (`Visited`) is itself a trap before the
step, because that walk met no predecessor (`WalkExcludesNewTrap`). This is why
checking each predecessor alone, on the table before any of them is retired, is
enough. With imports that carry no successor there is never a trap to begin with.

*Write once* goes row by row: a row is kept, retired, or moved (`KeptRow`,
`StepKeeps`).

*Scopes.* After a capture the successor is stored in the call's scope, new or
replayed (`CaptureStoresInScope`), and its predecessors are in that scope; a move
takes both ends of every link or neither. The invariant is inductive together
with `TypeOK`.

*Retries.* After a capture its own row reads back the start it was stored with, its
predecessors name it as their successor, and nothing open shares its key or title
(`NoSameFactLeft`), so a second call has no walk to make and nothing to retire.

*The chain bound.* What a write checks is a bound on the records `Visited` from the
successor; what a read follows is a number of steps. A record retired by a step
has a successor whose chain was visited within the bound, and none of those
records is retired in the same step, so the record and that chain are what the
next read passes.

*Windows.* A capture ends a record's validity at its own instant, or a second past the
record's start where that is not earlier (`RetirementIsLater`); the other ends are
named by a reconciliation or come with an import, and `SoundInputs` excludes those
that are not later than a start.

*One open record.* A capture that adds an open record with a key has retired every
other open one of that key, scope and kind in the same step; a replay adds none.

*Exact reads.* `Cursors` is the walk as a function of the number of steps made. Every
walk ends at exactly one step (`EndsAt`: a fault, the end of the chain or the
limit), and what it answers follows from there (`WalkAtItsEnd`). Two tables that
agree on what a scope shows are walked alike, step by step (`CursorsAgree`): that is
`ScopedReadIsBlind`, and, since a written successor stays (`KeptRow`), also
`ChainsGrow`. Without cycles a walk meets no record twice, and without links between
scopes it sees all it meets, which leaves `RecordsResolve` only the answers it
allows. The inductions over the number of steps use `Induction`, which speaks of a
set of numbers.

*Histories.* The invariant `ReadersInv` says that what a reader has received is a
beginning of the chain as it is now (`Received`), and that while it goes on, its
cursor is the record behind it (`Expecting`). The store's steps keep it because a
link of a chain is never changed, also when a record is moved to another scope between
two pages: the next page may then be refused, never misplaced. A page that continues
finds its cursor once in the chain it reads (`CursorInChain`).

*Opening.* The invariant `OpenInv` says, for each opener, what its lock and its
transaction are (`LockOf`), what its earlier reads still tell it (`ReadsOf`) and
how far its migration is (`MigrationOf`). It is needed because the first inspection
is spread over statements outside any transaction: what carries over is that a
version seen other than zero is that of the committed content for good. A
transaction that migrates works on what the path held at first, since only one
migration can ever commit; so each stage of it is a function of the first content,
and the committed content is `origin`, an empty store or the finished one. Only
`Commit` changes the bound identity, and it does so for a caller that named one:
that is the refinement of `StoreBinding`.

*Concurrent calls.* The invariant `ToolsInv` says that while a call holds SHARED, its
`plan` is what its transaction would decide again now (`Decided`): it is kept by
the call's own steps, which leave the tables alone, and by everyone else's, since
a commit waits until nobody else holds SHARED. So what a commit installs is an
operation on the table it replaces. It also keeps what `link_tool` read in its
first transaction: the identity's scope is the one the caller named, and
`LinkVerdict` compares it with the record as it is at the commit. What a step of
`DecisionStore` keeps is then kept by concurrent clients (`ConcurrentHistory` and the
theorems after it), from whatever table they begin with: the lemmas about one step
(`StepKeepsAcyclic`, `StepStaysInScope`, `StepKeepsSoundRows`, ...) are used for both
specifications.

*Ratings.* `FeedbackIsLogged` says that a rating is what the log of verdicts, replayed
from its beginning, makes of the effectiveness its record was `stored` with. A commit
of feedback appends one verdict and rerates one record in the same transaction, on
the log and the rating it has read, which `Decided` says are still those of the
store. An import writes ratings as well, but of the records it adds alone: that this
leaves nothing to explain needs the second half of the invariant, `Unjudged` (no
verdict is logged of a record that is not there yet).

*Commit listings.* The links of a page are ordered by rank, and ranks are one to one
with `0 .. n - 1` (`RankIsBijective`). Links are never removed. `Listing` says of a
client with a cursor that it holds, in order and once, every link that was there
from its start and never left the scope, as far as it comes before the cursor; the
cursor is itself the first link of the next page, so a link committed in between
can neither hide one nor bring one twice.

*Files and the daemon.* A process is a place in a script; lemmas such as
`CopyCommandIs` and `ServingIs` say which entries do more than look. `TypeInv` is
inductive. For the daemon, `AnswersInv` adds that who serves is done with its start
(`ServerIsReady`), that a session past the greeting has the daemon's binding
(`SessionIsServed`), and that a check that was passed holds until the next exchange
of names (`CheckedSoFar`). `LockInv` adds to `LockIsHeldInUse` that a session under
the lock has settled how it reaches the store, so that whose lock it is does not
change while it is held. For the copy, `CopyInv` counts: `Displaced` says how many
exchanges the checks passed so far have cost when the connection is of another file
than the one the command created.

Every invariant and every action property of the passing runs is also a theorem.
Only model-checked are the liveness properties (`PagingEnds`, `OpensEnd`,
`BoundStoreOpens`, `RequestsAreAnswered`, `CallsEnd`), since the prover does not
handle fairness and `ENABLED`, and the five runs that end in a counterexample.
Two things shaped the modules: the theorems of the library on induction take an
operator, which the installed provers cannot instantiate, so walks and replays are
recursive functions and their inductions speak of sets of numbers; and `SortSeq` is
evaluated by TLC without a definition a prover could use, so `InOrder` defines its
result.

## Plan

Done: the decision store with its reads, the tools under SQLite's locks, opening
and migration with crashes, the files and the daemon. Next, by importance:

1. The byte budgets of evidence and commit-link pages in `EvidenceLinks`.
2. A store in WAL mode in `Tools`: deferred transactions then fail with a stale
   snapshot instead of a lock conflict.
3. The walk through the parent directories of a store path, symbolic links
   included.

Theorem worth proving next: that the readers of `HistoryReaders` fit their pages
together beside the transactions of `Tools`, which takes a module that composes the
two.

## Not modelled, and why

SQLite in WAL mode (the code sets no journal mode; a store someone else switched is
met only by `inspect_store`), SQLite's atomic commit in `Tools` (a primitive
there), the pages of SQLite's online backup (the copy is one step: that pages copied
beside writers are one snapshot is assumed, not checked), search with an embedder
(`rank` may then return a candidate of the first statement that the lexical one did
not match, and `SearchAnswersAreCurrent` speaks of lexical search only), parent
directories and symbolic links of the store's path, ranking numbers (scores without state), calendar
arithmetic (a sequential function on text), byte budgets of evidence and commit
links. Privacy filter (a predicate evaluated before a write; a refusal changes nothing),
embeddings (a missing vector changes scores only), JSON shapes and the tool
catalogue (data), the integration standard's checks and the golden evaluation
(sequential, no state), onboarding (writes configuration files once), running git
and reading files (I/O). Row fields no guard reads (author, source, tags, dates,
counters) are part of the opaque payload or left out.

`PROJECT.json` lists the components, the runs, a mutation of the model for every
property that breaks it, the source lines of every definition, and the hazards of
the code with the properties that cover them.
