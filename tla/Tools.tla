--------------------------------- MODULE Tools ---------------------------------
(***************************************************************************)
(* Clients of one store at work at the same time: the MCP tools that write *)
(* or that read in several statements (mcp/handlers.rs), the same library  *)
(* calls of the command line (bin/why.rs) and Store::rescope, each as the  *)
(* transactions it is made of, under SQLite's locks.                       *)
(*                                                                         *)
(* The code sets no journal mode: a new store has a rollback journal.  A   *)
(* reading transaction holds SHARED; a writer takes RESERVED beside other  *)
(* readers, and to commit must wait, as PENDING, until they are gone.  A   *)
(* transaction that has read already is refused RESERVED at once when      *)
(* another holds it (SQLITE_BUSY); everyone else waits, up to the busy     *)
(* timeout of 5 seconds.                                                   *)
(*                                                                         *)
(* Captures, imports and rescope begin deferred: they read, decide, and    *)
(* only then write.  Links and feedback begin immediate, after a look at   *)
(* the record in an earlier transaction.                                   *)
(***************************************************************************)
EXTENDS EvidenceLinks

CONSTANTS
    Clients,
    Programs,            \* bound: what the clients do, client -> sequence of calls
    InitialTables,       \* tables the calls may find
    NoCall, NoPlan

VARIABLES
    links, ratings, log, \* the tables beside db
    stored,              \* record -> effectiveness it was stored with (history)
    program,             \* client -> the calls it has yet to make
    call,                \* client -> its call, or the last one
    phase,               \* client -> where the call is
    outcome,             \* client -> what the call returned
    seen,                \* client -> what it read in an earlier transaction
    plan,                \* client -> the store as its transaction leaves it
    page,                \* client -> its listing: cursor, links got
    steady               \* client -> links there since its listing began, in scope

vars == <<db, links, ratings, log, stored, program, call, phase, outcome, seen, plan, page, steady>>

(* The arguments a client may give, as its caller has checked them.        *)
GitRefs == UNION {[commits -> Subjects] : commits \in SUBSET Commits}
Captures == {t \in [tool : {"capture"}, scope : Scopes, decision : Decisions,
                      supersedes : Ids \cup {Null}] :
                 <<t.scope, t.decision>> \in DOMAIN CaptureId}
Calls ==
    Captures
    \cup [tool : {"capture_external"}, id : ExternalIds, scope : Scopes, decision : Decisions,
           valid_from : ValidFroms \cup {Null}, fact_key : Keys \cup {Null},
           supersedes : Ids \cup {Null}]
    \cup {t \in [tool : {"import"}, scope : Scopes, batch : ImportBatches, git_refs : GitRefs,
                   effectiveness : Seq(Given \cup {Null})] :
                 Len(t.effectiveness) = Len(t.batch)}
    \cup [tool : {"index", "ask"}, scope : Scopes, mined : MinedBatches]
    \cup {t \in [tool : {"rescope"}, scope : Scopes, to : Scopes] : t.scope # t.to}
    \cup [tool : {"reconcile"}, id : Ids, successor : Ids, scope : Scopes, until : Retirements]
    \cup [tool : {"link"}, id : Ids, scope : Scopes, commit : Commits, subject : Subjects]
    \cup [tool : {"link_git"}, id : Ids, commit : Commits, subject : Subjects]
    \cup [tool : {"feedback"}, id : Ids, scope : Scopes, helpful : BOOLEAN]
    \cup [tool : {"commit_links"}, scope : Scopes, commit : Commits]
    \cup [tool : {"search"}, scope : Scopes]

ASSUME ProgramsAssumption == Programs \subseteq [Clients -> Seq(Calls)]

(* The tables of the store, as one transaction leaves them. *)
Stores == [table : [Ids -> Row \cup {NoRow}], links : Links,
           ratings : [Ids -> Rating], log : Seq(Verdict)]

ASSUME TablesAssumption == InitialTables \subseteq [Ids -> Row \cup {NoRow}]
ASSUME SentinelsAssumption ==
    /\ NoLink \notin Subjects /\ NoCall \notin Calls /\ NoPlan \notin Stores
    /\ Null \notin {"ok", "not_found"}
-----------------------------------------------------------------------------
Store == [table |-> db, links |-> links, ratings |-> ratings, log |-> log]

(* Mutant: a read lasts no longer than its statement. *)
HoldsWhenWriting(c) == phase[c] \in {"writing", "pending"}

(* Locks. *)
HoldsShared(c) == phase[c] \in {"reading", "writing", "pending"}
Reserved == \E c \in Clients : phase[c] \in {"writing", "pending"}
Pending == \E c \in Clients : phase[c] = "pending"

IsCall(c, tool) == call[c] # NoCall /\ call[c].tool = tool
Deferred == {"capture", "capture_external", "import", "index", "ask", "rescope", "reconcile"}
Immediate == {"link", "feedback", "link_git"}

Ends(c, result) ==
    /\ phase' = [phase EXCEPT ![c] = "done"]
    /\ outcome' = [outcome EXCEPT ![c] = result]
    /\ plan' = [plan EXCEPT ![c] = NoPlan]
Goes(c, to) == phase' = [phase EXCEPT ![c] = to] /\ UNCHANGED <<outcome, plan>>
Tables == UNCHANGED <<db, links, ratings, log, stored>>

Start(c) ==
    /\ phase[c] = "done" /\ program[c] # <<>>
    /\ program' = [program EXCEPT ![c] = Tail(@)]
    /\ call' = [call EXCEPT ![c] = Head(program[c])]
    /\ phase' = [phase EXCEPT ![c] = IF call'[c].tool = "search" THEN "searching" ELSE "called"]
    /\ outcome' = [outcome EXCEPT ![c] = Null]
    /\ seen' = [seen EXCEPT ![c] = Null]
    /\ page' = [page EXCEPT ![c] = [cursor |-> Null, got |-> <<>>]]
    /\ steady' = [steady EXCEPT ![c] = IF call'[c].tool = "commit_links"
                     THEN LinksOf(Store, call'[c].scope, call'[c].commit) ELSE {}]
    /\ Tables /\ UNCHANGED plan

(* What a tool looks at before its transaction: a single statement, or the *)
(* transaction of evidence_identity_in_scope.                              *)
Refusal(c, now) ==
    LET t == call[c] IN
    CASE t.tool \in {"capture", "capture_external"} ->
           IF t.supersedes # Null /\ ~BelongsToScope(Store, t.supersedes, t.scope)
             THEN "scope_mismatch" ELSE Null
      [] t.tool \in {"link", "feedback"} ->
           IF BelongsToScope(Store, t.id, t.scope) THEN Null ELSE "not_found"
      [] OTHER -> Null

Look(c) ==
    /\ phase[c] = "called" /\ call[c].tool \in Deferred \cup Immediate
    /\ ~Pending
    /\ \E now \in Clock :
          \/ Refusal(c, now) # Null /\ Ends(c, Refusal(c, now)) /\ UNCHANGED seen
          \/ /\ Refusal(c, now) = Null
             /\ seen' = [seen EXCEPT ![c] = IF call[c].tool = "link"
                                              THEN Identity(Store, call[c].id) ELSE Null]
             /\ Goes(c, IF call[c].tool = "ask" /\ ~NothingCurrent(Store, call[c].scope, now)
                          THEN "searching" ELSE "ready")
    /\ Tables /\ UNCHANGED <<program, call, page, steady>>

(* What the transaction of a call decides: an error, or the store it will  *)
(* leave.  Each reads the clock once.                                      *)
Reply(result, s) == [result |-> result, store |-> s]
Refused(result) == Reply(result, Store)

CaptureReply(t, now) ==
    IF CaptureAccepts(db, t.scope, t.decision, t.supersedes, now)
      THEN Reply("ok", [Store EXCEPT
               !.table = AfterCapture(db, t.scope, t.decision, t.supersedes, now)])
      ELSE Refused("refused")

CaptureExternalReply(t, now) ==
    LET r == [id |-> t.id, scope |-> t.scope, decision |-> t.decision,
              valid_from |-> t.valid_from, fact_key |-> t.fact_key,
              supersedes |-> t.supersedes]
    IN  IF CaptureExternalAccepts(db, r, now)
          THEN Reply("ok", [Store EXCEPT !.table = AfterCaptureExternal(db, r, now)])
          ELSE Refused("refused")

(* A transition that was made already is rolled back, and successful. *)
ReconcileReply(t) ==
    IF /\ t.id # t.successor
       /\ InScope(db, t.id, t.scope) /\ InScope(db, t.successor, t.scope)
       /\ db[t.id].superseded_by = t.successor /\ db[t.id].valid_until = t.until
      THEN Reply("ok", Store)
    ELSE IF ReconcileAccepts(db, t.id, t.successor, t.scope, t.until)
      THEN Reply("ok", [Store EXCEPT !.table = AfterReconcile(db, t.id, t.successor, t.until)])
      ELSE Refused("refused")

(* What the first row of a record brings as its effectiveness. *)
Brought(t, i) ==
    LET given == t.effectiveness[FirstOf(t.batch, i)] IN IF given = Null THEN Default ELSE given

(* Mutant: the rows of an import rate the records they find, too. *)
ImportedRatingsOfAll(t) ==
    [i \in Ids |-> IF i \in ImportedIds(t.batch) THEN StoredWith(Brought(t, i)) ELSE ratings[i]]

(* It is stored with a new record as it is; one that is there keeps its    *)
(* rating.                                                                 *)
ImportedRatings(t) ==
    [i \in Ids |-> IF i \in ImportedIds(t.batch) /\ ~Exists(db, i)
                     THEN StoredWith(Brought(t, i)) ELSE ratings[i]]

(* The rows of an import bring the commits they are linked to. *)
ImportReply(t) ==
    IF ImportAccepts(db, t.batch)
      THEN Reply("ok", [
               table |-> AfterImport(db, t.batch),
               links |-> [l \in DOMAIN links |->
                   IF links[l] = NoLink /\ l[1] \in ImportedIds(t.batch) /\ l[2] \in DOMAIN t.git_refs
                     THEN t.git_refs[l[2]] ELSE links[l]],
               ratings |-> ImportedRatings(t), log |-> log])
      ELSE Refused("identity_conflict")

LinkReply(c, t) ==
    LET verdict == LinkVerdict(Store, seen[c], t.commit, t.subject)
    IN  IF verdict = "ok" THEN Reply("ok", WithLink(Store, seen[c].id, t.commit, t.subject))
        ELSE Refused(verdict)

FeedbackReply(t, now) ==
    LET after == WithFeedback(Store, t.id, t.helpful, now)
    IN  IF after = Store THEN Refused("not_current") ELSE Reply("ok", after)

ReplyOf(c, now) ==
    LET t == call[c] IN
    CASE t.tool = "capture" -> CaptureReply(t, now)
      [] t.tool = "capture_external" -> CaptureExternalReply(t, now)
      [] t.tool = "reconcile" -> ReconcileReply(t)
      [] t.tool = "import" -> ImportReply(t)
      [] t.tool \in {"index", "ask"} ->
            Reply("ok", [Store EXCEPT !.table = AfterMining(db, t.scope, t.mined)])
      [] t.tool = "rescope" -> Reply("ok", [Store EXCEPT !.table = AfterRescope(db, t.scope, t.to)])
      [] t.tool = "link" -> LinkReply(c, t)
      [] t.tool = "feedback" -> FeedbackReply(t, now)
      [] t.tool = "link_git" -> Reply("ok", WithLink(Store, t.id, t.commit, t.subject))

(* After its transaction, an ask goes on to search. *)
Returns(c, result) ==
    IF call[c].tool = "ask" /\ result = "ok" THEN Goes(c, "searching") ELSE Ends(c, result)

(* Records that are there already are skipped, but the links of an import  *)
(* are inserted in any case, and ignored: that is a write too.             *)
WritesNothing(c, reply) ==
    /\ reply.store = Store
    /\ IsCall(c, "import") /\ reply.result = "ok" => DOMAIN call[c].git_refs = {}

(* The transaction begins and decides.  One that has nothing to write ends *)
(* at once; a deferred one keeps SHARED, an immediate one has RESERVED.    *)
Begin(c) ==
    /\ phase[c] = "ready" /\ ~Pending
    /\ call[c].tool \in Immediate => ~Reserved
    /\ \E now \in Clock :
          LET reply == ReplyOf(c, now) IN
          \/ WritesNothing(c, reply) /\ Returns(c, reply.result)
          \/ /\ ~WritesNothing(c, reply)
             /\ phase' = [phase EXCEPT ![c] =
                            IF call[c].tool \in Deferred THEN "reading" ELSE "writing"]
             /\ plan' = [plan EXCEPT ![c] = reply.store]
             /\ UNCHANGED outcome
    /\ Tables /\ UNCHANGED <<program, call, seen, page, steady>>

(* Mutant: whoever has read waits like everyone else. *)
UpgradeWaits(c) == ~Reserved /\ Goes(c, "writing")

(* Mutant: nobody asks who has RESERVED. *)
UpgradeAnyway(c) == Goes(c, "writing")

(* The first write of a deferred transaction. *)
Upgrade(c) == IF Reserved THEN Ends(c, "busy") ELSE Goes(c, "writing")

Write(c) == /\ phase[c] = "reading" /\ Upgrade(c)
            /\ Tables /\ UNCHANGED <<program, call, seen, page, steady>>

Wait(c) == /\ phase[c] = "writing" /\ Goes(c, "pending")
           /\ Tables /\ UNCHANGED <<program, call, seen, page, steady>>

(* The effectiveness a record is stored with: what its row brings, or the  *)
(* default of the column.                                                  *)
StoredBy(t, i) == IF t.tool = "import" THEN Brought(t, i) ELSE Default

Commit(c) ==
    /\ phase[c] = "pending"
    /\ \A o \in Clients \ {c} : ~HoldsShared(o)
    /\ db' = plan[c].table /\ links' = plan[c].links
    /\ ratings' = plan[c].ratings /\ log' = plan[c].log
    /\ stored' = [i \in Ids |-> IF ~Exists(db, i) /\ Exists(db', i)
                                  THEN StoredBy(call[c], i) ELSE stored[i]]
    /\ IF call[c].tool = "ask"
         THEN /\ phase' = [phase EXCEPT ![c] = "searching"]
              /\ plan' = [plan EXCEPT ![c] = NoPlan]
              /\ UNCHANGED outcome
         ELSE Ends(c, "ok")
    /\ steady' = [o \in Clients |-> {i \in steady[o] : InScope(db', i, call[o].scope)}]
    /\ UNCHANGED <<program, call, seen, page>>

(* The busy timeout of a wait that is still in vain, and the death of a    *)
(* client: the transaction is rolled back.                                 *)
Blocked(c) ==
    \/ phase[c] \in {"called", "ready", "searching", "ranking"} /\ Pending
    \/ phase[c] = "ready" /\ call[c].tool \in Immediate /\ Reserved
    \/ phase[c] = "pending" /\ \E o \in Clients \ {c} : HoldsShared(o)
TimeOut(c) == /\ Blocked(c) /\ Ends(c, "busy")
              /\ Tables /\ UNCHANGED <<program, call, seen, page, steady>>
Die(c) == /\ phase[c] # "done" /\ Ends(c, "died")
          /\ program' = [program EXCEPT ![c] = <<>>]
          /\ Tables /\ UNCHANGED <<call, seen, page, steady>>
-----------------------------------------------------------------------------
(* Mutant: the lexical arm is not filtered, the candidates are. *)
LexicalUnfiltered(sc, now) == {i \in Ids : Exists(db, i)}

(* Both statements of a search, over candidates and over the full-text     *)
(* index, ask for the current records of the scope.                        *)
Candidates(sc, now) == {i \in Ids : Searchable(db, i, now) /\ db[i].scope = sc}
Lexical(sc, now) == {i \in Ids : Searchable(db, i, now) /\ db[i].scope = sc}

(* search_records without an embedder: a record must be among both. *)
Search(c) ==
    /\ ~Pending
    /\ \/ /\ phase[c] = "searching"
          /\ \E now \in Clock :
                seen' = [seen EXCEPT ![c] = Candidates(call[c].scope, now)]
          /\ Goes(c, "ranking")
       \/ /\ phase[c] = "ranking"
          /\ \E now \in Clock : seen' = [seen EXCEPT ![c] = @ \cap Lexical(call[c].scope, now)]
          /\ Ends(c, "ok")
    /\ Tables /\ UNCHANGED <<program, call, page, steady>>

(* A client lists the links of a commit, page by page; each page is one    *)
(* read transaction.                                                       *)
ListPage(c) ==
    /\ phase[c] = "called" /\ call[c].tool = "commit_links" /\ ~Pending
    /\ LET p == LinksPage(Store, call[c].scope, call[c].commit, page[c].cursor) IN
       \/ p.fault # "none" /\ Ends(c, p.fault) /\ UNCHANGED page
       \/ /\ p.fault = "none"
          /\ page' = [page EXCEPT ![c] = [cursor |-> p.next, got |-> @.got \o p.items]]
          /\ IF p.next = Null THEN Ends(c, "ok") ELSE UNCHANGED <<phase, outcome, plan>>
    /\ Tables /\ UNCHANGED <<program, call, seen, steady>>
-----------------------------------------------------------------------------
ToolsInit ==
    /\ db \in InitialTables
    /\ links = [l \in Ids \X Commits |-> NoLink]
    /\ ratings = [i \in Ids |-> StoredWith(Default)] /\ log = <<>>
    /\ stored = [i \in Ids |-> Default]
    /\ program \in Programs
    /\ call = [c \in Clients |-> NoCall]
    /\ phase = [c \in Clients |-> "done"]
    /\ outcome = [c \in Clients |-> Null]
    /\ seen = [c \in Clients |-> Null]
    /\ plan = [c \in Clients |-> NoPlan]
    /\ page = [c \in Clients |-> [cursor |-> Null, got |-> <<>>]]
    /\ steady = [c \in Clients |-> {}]

Works(c) == Look(c) \/ Begin(c) \/ Write(c) \/ Wait(c) \/ Commit(c) \/ Search(c) \/ ListPage(c)
ToolsNext == \E c \in Clients : Start(c) \/ Works(c) \/ TimeOut(c) \/ Die(c)

(* A call goes on; nobody has to make one, to time out or to die. *)
ToolsSpec == ToolsInit /\ [][ToolsNext]_vars /\ \A c \in Clients : WF_vars(Works(c))
-----------------------------------------------------------------------------
(* Properties. *)

(* Types of the state. *)
Phases == {"called", "ready", "reading", "writing", "pending", "searching", "ranking", "done"}
ToolsTypeOK ==
    /\ Store \in Stores
    /\ stored \in [Ids -> Effectiveness]
    /\ phase \in [Clients -> Phases]
    /\ \A c \in Clients : plan[c] # NoPlan <=> phase[c] \in {"reading", "writing", "pending"}
    /\ \A c, o \in Clients :     \* one writer
          c # o => ~(phase[c] \in {"writing", "pending"} /\ phase[o] \in {"writing", "pending"})

(* However the calls interleave and whoever dies, the decisions change     *)
(* only by whole operations of DecisionStore, each on the table it leaves  *)
(* (a refinement): no write is based on a table that has changed since it  *)
(* was read (capture_store.rs, rescope.rs: deferred transactions).         *)
WritesAreSerial == [][Next]_db

(* A link that a caller asked for in a scope is added while the record is  *)
(* in that scope, as it was when its identity was read: a rescope between  *)
(* the two transactions of the tool refuses it (handlers.rs:link_tool,     *)
(* records.rs:link_git_in_scope_inner).                                    *)
LinkIsAuthorised ==
    [][\A c \in Clients :
          IsCall(c, "link") /\ phase[c] = "pending" /\ phase'[c] = "done" /\ outcome'[c] = "ok"
          => InScope(db, call[c].id, call[c].scope)]_<<phase, outcome>>

(* A caller told that its commit is linked under its subject finds it so   *)
(* for good: two callers with different subjects are never both told so,   *)
(* and no import or unscoped link replaces it.                             *)
LinkAnswerHolds ==
    \A c \in Clients : IsCall(c, "link") /\ outcome[c] = "ok" =>
        links[<<call[c].id, call[c].commit>>] = call[c].subject

(* What the verdicts of a log, one after the other, make of the rating of  *)
(* a record that was stored with effectiveness e.                          *)
Rerated(i, r, v) ==
    IF v.id # i THEN r
    ELSE LET moved == IF v.helpful THEN r.effectiveness + 5 ELSE r.effectiveness - 3 IN
         [helped |-> IF v.helpful THEN r.helped + 1 ELSE r.helped,
          effectiveness |-> IF moved > 100 THEN 100 ELSE IF moved < 1 THEN 1 ELSE moved]
RatingFrom(i, e, verdicts) ==
    LET after[n \in 0..Len(verdicts)] ==
            IF n = 0 THEN StoredWith(e) ELSE Rerated(i, after[n - 1], verdicts[n])
    IN  after[Len(verdicts)]

(* The rating of a record is what its logged verdicts, in their order,     *)
(* make of the effectiveness it was stored with: by the row of the import  *)
(* that was first to bring it, else the default.  The update and the log   *)
(* are one step, a verdict on a record that is no longer current leaves    *)
(* neither, and an import that meets a rated record leaves its rating      *)
(* (records.rs:feedback, capture_store.rs:import_external_exact).          *)
FeedbackIsLogged == \A i \in Ids : ratings[i] = RatingFrom(i, stored[i], log)

(* A listing of a commit's links that came to its end holds, in order and  *)
(* once, every link that was there from its start and never left the       *)
(* scope, whatever was linked or moved between its pages                   *)
(* (evidence.rs:get_commit_links).                                         *)
CommitListingIsComplete ==
    \A c \in Clients : IsCall(c, "commit_links") /\ phase[c] = "done" =>
        LET got == page[c].got IN
        /\ outcome[c] = "ok" => steady[c] \subseteq Range(got)
        /\ outcome[c] = "not_found" => steady[c] = {}
        /\ \A i, j \in DOMAIN got : i < j => Precedes(got[i], got[j])
        /\ \A i \in Range(got) : Linked(Store, i, call[c].commit)

(* A search answers with no record that was retired or moved out of the    *)
(* scope between its statements (query.rs:lexical_rowids).                 *)
SearchAnswersAreCurrent ==
    [][\A c \in Clients : phase[c] = "ranking" /\ outcome'[c] = "ok" =>
          \A i \in seen'[c] : InScope(db, i, call[c].scope) /\ db[i].superseded_by = Null
      ]_<<phase, outcome, seen>>

(* Every call ends, even when no wait is ever cut short: no two clients    *)
(* wait for one another (two captures that read before they write, a       *)
(* writer that commits while others read).                                 *)
CallsEnd == \A c \in Clients : phase[c] # "done" ~> phase[c] = "done"
=============================================================================
