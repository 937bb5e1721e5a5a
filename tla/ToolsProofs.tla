------------------------------ MODULE ToolsProofs ------------------------------
(***************************************************************************)
(* Theorems about Tools, for any number of clients and any programs: the   *)
(* locks make the writes of concurrent calls operations of DecisionStore,  *)
(* one after the other, and the answers that were given stay true.         *)
(*                                                                         *)
(* The argument: while a call holds SHARED, what its transaction decided   *)
(* is what it would decide again now, since a commit needs everyone else   *)
(* to have let go.                                                         *)
(***************************************************************************)
EXTENDS Tools, ExactReadsProofs

Writing == {"writing", "pending"}
Holding == {"reading", "writing", "pending"}

(* The invariant: the types, where a call may be, what it has read before  *)
(* its transaction, and what the transaction decided.                      *)
Typed == /\ Store \in Stores
         /\ stored \in [Ids -> Effectiveness]
         /\ program \in [Clients -> Seq(Calls)]
         /\ call \in [Clients -> Calls \cup {NoCall}]
         /\ phase \in [Clients -> Phases]
         /\ DOMAIN outcome = Clients /\ DOMAIN seen = Clients /\ DOMAIN plan = Clients
CallOf(c) ==
    /\ phase[c] # "done" => call[c] \in Calls /\ outcome[c] = Null
    /\ phase[c] \in {"ready"} \cup Holding => call[c].tool \in Deferred \cup Immediate
    /\ phase[c] \in {"searching", "ranking"} => call[c].tool \in {"search", "ask"}
SeenOf(c) ==
    IsCall(c, "link") /\ phase[c] \in {"ready"} \cup Holding =>
        seen[c].id = call[c].id /\ seen[c].seal.scope = call[c].scope
Decided(c) ==
    \E now \in Clock : plan[c] = ReplyOf(c, now).store /\ ReplyOf(c, now).result = "ok"
PlanOf(c) == IF phase[c] \in Holding THEN Decided(c) ELSE plan[c] = NoPlan
OneWriter == \A c, o \in Clients :
                c # o => ~(phase[c] \in Writing /\ phase[o] \in Writing)
ToolsInv ==
    /\ Typed
    /\ \A c \in Clients : CallOf(c) /\ SeenOf(c) /\ PlanOf(c)
    /\ OneWriter
    /\ LinkAnswerHolds

-----------------------------------------------------------------------------
(* The arguments of a call, by its tool. *)
LEMMA CallFields ==
    ASSUME NEW t \in Calls
    PROVE  /\ t.tool = "capture" =>
                 /\ t.scope \in Scopes /\ t.decision \in Decisions
                 /\ t.supersedes \in Ids \cup {Null}
                 /\ <<t.scope, t.decision>> \in DOMAIN CaptureId
           /\ t.tool = "reconcile" => /\ t.id \in Ids /\ t.successor \in Ids
                                      /\ t.scope \in Scopes /\ t.until \in Retirements
           /\ t.tool = "capture_external" =>
                 /\ [id |-> t.id, scope |-> t.scope, decision |-> t.decision,
                     valid_from |-> t.valid_from, fact_key |-> t.fact_key,
                     supersedes |-> t.supersedes] \in ExternalRequest
           /\ t.tool = "import" => /\ t.batch \in ImportBatches /\ t.git_refs \in GitRefs
                                   /\ t.effectiveness \in Seq(Given \cup {Null})
                                   /\ Len(t.effectiveness) = Len(t.batch)
           /\ t.tool \in {"index", "ask"} => t.scope \in Scopes /\ t.mined \in MinedBatches
           /\ t.tool = "rescope" => t.scope \in Scopes /\ t.to \in Scopes /\ t.scope # t.to
           /\ t.tool \in {"link", "link_git"} =>
                 t.id \in Ids /\ t.commit \in Commits /\ t.subject \in Subjects
           /\ t.tool = "link" => t.scope \in Scopes
           /\ t.tool = "feedback" => t.id \in Ids /\ t.scope \in Scopes /\ t.helpful \in BOOLEAN
           /\ t.tool = "commit_links" => t.scope \in Scopes /\ t.commit \in Commits
    BY DEF Calls, Captures, ExternalRequest

(* What an import may link is a subject. *)
LEMMA GitRefsAreSubjects ==
    ASSUME NEW f \in GitRefs, NEW commit \in DOMAIN f
    PROVE  f[commit] \in Subjects
    BY DEF GitRefs

(* What a row brings, or the default, is an effectiveness. *)
LEMMA BroughtIsTyped ==
    ASSUME NEW t \in Calls, t.tool = "import", NEW i \in ImportedIds(t.batch)
    PROVE  Brought(t, i) \in Effectiveness
<1> DEFINE n == FirstOf(t.batch, i)
<1>1. /\ t.batch \in ImportBatches /\ t.effectiveness \in Seq(Given \cup {Null})
      /\ Len(t.effectiveness) = Len(t.batch)
  BY CallFields
<1>2. n \in DOMAIN t.batch /\ t.batch \in Seq([id : Ids, row : Row])
  BY <1>1, FirstOfExists, InputsAssumption
<1> HIDE DEF n
<1>3. t.effectiveness[n] \in Given \cup {Null}
  BY <1>1, <1>2
<1>4. Default \in Effectiveness /\ Given \subseteq Effectiveness
  BY DEF Default, Effectiveness
<1>5. Brought(t, i) = IF t.effectiveness[n] = Null THEN Default ELSE t.effectiveness[n]
  BY DEF Brought, n
<1> QED BY <1>3, <1>4, <1>5

(* The effectiveness of a record that was stored just now. *)
LEMMA StoredByIsTyped ==
    ASSUME NEW t \in Calls, NEW i, t.tool = "import" => i \in ImportedIds(t.batch)
    PROVE  StoredBy(t, i) \in Effectiveness
<1>1. Default \in Effectiveness
  BY DEF Default, Effectiveness
<1> QED BY <1>1, BroughtIsTyped DEF StoredBy

LEMMA MinOfTwo ==
    ASSUME NEW m \in Int, NEW n \in Int
    PROVE  Min({m, n}) = IF m <= n THEN m ELSE n
<1> DEFINE least == IF m <= n THEN m ELSE n
<1>1. least \in {m, n} /\ \A k \in {m, n} : least <= k
  OBVIOUS
<1>2. \A k \in {m, n} : (\A l \in {m, n} : k <= l) => k = least
  OBVIOUS
<1> QED BY <1>1, <1>2 DEF Min

LEMMA MaxOfTwo ==
    ASSUME NEW m \in Int, NEW n \in Int
    PROVE  Max({m, n}) = IF m >= n THEN m ELSE n
<1> DEFINE most == IF m >= n THEN m ELSE n
<1>1. most \in {m, n} /\ \A k \in {m, n} : most >= k
  OBVIOUS
<1>2. \A k \in {m, n} : (\A l \in {m, n} : k >= l) => k = most
  OBVIOUS
<1> QED BY <1>1, <1>2 DEF Max

-----------------------------------------------------------------------------
(***************************************************************************)
(* What a transaction may decide: a store.                                 *)
(***************************************************************************)
LEMMA StoreFields ==
    ASSUME Store \in Stores
    PROVE  /\ db \in Table /\ TypeOK /\ links \in Links
           /\ ratings \in [Ids -> Rating] /\ log \in Seq(Verdict)
<1>1. Store = [table |-> db, links |-> links, ratings |-> ratings, log |-> log]
  BY DEF Store
<1> QED BY <1>1 DEF Stores, Table, TypeOK

LEMMA FieldsStore ==
    ASSUME NEW t \in Table, NEW l \in Links, NEW r \in [Ids -> Rating], NEW v \in Seq(Verdict)
    PROVE  [table |-> t, links |-> l, ratings |-> r, log |-> v] \in Stores
    BY DEF Stores, Table

LEMMA RetirementIsTyped ==
    ASSUME db \in Table, NEW id \in Ids, NEW row \in Row, NEW sc \in Scopes, NEW now \in Clock,
           NEW preds \in SUBSET Ids, \A p \in preds : Retirable(db, p, sc, id, now)
    PROVE  Retire(Insert(db, id, row), preds, id, now) \in Table
<1> DEFINE d == Insert(db, id, row)
<1>1. d \in Table /\ \A p \in preds : d[p] = db[p]
  BY InsertKeeps DEF Retirable, InScope
<1>2. ASSUME NEW p \in preds \cap Ids, d[p].superseded_by = Null
      PROVE  d[p] \in Row /\ Whole(RetirementTime(d[p], now)) \in Text
  BY <1>1, <1>2, RetirementIsInstant
<1> HIDE DEF d
<1>3. Retire(d, preds, id, now) \in Table
  BY <1>1, <1>2, RetireType
<1> QED BY <1>3 DEF d

LEMMA CaptureIsTyped ==
    ASSUME db \in Table, NEW sc \in Scopes, NEW decision \in Decisions,
           NEW supersedes \in Ids \cup {Null}, NEW now \in Clock,
           <<sc, decision>> \in DOMAIN CaptureId,
           CaptureAccepts(db, sc, decision, supersedes, now)
    PROVE  AfterCapture(db, sc, decision, supersedes, now) \in Table
<1>1. CaptureId[<<sc, decision>>] \in Ids
  BY InputsAssumption
<1>2. CapturedRow(sc, decision) \in Row
  BY NewRowType DEF CapturedRow
<1> QED BY <1>1, <1>2, RetirementIsTyped DEF CaptureAccepts, AfterCapture

LEMMA CaptureExternalIsTyped ==
    ASSUME db \in Table, NEW r \in ExternalRequest, NEW now \in Clock,
           CaptureExternalAccepts(db, r, now)
    PROVE  AfterCaptureExternal(db, r, now) \in Table
<1> DEFINE row == ExternalRow(db, r, now)
<1>1. /\ r.id \in Ids /\ r.scope \in Scopes /\ r.decision \in Decisions
      /\ r.fact_key \in Keys \cup {Null} /\ r.valid_from \in Text \cup {Null}
      /\ r.supersedes \in Ids \cup {Null}
  BY InputsAssumption DEF ExternalRequest
<1>2. Whole(now) \in Text
  BY ClockAssumption DEF Whole, Text
<1>3. Exists(db, r.id) => db[r.id] \in Row
  BY <1>1 DEF Table, Exists
<1>4. row \in Row
  <2> DEFINE opened == IF Exists(db, r.id) THEN db[r.id].valid_from ELSE Null
             from == IF r.valid_from # Null THEN r.valid_from
                     ELSE IF opened # Null THEN opened ELSE Whole(now)
  <2>1. from \in Text \cup {Null, Blank}
    BY <1>1, <1>2, <1>3 DEF Row
  <2>2. row = NewRow(r.scope, r.decision, r.fact_key, from)
    BY DEF ExternalRow
  <2> QED BY <1>1, <2>1, <2>2, NewRowType
<1>5. ExternalPredecessors(db, r) \in SUBSET Ids
  BY <1>1 DEF ExternalPredecessors, SameFact
<1> HIDE DEF row
<1>6. Retire(Insert(db, r.id, row), ExternalPredecessors(db, r), r.id, now) \in Table
  BY <1>1, <1>4, <1>5, RetirementIsTyped DEF CaptureExternalAccepts
<1> QED BY <1>6 DEF AfterCaptureExternal, row

LEMMA ReconcileIsTyped ==
    ASSUME db \in Table, NEW p \in Ids, NEW s \in Ids, NEW sc \in Scopes,
           NEW until \in Retirements, ReconcileAccepts(db, p, s, sc, until)
    PROVE  AfterReconcile(db, p, s, until) \in Table
<1>1. db[p] \in Row
  BY DEF ReconcileAccepts, InScope, Exists, Table
<1>2. Superseded(db[p], s, until) \in Row
  BY <1>1, SupersededRow, InputsAssumption
<1> QED BY <1>2 DEF AfterReconcile, Table

LEMMA ImportIsTyped ==
    ASSUME db \in Table, NEW batch \in ImportBatches
    PROVE  AfterImport(db, batch) \in Table
    BY FirstOfExists DEF AfterImport, Table

LEMMA MiningIsTyped ==
    ASSUME db \in Table, NEW sc \in Scopes, NEW mined \in MinedBatches
    PROVE  AfterMining(db, sc, mined) \in Table
<1>1. \A i \in DOMAIN mined : NewRow(sc, mined[i], Null, Null) \in Row
  BY InputsAssumption, NewRowType
<1> QED BY <1>1 DEF AfterMining, Table

LEMMA RescopeIsTyped ==
    ASSUME db \in Table, NEW from \in Scopes, NEW to \in Scopes
    PROVE  AfterRescope(db, from, to) \in Table
<1>1. ASSUME NEW i \in Ids, InScope(db, i, from)
      PROVE  [db[i] EXCEPT !.scope = to] \in Row
  BY <1>1 DEF InScope, Exists, Table, Row
<1> QED BY <1>1 DEF AfterRescope, Table

(* A link is added where there is none, and every other one stays. *)
LEMMA WithLinkEffect ==
    ASSUME Store \in Stores, NEW id \in Ids, NEW commit \in Commits, NEW subject \in Subjects
    PROVE  /\ WithLink(Store, id, commit, subject) \in Stores
           /\ WithLink(Store, id, commit, subject).table = db
           /\ \A l \in Ids \X Commits : links[l] # NoLink =>
                  WithLink(Store, id, commit, subject).links[l] = links[l]
           /\ LET l == <<id, commit>> IN
              (links[l] = NoLink \/ links[l] = subject) =>
                  WithLink(Store, id, commit, subject).links[l] = subject
<1> DEFINE l == <<id, commit>>
           added == [links EXCEPT ![l] = subject]
<1>1. /\ db \in Table /\ links \in Links
      /\ ratings \in [Ids -> Rating] /\ log \in Seq(Verdict)
  BY StoreFields
<1>2. l \in Ids \X Commits /\ added \in Links /\ added[l] = subject
      /\ \A k \in Ids \X Commits : k # l => added[k] = links[k]
  BY <1>1 DEF Links
<1>3. CASE links[l] = NoLink
  <2>1. WithLink(Store, id, commit, subject)
            = [table |-> db, links |-> added, ratings |-> ratings, log |-> log]
    BY <1>3 DEF WithLink, Linked, Store
  <2>2. [table |-> db, links |-> added, ratings |-> ratings, log |-> log] \in Stores
    BY <1>1, <1>2, FieldsStore
  <2>3. /\ WithLink(Store, id, commit, subject).table = db
        /\ WithLink(Store, id, commit, subject).links = added
    BY <2>1
  <2> QED BY <1>2, <1>3, <2>1, <2>2, <2>3
<1>4. CASE links[l] # NoLink
  <2>1. WithLink(Store, id, commit, subject) = Store
    BY <1>4 DEF WithLink, Linked, Store
  <2> QED BY <1>4, <2>1 DEF Store
<1> QED BY <1>3, <1>4

(* A verdict moves the effectiveness between its bounds. *)
LEMMA Clamped ==
    ASSUME NEW n \in Int
    PROVE  /\ Min({100, Max({1, n})}) \in 1..100
           /\ Min({100, Max({1, n})}) = IF n > 100 THEN 100 ELSE IF n < 1 THEN 1 ELSE n
<1> DEFINE m == Max({1, n})
<1>1. m = IF 1 >= n THEN 1 ELSE n
  BY MaxOfTwo
<1>2. m \in Int
  BY <1>1
<1> HIDE DEF m
<1>3. Min({100, m}) = IF 100 <= m THEN 100 ELSE m
  BY <1>2, MinOfTwo
<1>4. /\ Min({100, m}) \in 1..100
      /\ Min({100, m}) = IF n > 100 THEN 100 ELSE IF n < 1 THEN 1 ELSE n
  BY <1>1, <1>3
<1> QED BY <1>4 DEF m

LEMMA EffectivenessIsInt == \A e \in Effectiveness : e \in Int
  BY GivenAssumption DEF Effectiveness

LEMMA WithFeedbackEffect ==
    ASSUME Store \in Stores, NEW id \in Ids, NEW helpful \in BOOLEAN, NEW now \in Clock
    PROVE  /\ WithFeedback(Store, id, helpful, now) \in Stores
           /\ WithFeedback(Store, id, helpful, now).table = db
           /\ WithFeedback(Store, id, helpful, now).links = links
<1> DEFINE rating == ratings[id]
           moved == rating.effectiveness + (IF helpful THEN 5 ELSE -3)
           rated == [helped |-> rating.helped + (IF helpful THEN 1 ELSE 0),
                     effectiveness |-> Min({100, Max({1, moved})})]
<1>1. /\ db \in Table /\ links \in Links
      /\ ratings \in [Ids -> Rating] /\ log \in Seq(Verdict)
  BY StoreFields
<1>2. rating.helped \in Nat /\ rating.effectiveness \in Int
  BY <1>1, EffectivenessIsInt DEF Rating
<1>3. rated \in Rating
  <2>1. moved \in Int
    BY <1>2
  <2>2. rating.helped + (IF helpful THEN 1 ELSE 0) \in Nat
    BY <1>2
  <2> HIDE DEF moved, rating
  <2>3. Min({100, Max({1, moved})}) \in Effectiveness
    BY <2>1, Clamped DEF Effectiveness
  <2> QED BY <2>2, <2>3 DEF Rating
<1>4. [id |-> id, helpful |-> helpful] \in Verdict
  BY DEF Verdict
<1>5. CASE Searchable(db, id, now)
  <2> DEFINE rerated == [ratings EXCEPT ![id] = rated]
             logged == Append(log, [id |-> id, helpful |-> helpful])
  <2>1. WithFeedback(Store, id, helpful, now)
            = [table |-> db, links |-> links, ratings |-> rerated, log |-> logged]
    BY <1>5 DEF WithFeedback, Store
  <2>2. rerated \in [Ids -> Rating]
    BY <1>1, <1>3
  <2>3. logged \in Seq(Verdict)
    BY <1>1, <1>4
  <2> HIDE DEF rerated, logged
  <2>4. WithFeedback(Store, id, helpful, now) \in Stores
    BY <1>1, <2>1, <2>2, <2>3, FieldsStore
  <2> QED BY <2>1, <2>4
<1>6. CASE ~Searchable(db, id, now)
  <2>1. WithFeedback(Store, id, helpful, now) = Store
    BY <1>6 DEF WithFeedback, Store
  <2> QED BY <2>1 DEF Store
<1> QED BY <1>5, <1>6

-----------------------------------------------------------------------------
(***************************************************************************)
(* What a transaction decides, by the tool: the store it would leave, the  *)
(* links it keeps, and the operation of DecisionStore it is.               *)
(***************************************************************************)
ReadBefore(c) == call[c].tool = "link" =>
                     seen[c].id = call[c].id /\ seen[c].seal.scope = call[c].scope

(* A reply r leaves a store, keeps every link, and is an operation on the  *)
(* decisions, if it is one.                                                *)
SoundReply(r) ==
    /\ r.store \in Stores
    /\ \A l \in Ids \X Commits : links[l] # NoLink => r.store.links[l] = links[l]
    /\ r.result # "ok" => r.store = Store

LEMMA RefusalIsSound ==
    ASSUME Store \in Stores, NEW result
    PROVE  SoundReply(Refused(result))
    BY DEF SoundReply, Refused, Reply, Store

LEMMA AnswerIsSound ==
    ASSUME NEW s \in Stores,
           \A l \in Ids \X Commits : links[l] # NoLink => s.links[l] = links[l]
    PROVE  SoundReply(Reply("ok", s)) /\ Reply("ok", s).store = s /\ Reply("ok", s).result = "ok"
    BY DEF SoundReply, Reply

LEMMA NewTableIsSound ==
    ASSUME Store \in Stores, NEW t \in Table
    PROVE  /\ SoundReply(Reply("ok", [Store EXCEPT !.table = t]))
           /\ Reply("ok", [Store EXCEPT !.table = t]).store.table = t
<1>1. /\ links \in Links /\ ratings \in [Ids -> Rating] /\ log \in Seq(Verdict)
  BY StoreFields
<1>2. [Store EXCEPT !.table = t]
          = [table |-> t, links |-> links, ratings |-> ratings, log |-> log]
  BY DEF Store
<1>3. [Store EXCEPT !.table = t] \in Stores
  BY <1>1, <1>2, FieldsStore
<1> QED BY <1>2, <1>3 DEF SoundReply, Reply

LEMMA CaptureReplyIsSound ==
    ASSUME Store \in Stores, NEW t \in Calls, t.tool = "capture", NEW now \in Clock
    PROVE  /\ SoundReply(CaptureReply(t, now))
           /\ CaptureReply(t, now).result = "ok" =>
                 /\ CaptureAccepts(db, t.scope, t.decision, t.supersedes, now)
                 /\ CaptureReply(t, now).store.table
                        = AfterCapture(db, t.scope, t.decision, t.supersedes, now)
<1>1. /\ t.scope \in Scopes /\ t.decision \in Decisions /\ t.supersedes \in Ids \cup {Null}
      /\ <<t.scope, t.decision>> \in DOMAIN CaptureId
  BY CallFields
<1>2. db \in Table
  BY StoreFields
<1> DEFINE after == AfterCapture(db, t.scope, t.decision, t.supersedes, now)
<1>3. CaptureReply(t, now) = IF CaptureAccepts(db, t.scope, t.decision, t.supersedes, now)
          THEN Reply("ok", [Store EXCEPT !.table = after]) ELSE Refused("refused")
  BY DEF CaptureReply
<1>4. CaptureAccepts(db, t.scope, t.decision, t.supersedes, now) => after \in Table
  BY <1>1, <1>2, CaptureIsTyped
<1> HIDE DEF after
<1>5. CASE CaptureAccepts(db, t.scope, t.decision, t.supersedes, now)
  BY <1>3, <1>4, <1>5, NewTableIsSound DEF after
<1>6. CASE ~CaptureAccepts(db, t.scope, t.decision, t.supersedes, now)
  BY <1>3, <1>6, RefusalIsSound DEF Refused, Reply
<1> QED BY <1>5, <1>6

LEMMA ReconcileReplyIsSound ==
    ASSUME Store \in Stores, NEW t \in Calls, t.tool = "reconcile"
    PROVE  /\ SoundReply(ReconcileReply(t))
           /\ ReconcileReply(t).result = "ok" =>
                 \/ ReconcileReply(t).store.table = db
                 \/ /\ ReconcileAccepts(db, t.id, t.successor, t.scope, t.until)
                    /\ ReconcileReply(t).store.table
                          = AfterReconcile(db, t.id, t.successor, t.until)
<1>1. t.id \in Ids /\ t.successor \in Ids /\ t.scope \in Scopes /\ t.until \in Retirements
  BY CallFields
<1>2. db \in Table
  BY StoreFields
<1> DEFINE after == AfterReconcile(db, t.id, t.successor, t.until)
<1>3. ReconcileReply(t) \in {Reply("ok", Store), Refused("refused")}
      \/ /\ ReconcileAccepts(db, t.id, t.successor, t.scope, t.until)
         /\ ReconcileReply(t) = Reply("ok", [Store EXCEPT !.table = after])
  BY DEF ReconcileReply
<1>4. ReconcileAccepts(db, t.id, t.successor, t.scope, t.until) => after \in Table
  BY <1>1, <1>2, ReconcileIsTyped
<1>5. SoundReply(Reply("ok", Store)) /\ Reply("ok", Store).store.table = db
  BY AnswerIsSound DEF Store
<1>6. SoundReply(Refused("refused")) /\ Refused("refused").result # "ok"
  BY RefusalIsSound DEF Refused, Reply
<1> HIDE DEF after
<1>7. CASE /\ ReconcileAccepts(db, t.id, t.successor, t.scope, t.until)
           /\ ReconcileReply(t) = Reply("ok", [Store EXCEPT !.table = after])
  BY <1>4, <1>7, NewTableIsSound DEF after
<1> QED BY <1>3, <1>5, <1>6, <1>7

LEMMA CaptureExternalReplyIsSound ==
    ASSUME Store \in Stores, NEW t \in Calls, t.tool = "capture_external", NEW now \in Clock
    PROVE  /\ SoundReply(CaptureExternalReply(t, now))
           /\ CaptureExternalReply(t, now).result = "ok" =>
                 \E r \in ExternalRequest :
                     /\ CaptureExternalAccepts(db, r, now)
                     /\ CaptureExternalReply(t, now).store.table = AfterCaptureExternal(db, r, now)
<1> DEFINE r == [id |-> t.id, scope |-> t.scope, decision |-> t.decision,
                 valid_from |-> t.valid_from, fact_key |-> t.fact_key,
                 supersedes |-> t.supersedes]
<1>1. r \in ExternalRequest
  BY CallFields
<1>2. db \in Table
  BY StoreFields
<1>3. CaptureExternalReply(t, now) = IF CaptureExternalAccepts(db, r, now)
          THEN Reply("ok", [Store EXCEPT !.table = AfterCaptureExternal(db, r, now)])
          ELSE Refused("refused")
  BY DEF CaptureExternalReply
<1> HIDE DEF r
<1>4. CASE CaptureExternalAccepts(db, r, now)
  BY <1>1, <1>2, <1>3, <1>4, CaptureExternalIsTyped, NewTableIsSound
<1>5. CASE ~CaptureExternalAccepts(db, r, now)
  BY <1>3, <1>5, RefusalIsSound DEF Refused, Reply
<1> QED BY <1>4, <1>5

(* Records that are there keep their rating, the others get one. *)
LEMMA ImportedRatingsAreTyped ==
    ASSUME ratings \in [Ids -> Rating], NEW t \in Calls, t.tool = "import"
    PROVE  ImportedRatings(t) \in [Ids -> Rating]
<1>1. ASSUME NEW i \in ImportedIds(t.batch) PROVE StoredWith(Brought(t, i)) \in Rating
  <2>1. Brought(t, i) \in Effectiveness
    BY BroughtIsTyped
  <2> QED BY <2>1 DEF StoredWith, Rating
<1> QED BY <1>1 DEF ImportedRatings

LEMMA ImportReplyIsSound ==
    ASSUME Store \in Stores, NEW t \in Calls, t.tool = "import"
    PROVE  /\ SoundReply(ImportReply(t))
           /\ ImportReply(t).result = "ok" =>
                 /\ t.batch \in ImportBatches /\ ImportAccepts(db, t.batch)
                 /\ ImportReply(t).store.table = AfterImport(db, t.batch)
<1> DEFINE after == AfterImport(db, t.batch)
           linked == [l \in DOMAIN links |->
                        IF links[l] = NoLink /\ l[1] \in ImportedIds(t.batch)
                           /\ l[2] \in DOMAIN t.git_refs
                          THEN t.git_refs[l[2]] ELSE links[l]]
<1>1. /\ db \in Table /\ links \in Links
      /\ ratings \in [Ids -> Rating] /\ log \in Seq(Verdict)
  BY StoreFields
<1>2. t.batch \in ImportBatches /\ t.git_refs \in GitRefs
  BY CallFields
<1>3. after \in Table
  BY <1>1, <1>2, ImportIsTyped
<1>4. linked \in Links /\ \A l \in Ids \X Commits : links[l] # NoLink => linked[l] = links[l]
  BY <1>1, <1>2, GitRefsAreSubjects DEF Links
<1> DEFINE rated == ImportedRatings(t)
<1>5. rated \in [Ids -> Rating]
  BY <1>1, ImportedRatingsAreTyped
<1> DEFINE s == [table |-> after, links |-> linked, ratings |-> rated, log |-> log]
<1>6. ImportReply(t) = IF ImportAccepts(db, t.batch) THEN Reply("ok", s)
                                                     ELSE Refused("identity_conflict")
  BY DEF ImportReply
<1> HIDE DEF after, linked, rated
<1>7. s \in Stores /\ s.table = after /\ s.links = linked
  BY <1>1, <1>3, <1>4, <1>5, FieldsStore
<1> HIDE DEF s
<1>8. /\ SoundReply(Reply("ok", s)) /\ Reply("ok", s).store.table = after
      /\ Reply("ok", s).result = "ok"
  BY <1>4, <1>7, AnswerIsSound
<1>9. CASE ImportAccepts(db, t.batch)
  BY <1>2, <1>6, <1>8, <1>9 DEF after
<1>10. CASE ~ImportAccepts(db, t.batch)
  BY <1>6, <1>10, RefusalIsSound DEF Refused, Reply
<1> QED BY <1>9, <1>10

LEMMA LinkReplyIsSound ==
    ASSUME Store \in Stores, NEW c \in Clients, call[c] \in Calls, call[c].tool = "link",
           ReadBefore(c)
    PROVE  LET t == call[c]
               r == LinkReply(c, t)
           IN  /\ SoundReply(r)
               /\ r.store.table = db
               /\ r.result = "ok" =>
                     /\ InScope(db, t.id, t.scope)
                     /\ r.store.links[<<t.id, t.commit>>] = t.subject
<1> DEFINE t == call[c]
           r == LinkReply(c, t)
           verdict == LinkVerdict(Store, seen[c], t.commit, t.subject)
<1>1. /\ t.id \in Ids /\ t.scope \in Scopes /\ t.commit \in Commits /\ t.subject \in Subjects
      /\ seen[c].id = t.id /\ seen[c].seal.scope = t.scope
  BY CallFields DEF ReadBefore
<1>2. r = IF verdict = "ok" THEN Reply("ok", WithLink(Store, t.id, t.commit, t.subject))
          ELSE Refused(verdict)
  BY <1>1 DEF LinkReply
<1>3. verdict = "ok" =>
          /\ InScope(db, t.id, t.scope)
          /\ links[<<t.id, t.commit>>] = NoLink \/ links[<<t.id, t.commit>>] = t.subject
  BY <1>1 DEF LinkVerdict, Authentic, BelongsToScope, Linked, Store
<1> HIDE DEF verdict
<1>4. CASE verdict = "ok"
  <2>1. r.result = "ok" /\ r.store = WithLink(Store, t.id, t.commit, t.subject)
    BY <1>2, <1>4 DEF Reply
  <2> QED BY <1>1, <1>3, <1>4, <2>1, WithLinkEffect DEF SoundReply
<1>5. CASE verdict # "ok"
  <2>1. r.result # "ok" /\ r.store = Store
    BY <1>2, <1>5 DEF Refused, Reply
  <2>2. SoundReply(r)
    BY <1>2, <1>5, RefusalIsSound
  <2> QED BY <2>1, <2>2 DEF Store
<1> QED BY <1>4, <1>5

LEMMA WithLinkKeepsLinks ==
    ASSUME Store \in Stores, NEW id \in Ids, NEW commit \in Commits, NEW subject \in Subjects,
           NEW l \in Ids \X Commits, links[l] # NoLink
    PROVE  WithLink(Store, id, commit, subject).links[l] = links[l]
<1>1. CASE Linked(Store, id, commit)
  BY <1>1 DEF WithLink, Store
<1>2. CASE ~Linked(Store, id, commit)
  <2>1. WithLink(Store, id, commit, subject).links
            = [links EXCEPT ![<<id, commit>>] = subject]
    BY <1>2 DEF WithLink, Store
  <2>2. l # <<id, commit>> /\ links \in Links
    BY <1>2, StoreFields DEF Linked, Store
  <2> QED BY <2>1, <2>2 DEF Links
<1> QED BY <1>1, <1>2

LEMMA GitLinkReplyIsSound ==
    ASSUME Store \in Stores, NEW t \in Calls, t.tool = "link_git"
    PROVE  /\ SoundReply(Reply("ok", WithLink(Store, t.id, t.commit, t.subject)))
           /\ Reply("ok", WithLink(Store, t.id, t.commit, t.subject)).store.table = db
<1> DEFINE after == WithLink(Store, t.id, t.commit, t.subject)
<1>1. t.id \in Ids /\ t.commit \in Commits /\ t.subject \in Subjects
  BY CallFields
<1>2. after \in Stores /\ after.table = db
  BY <1>1, WithLinkEffect
<1>3. \A l \in Ids \X Commits : links[l] # NoLink => after.links[l] = links[l]
  BY <1>1, WithLinkKeepsLinks
<1> HIDE DEF after
<1>4. SoundReply(Reply("ok", after)) /\ Reply("ok", after).store.table = db
  BY <1>2, <1>3, AnswerIsSound
<1> QED BY <1>4 DEF after

LEMMA FeedbackReplyIsSound ==
    ASSUME Store \in Stores, NEW t \in Calls, t.tool = "feedback", NEW now \in Clock
    PROVE  SoundReply(FeedbackReply(t, now)) /\ FeedbackReply(t, now).store.table = db
<1> DEFINE after == WithFeedback(Store, t.id, t.helpful, now)
<1>1. after \in Stores /\ after.table = db /\ after.links = links
  BY CallFields, WithFeedbackEffect
<1>2. FeedbackReply(t, now) = IF after = Store THEN Refused("not_current") ELSE Reply("ok", after)
  BY DEF FeedbackReply
<1> HIDE DEF after
<1>3. SoundReply(Reply("ok", after)) /\ Reply("ok", after).store.table = db
  BY <1>1, AnswerIsSound
<1>4. /\ SoundReply(Refused("not_current"))
      /\ Refused("not_current").store.table = db
  BY RefusalIsSound DEF Refused, Reply, Store
<1> QED BY <1>2, <1>3, <1>4

LEMMA ReplyIsSound ==
    ASSUME Store \in Stores, NEW c \in Clients, call[c] \in Calls,
           call[c].tool \in Deferred \cup Immediate, ReadBefore(c), NEW now \in Clock
    PROVE  SoundReply(ReplyOf(c, now))
<1> DEFINE t == call[c]
<1>1. CASE t.tool = "capture_external"
  BY <1>1, CaptureExternalReplyIsSound DEF ReplyOf
<1>8. CASE t.tool = "capture"
  BY <1>8, CaptureReplyIsSound DEF ReplyOf
<1>9. CASE t.tool = "reconcile"
  BY <1>9, ReconcileReplyIsSound DEF ReplyOf
<1>2. CASE t.tool = "import"
  BY <1>2, ImportReplyIsSound DEF ReplyOf
<1>3. CASE t.tool \in {"index", "ask"}
  <2>1. AfterMining(db, t.scope, t.mined) \in Table
    BY <1>3, CallFields, StoreFields, MiningIsTyped
  <2> QED BY <1>3, <2>1, NewTableIsSound DEF ReplyOf
<1>4. CASE t.tool = "rescope"
  <2>1. AfterRescope(db, t.scope, t.to) \in Table
    BY <1>4, CallFields, StoreFields, RescopeIsTyped
  <2> QED BY <1>4, <2>1, NewTableIsSound DEF ReplyOf
<1>5. CASE t.tool = "link"
  BY <1>5, LinkReplyIsSound DEF ReplyOf
<1>6. CASE t.tool = "feedback"
  BY <1>6, FeedbackReplyIsSound DEF ReplyOf
<1>7. CASE t.tool = "link_git"
  BY <1>7, GitLinkReplyIsSound DEF ReplyOf
<1> QED BY <1>1, <1>2, <1>3, <1>4, <1>5, <1>6, <1>7, <1>8, <1>9 DEF Deferred, Immediate

(* To install what a transaction decided is an operation of DecisionStore, *)
(* or leaves the decisions alone.                                          *)
LEMMA ReplyIsOperation ==
    ASSUME Store \in Stores, NEW c \in Clients, call[c] \in Calls,
           call[c].tool \in Deferred \cup Immediate, ReadBefore(c), NEW now \in Clock,
           ReplyOf(c, now).result = "ok", db' = ReplyOf(c, now).store.table
    PROVE  [Next]_db
<1> DEFINE t == call[c]
<1>1. CASE t.tool = "capture_external"
  <2>1. ReplyOf(c, now) = CaptureExternalReply(t, now)
    BY <1>1 DEF ReplyOf
  <2>2. PICK r \in ExternalRequest :
            /\ CaptureExternalAccepts(db, r, now)
            /\ db' = AfterCaptureExternal(db, r, now)
    BY <1>1, <2>1, CaptureExternalReplyIsSound
  <2> QED BY <2>2 DEF CaptureExternal, CaptureExternalStep, Next
<1>8. CASE t.tool = "capture"
  <2>1. ReplyOf(c, now) = CaptureReply(t, now)
    BY <1>8 DEF ReplyOf
  <2>2. Capture(t.scope, t.decision, t.supersedes, now)
    BY <1>8, <2>1, CaptureReplyIsSound DEF Capture
  <2>3. \E p \in DOMAIN CaptureId : Capture(p[1], p[2], t.supersedes, now)
    <3>1. <<t.scope, t.decision>> \in DOMAIN CaptureId
      BY <1>8, CallFields
    <3> QED BY <2>2, <3>1
  <2>4. t.supersedes \in Ids \cup {Null}
    BY <1>8, CallFields
  <2> QED BY <2>3, <2>4 DEF CaptureStep, Next
<1>9. CASE t.tool = "reconcile"
  <2>1. ReplyOf(c, now) = ReconcileReply(t)
    BY <1>9 DEF ReplyOf
  <2>2. \/ UNCHANGED db
        \/ ReconcileExternalSupersession(t.id, t.successor, t.scope, t.until)
    BY <1>9, <2>1, ReconcileReplyIsSound DEF ReconcileExternalSupersession
  <2>3. t.id \in Ids /\ t.successor \in Ids /\ t.scope \in Scopes /\ t.until \in Retirements
    BY <1>9, CallFields
  <2> QED BY <2>2, <2>3 DEF ReconcileStep, Next
<1>2. CASE t.tool = "import"
  <2>1. ReplyOf(c, now) = ImportReply(t)
    BY <1>2 DEF ReplyOf
  <2>2. /\ t.batch \in ImportBatches /\ ImportAccepts(db, t.batch)
        /\ db' = AfterImport(db, t.batch)
    BY <1>2, <2>1, ImportReplyIsSound
  <2> QED BY <2>2 DEF ImportExternal, ImportExternalStep, Next
<1>3. CASE t.tool \in {"index", "ask"}
  <2>1. t.scope \in Scopes /\ t.mined \in MinedBatches
    BY <1>3, CallFields
  <2>2. ReplyOf(c, now) = Reply("ok", [Store EXCEPT !.table = AfterMining(db, t.scope, t.mined)])
    BY <1>3 DEF ReplyOf
  <2>3. db' = AfterMining(db, t.scope, t.mined)
    BY <2>1, <2>2, StoreFields, MiningIsTyped, NewTableIsSound
  <2> QED BY <2>1, <2>3 DEF ImportDecisions, ImportDecisionsStep, Next
<1>4. CASE t.tool = "rescope"
  <2>1. t.scope \in Scopes /\ t.to \in Scopes /\ t.scope # t.to
    BY <1>4, CallFields
  <2>2. ReplyOf(c, now) = Reply("ok", [Store EXCEPT !.table = AfterRescope(db, t.scope, t.to)])
    BY <1>4 DEF ReplyOf
  <2>3. db' = AfterRescope(db, t.scope, t.to)
    BY <2>1, <2>2, StoreFields, RescopeIsTyped, NewTableIsSound
  <2> QED BY <2>1, <2>3 DEF Rescope, RescopeStep, Next
<1>5. CASE t.tool = "link"
  BY <1>5, LinkReplyIsSound DEF ReplyOf
<1>6. CASE t.tool = "feedback"
  BY <1>6, FeedbackReplyIsSound DEF ReplyOf
<1>7. CASE t.tool = "link_git"
  BY <1>7, GitLinkReplyIsSound DEF ReplyOf
<1> QED BY <1>1, <1>2, <1>3, <1>4, <1>5, <1>6, <1>7, <1>8, <1>9 DEF Deferred, Immediate

(* A reply depends on the store, on the call and on what was read before.  *)
LEMMA ReplyStays ==
    ASSUME NEW c \in Clients, NEW now \in Clock, Tables,
           call'[c] = call[c], seen'[c] = seen[c]
    PROVE  ReplyOf(c, now)' = ReplyOf(c, now)
<1>1. Store' = Store
  BY DEF Tables, Store
<1>2. \A result : Refused(result)' = Refused(result)
  BY <1>1 DEF Refused
<1>3. \A t : CaptureExternalReply(t, now)' = CaptureExternalReply(t, now)
  BY <1>1, <1>2 DEF CaptureExternalReply, Tables
<1>7. \A t : CaptureReply(t, now)' = CaptureReply(t, now)
  BY <1>1, <1>2 DEF CaptureReply, Tables
<1>8. \A t : ReconcileReply(t)' = ReconcileReply(t)
  BY <1>1, <1>2 DEF ReconcileReply, Tables
<1>4. \A t : ImportReply(t)' = ImportReply(t)
  BY <1>1, <1>2 DEF ImportReply, ImportedRatings, Tables
<1>5. \A t : LinkReply(c, t)' = LinkReply(c, t)
  BY <1>1, <1>2 DEF LinkReply
<1>6. \A t : FeedbackReply(t, now)' = FeedbackReply(t, now)
  BY <1>1, <1>2 DEF FeedbackReply
<1> QED BY <1>1, <1>3, <1>4, <1>5, <1>6, <1>7, <1>8 DEF ReplyOf, Tables

-----------------------------------------------------------------------------
(***************************************************************************)
(* The steps.                                                              *)
(***************************************************************************)
Step(c) == Start(c) \/ Works(c) \/ TimeOut(c) \/ Die(c)

(* A step of one client leaves the others where they are. *)
LEMMA OthersStay ==
    ASSUME Typed, NEW c \in Clients, NEW o \in Clients, c # o, Step(o)
    PROVE  /\ phase'[c] = phase[c] /\ call'[c] = call[c] /\ outcome'[c] = outcome[c]
           /\ seen'[c] = seen[c] /\ plan'[c] = plan[c]
<1>1. CASE Start(o)
  BY <1>1 DEF Start, Typed
<1>2. CASE Look(o)
  BY <1>2 DEF Look, Ends, Goes, Typed
<1>3. CASE Begin(o)
  BY <1>3 DEF Begin, Returns, Ends, Goes, Typed
<1>4. CASE Write(o) \/ Wait(o)
  BY <1>4 DEF Write, Wait, Upgrade, Ends, Goes, Typed
<1>5. CASE Commit(o)
  BY <1>5 DEF Commit, Ends, Typed
<1>6. CASE Search(o)
  BY <1>6 DEF Search, Ends, Goes, Typed
<1>7. CASE ListPage(o)
  BY <1>7 DEF ListPage, Ends, Typed
<1>8. CASE TimeOut(o) \/ Die(o)
  BY <1>8 DEF TimeOut, Die, Ends, Typed
<1> QED BY <1>1, <1>2, <1>3, <1>4, <1>5, <1>6, <1>7, <1>8 DEF Step, Works

(* Only a commit changes the tables. *)
LEMMA OnlyCommitWrites ==
    ASSUME NEW o \in Clients, Step(o), ~Commit(o)
    PROVE  Tables
<1>1. CASE Start(o)
  BY <1>1 DEF Start
<1>2. CASE Look(o)
  BY <1>2 DEF Look
<1>3. CASE Begin(o)
  BY <1>3 DEF Begin
<1>4. CASE Write(o) \/ Wait(o)
  BY <1>4 DEF Write, Wait
<1>5. CASE Search(o)
  BY <1>5 DEF Search
<1>6. CASE ListPage(o)
  BY <1>6 DEF ListPage
<1>7. CASE TimeOut(o) \/ Die(o)
  BY <1>7 DEF TimeOut, Die
<1> QED BY <1>1, <1>2, <1>3, <1>4, <1>5, <1>6, <1>7 DEF Step, Works

(* What a call in its transaction has decided. *)
LEMMA DecidedIsSound ==
    ASSUME ToolsInv, NEW c \in Clients, phase[c] \in Holding
    PROVE  /\ call[c] \in Calls /\ call[c].tool \in Deferred \cup Immediate
           /\ ReadBefore(c)
           /\ Decided(c)
           /\ plan[c] \in Stores
           /\ \A l \in Ids \X Commits : links[l] # NoLink => plan[c].links[l] = links[l]
<1>1. Store \in Stores /\ CallOf(c) /\ SeenOf(c) /\ PlanOf(c)
  BY DEF ToolsInv, Typed
<1>2. /\ call[c] \in Calls /\ call[c].tool \in Deferred \cup Immediate
      /\ ReadBefore(c) /\ Decided(c)
  BY <1>1, SentinelsAssumption DEF CallOf, SeenOf, PlanOf, ReadBefore, IsCall, Holding
<1>3. PICK now \in Clock : plan[c] = ReplyOf(c, now).store
  BY <1>2 DEF Decided
<1>4. SoundReply(ReplyOf(c, now))
  BY <1>1, <1>2, ReplyIsSound
<1> QED BY <1>2, <1>3, <1>4 DEF SoundReply

(* A commit installs it: an operation of DecisionStore, or none, that      *)
(* keeps every link.                                                       *)
LEMMA CommitInstalls ==
    ASSUME ToolsInv, NEW o \in Clients, Commit(o)
    PROVE  /\ Store' = plan[o] /\ Store' \in Stores
           /\ [Next]_db
           /\ \A l \in Ids \X Commits : links[l] # NoLink => links'[l] = links[l]
<1>1. /\ phase[o] \in Holding
      /\ db' = plan[o].table /\ links' = plan[o].links
      /\ ratings' = plan[o].ratings /\ log' = plan[o].log
  BY DEF Commit, Holding
<1>2. /\ call[o] \in Calls /\ call[o].tool \in Deferred \cup Immediate
      /\ ReadBefore(o) /\ Decided(o) /\ plan[o] \in Stores
      /\ \A l \in Ids \X Commits : links[l] # NoLink => plan[o].links[l] = links[l]
  BY <1>1, DecidedIsSound
<1>3. Store' = plan[o]
  BY <1>1, <1>2 DEF Store, Stores
<1>4. PICK now \in Clock : plan[o] = ReplyOf(o, now).store /\ ReplyOf(o, now).result = "ok"
  BY <1>2 DEF Decided
<1>5. [Next]_db
  BY <1>1, <1>2, <1>4, ReplyIsOperation DEF ToolsInv, Typed
<1> QED BY <1>1, <1>2, <1>3, <1>5

(* A record is stored by an import only when a row of it brings the record. *)
LEMMA CommitStores ==
    ASSUME ToolsInv, NEW o \in Clients, Commit(o), NEW i \in Ids, ~Exists(db, i), Exists(db', i)
    PROVE  /\ StoredBy(call[o], i) \in Effectiveness
           /\ call[o].tool = "import" => i \in ImportedIds(call[o].batch)
<1> DEFINE t == call[o]
<1>1. /\ phase[o] \in Holding /\ db' = plan[o].table
  BY DEF Commit, Holding
<1>2. t \in Calls /\ Store \in Stores /\ Decided(o)
  BY <1>1, DecidedIsSound DEF ToolsInv, Typed
<1>3. ASSUME t.tool = "import" PROVE i \in ImportedIds(t.batch)
  <2>1. PICK now \in Clock : plan[o] = ReplyOf(o, now).store /\ ReplyOf(o, now).result = "ok"
    BY <1>2 DEF Decided
  <2>2. ReplyOf(o, now) = ImportReply(t)
    BY <1>3 DEF ReplyOf
  <2>3. db' = AfterImport(db, t.batch)
    BY <1>1, <1>2, <1>3, <2>1, <2>2, ImportReplyIsSound
  <2> QED BY <2>3 DEF AfterImport, Exists
<1> QED BY <1>2, <1>3, StoredByIsTyped

LEMMA StepIsTypedToo ==
    ASSUME ToolsInv, NEW o \in Clients, Step(o)
    PROVE  Typed'
<1>1. Store' \in Stores
  <2>1. CASE Commit(o)
    BY <2>1, CommitInstalls
  <2>2. CASE ~Commit(o)
    <3>1. Store' = Store
      BY <2>2, OnlyCommitWrites DEF Tables, Store
    <3> QED BY <3>1 DEF ToolsInv, Typed
  <2> QED BY <2>1, <2>2
<1>2. stored' \in [Ids -> Effectiveness]
  <2>1. stored \in [Ids -> Effectiveness]
    BY DEF ToolsInv, Typed
  <2>2. CASE Commit(o)
    <3>1. ASSUME NEW i \in Ids, ~Exists(db, i), Exists(db', i)
          PROVE  StoredBy(call[o], i) \in Effectiveness
      BY <2>2, <3>1, CommitStores
    <3>2. stored' = [i \in Ids |-> IF ~Exists(db, i) /\ Exists(db', i)
                                     THEN StoredBy(call[o], i) ELSE stored[i]]
      BY <2>2 DEF Commit
    <3> QED BY <2>1, <3>1, <3>2
  <2>3. CASE ~Commit(o)
    BY <2>1, <2>3, OnlyCommitWrites DEF Tables
  <2> QED BY <2>2, <2>3
<1>3. /\ program' \in [Clients -> Seq(Calls)]
      /\ call' \in [Clients -> Calls \cup {NoCall}]
      /\ phase' \in [Clients -> Phases]
      /\ DOMAIN outcome' = Clients /\ DOMAIN seen' = Clients /\ DOMAIN plan' = Clients
  <2> USE DEF Typed, Phases
  <2>0. Typed
    BY DEF ToolsInv
  <2>1. CASE Start(o)
    BY <2>0, <2>1 DEF Start
  <2>2. CASE Look(o)
    BY <2>0, <2>2 DEF Look, Ends, Goes
  <2>3. CASE Begin(o)
    BY <2>0, <2>3 DEF Begin, Returns, Ends, Goes
  <2>4. CASE Write(o) \/ Wait(o)
    BY <2>0, <2>4 DEF Write, Wait, Upgrade, Ends, Goes
  <2>5. CASE Commit(o)
    BY <2>0, <2>5 DEF Commit, Ends
  <2>6. CASE Search(o) \/ ListPage(o)
    BY <2>0, <2>6 DEF Search, ListPage, Ends, Goes
  <2>7. CASE TimeOut(o)
    BY <2>0, <2>7 DEF TimeOut, Ends
  <2>8. CASE Die(o)
    <3>1. <<>> \in Seq(Calls)
      OBVIOUS
    <3>2. program' = [program EXCEPT ![o] = <<>>] /\ call' = call
      BY <2>8 DEF Die
    <3>3. program' \in [Clients -> Seq(Calls)]
      BY <2>0, <3>1, <3>2
    <3> QED BY <2>0, <2>8, <3>2, <3>3 DEF Die, Ends
  <2> QED BY <2>1, <2>2, <2>3, <2>4, <2>5, <2>6, <2>7, <2>8 DEF Step, Works
<1> QED BY <1>1, <1>2, <1>3 DEF Typed

-----------------------------------------------------------------------------
(***************************************************************************)
(* Where a call may be, and what it knows there.                           *)
(***************************************************************************)
LEMMA CallIsKept ==
    ASSUME ToolsInv, NEW c \in Clients, NEW o \in Clients, Step(o)
    PROVE  CallOf(c)'
<1>1. Typed /\ CallOf(c)
  BY DEF ToolsInv
<1>2. CASE c # o
  BY <1>1, <1>2, OthersStay DEF CallOf
<1>3. CASE c = o
  <2>1. CASE Start(c)
    BY <1>1, <2>1 DEF Start, CallOf, Typed, Holding
  <2>2. CASE Look(c)
    BY <1>1, <2>2 DEF Look, Ends, Goes, CallOf, Typed, Holding
  <2>3. CASE Begin(c)
    BY <1>1, <2>3 DEF Begin, Returns, Ends, Goes, CallOf, Typed, Holding, Deferred, Immediate
  <2>4. CASE Write(c) \/ Wait(c)
    BY <1>1, <2>4 DEF Write, Wait, Upgrade, Ends, Goes, CallOf, Typed, Holding
  <2>5. CASE Commit(c)
    BY <1>1, <2>5 DEF Commit, Ends, CallOf, Typed, Holding
  <2>6. CASE Search(c) \/ ListPage(c)
    BY <1>1, <2>6 DEF Search, ListPage, Ends, Goes, CallOf, Typed, Holding
  <2>7. CASE TimeOut(c) \/ Die(c)
    BY <1>1, <2>7 DEF TimeOut, Die, Ends, CallOf, Typed, Holding
  <2> QED BY <1>3, <2>1, <2>2, <2>3, <2>4, <2>5, <2>6, <2>7 DEF Step, Works
<1> QED BY <1>2, <1>3

LEMMA SeenIsKept ==
    ASSUME ToolsInv, NEW c \in Clients, NEW o \in Clients, Step(o)
    PROVE  SeenOf(c)'
<1>1. Typed /\ CallOf(c) /\ SeenOf(c)
  BY DEF ToolsInv
<1>2. CASE c # o
  BY <1>1, <1>2, OthersStay DEF SeenOf, IsCall
<1>3. CASE c = o
  <2>1. CASE Start(c)
    BY <1>1, <2>1 DEF Start, SeenOf, Typed, Holding
  <2>2. CASE Look(c)
    <3> SUFFICES ASSUME call[c].tool = "link", phase'[c] = "ready"
                 PROVE  seen'[c].id = call[c].id /\ seen'[c].seal.scope = call[c].scope
      BY <1>1, <2>2 DEF Look, Ends, Goes, SeenOf, IsCall, Typed, Holding
    <3>1. seen'[c] = Identity(Store, call[c].id)
      BY <1>1, <2>2 DEF Look, Ends, Typed
    <3>2. PICK now \in Clock : Refusal(c, now) = Null
      BY <1>1, <2>2 DEF Look, Ends, Typed
    <3>3. BelongsToScope(Store, call[c].id, call[c].scope)
      BY <3>2, SentinelsAssumption DEF Refusal
    <3> QED BY <3>1, <3>3 DEF BelongsToScope, InScope, Identity, Envelope
  <2>3. CASE Begin(c)
    BY <1>1, <2>3 DEF Begin, Returns, Ends, Goes, SeenOf, IsCall, Typed, Holding
  <2>4. CASE Write(c) \/ Wait(c)
    BY <1>1, <2>4 DEF Write, Wait, Upgrade, Ends, Goes, SeenOf, IsCall, Typed, Holding
  <2>5. CASE Commit(c)
    BY <1>1, <2>5 DEF Commit, Ends, SeenOf, Typed, Holding
  <2>6. CASE Search(c) \/ ListPage(c)
    BY <1>1, <2>6 DEF Search, ListPage, Ends, Goes, SeenOf, IsCall, Typed, Holding
  <2>7. CASE TimeOut(c) \/ Die(c)
    BY <1>1, <2>7 DEF TimeOut, Die, Ends, SeenOf, Typed, Holding
  <2> QED BY <1>3, <2>1, <2>2, <2>3, <2>4, <2>5, <2>6, <2>7 DEF Step, Works
<1> QED BY <1>2, <1>3

(* What a transaction decided stays so: its own steps keep the tables, and *)
(* a commit of another waits until it holds SHARED no longer.              *)
LEMMA PlanIsKept ==
    ASSUME ToolsInv, NEW c \in Clients, NEW o \in Clients, Step(o)
    PROVE  PlanOf(c)'
<1>1. Typed /\ CallOf(c) /\ SeenOf(c) /\ PlanOf(c)
  BY DEF ToolsInv
<1>2. ASSUME Decided(c), Tables, call'[c] = call[c], seen'[c] = seen[c], plan'[c] = plan[c]
      PROVE  Decided(c)'
  BY <1>2, ReplyStays DEF Decided
<1>3. CASE c # o
  <2>1. CASE phase[c] \in Holding
    <3>1. ~Commit(o)
      BY <1>3, <2>1 DEF Commit, HoldsShared, Holding
    <3> QED BY <1>1, <1>2, <1>3, <2>1, <3>1, OthersStay, OnlyCommitWrites DEF PlanOf
  <2>2. CASE phase[c] \notin Holding
    BY <1>1, <1>3, <2>2, OthersStay DEF PlanOf
  <2> QED BY <2>1, <2>2
<1>4. CASE c = o
  <2>1. CASE Start(c)
    BY <1>1, <2>1 DEF Start, PlanOf, Typed, Holding
  <2>2. CASE Look(c)
    BY <1>1, <2>2 DEF Look, Ends, Goes, PlanOf, Typed, Holding
  <2>3. CASE Begin(c)
    <3>1. /\ Tables /\ phase[c] = "ready" /\ call' = call /\ seen' = seen
          /\ call[c] \in Calls /\ call[c].tool \in Deferred \cup Immediate
          /\ ReadBefore(c) /\ Store \in Stores
      BY <1>1, <2>3, SentinelsAssumption
         DEF Begin, CallOf, SeenOf, ReadBefore, IsCall, Holding, Typed
    <3>2. PICK now \in Clock :
              LET reply == ReplyOf(c, now) IN
              \/ WritesNothing(c, reply) /\ Returns(c, reply.result)
              \/ /\ ~WritesNothing(c, reply)
                 /\ phase' = [phase EXCEPT ![c] =
                                IF call[c].tool \in Deferred THEN "reading" ELSE "writing"]
                 /\ plan' = [plan EXCEPT ![c] = reply.store]
      BY <2>3 DEF Begin
    <3>3. CASE WritesNothing(c, ReplyOf(c, now)) /\ Returns(c, ReplyOf(c, now).result)
      BY <1>1, <3>1, <3>3 DEF Returns, Ends, Goes, PlanOf, Typed, Holding
    <3>4. CASE /\ ~WritesNothing(c, ReplyOf(c, now))
               /\ phase' = [phase EXCEPT ![c] =
                              IF call[c].tool \in Deferred THEN "reading" ELSE "writing"]
               /\ plan' = [plan EXCEPT ![c] = ReplyOf(c, now).store]
      <4>1. ReplyOf(c, now).result = "ok"
        BY <3>1, <3>4, ReplyIsSound DEF SoundReply, WritesNothing
      <4>2. ReplyOf(c, now)' = ReplyOf(c, now)
        BY <3>1, ReplyStays
      <4>3. plan'[c] = ReplyOf(c, now).store /\ phase'[c] \in Holding
        BY <1>1, <3>4 DEF Typed, Holding
      <4> QED BY <4>1, <4>2, <4>3 DEF PlanOf, Decided
    <3> QED BY <3>2, <3>3, <3>4
  <2>4. CASE Write(c) \/ Wait(c)
    <3>1. \/ phase'[c] \in Holding /\ plan' = plan
          \/ phase'[c] = "done" /\ plan'[c] = NoPlan
      BY <1>1, <2>4 DEF Write, Wait, Upgrade, Ends, Goes, Typed, Holding
    <3>2. phase[c] \in Holding /\ Tables /\ call' = call /\ seen' = seen
      BY <2>4 DEF Write, Wait, Holding
    <3> QED BY <1>1, <1>2, <3>1, <3>2 DEF PlanOf, Holding
  <2>5. CASE Commit(c)
    BY <1>1, <2>5 DEF Commit, Ends, PlanOf, Typed, Holding
  <2>6. CASE Search(c) \/ ListPage(c)
    BY <1>1, <2>6 DEF Search, ListPage, Ends, Goes, PlanOf, Typed, Holding
  <2>7. CASE TimeOut(c) \/ Die(c)
    BY <1>1, <2>7 DEF TimeOut, Die, Ends, PlanOf, Typed, Holding
  <2> QED BY <1>4, <2>1, <2>2, <2>3, <2>4, <2>5, <2>6, <2>7 DEF Step, Works
<1> QED BY <1>3, <1>4

(* At most one call is past its first write. *)
LEMMA OneWriterIsKept ==
    ASSUME ToolsInv, NEW o \in Clients, Step(o)
    PROVE  OneWriter'
<1>1. Typed /\ OneWriter
  BY DEF ToolsInv
<1>2. \A c \in Clients \ {o} : phase'[c] = phase[c]
  BY <1>1, OthersStay
<1>3. \/ phase'[o] \notin Writing
      \/ phase[o] \in Writing
      \/ ~Reserved
  <2>1. CASE Begin(o)
    <3>1. call[o].tool \in Deferred \cup Immediate
      BY <2>1 DEF Begin, ToolsInv, CallOf
    <3> QED BY <1>1, <2>1, <3>1 DEF Begin, Returns, Ends, Goes, Typed, Writing
  <2>2. CASE Write(o)
    BY <1>1, <2>2 DEF Write, Upgrade, Ends, Goes, Typed, Writing
  <2>3. CASE Wait(o)
    BY <1>1, <2>3 DEF Wait, Goes, Typed, Writing
  <2>4. CASE Start(o)
    BY <1>1, <2>4 DEF Start, Typed, Writing
  <2>5. CASE Look(o)
    BY <1>1, <2>5 DEF Look, Ends, Goes, Typed, Writing
  <2>6. CASE Commit(o)
    BY <2>6 DEF Commit, Writing
  <2>7. CASE Search(o) \/ ListPage(o)
    BY <1>1, <2>7 DEF Search, ListPage, Ends, Goes, Typed, Writing
  <2>8. CASE TimeOut(o) \/ Die(o)
    BY <1>1, <2>8 DEF TimeOut, Die, Ends, Typed, Writing
  <2> QED BY <2>1, <2>2, <2>3, <2>4, <2>5, <2>6, <2>7, <2>8 DEF Step, Works
<1> QED BY <1>1, <1>2, <1>3 DEF OneWriter, Reserved, Writing

-----------------------------------------------------------------------------
(* The subject a caller was told its commit is linked under stays there.   *)
LEMMA LinkAnswerIsKept ==
    ASSUME ToolsInv, NEW o \in Clients, Step(o)
    PROVE  LinkAnswerHolds'
<1> SUFFICES ASSUME NEW c \in Clients, IsCall(c, "link")', outcome'[c] = "ok"
             PROVE  links'[<<call'[c].id, call'[c].commit>>] = call'[c].subject
  BY DEF LinkAnswerHolds
<1>1. /\ Typed /\ CallOf(c) /\ SeenOf(c) /\ PlanOf(c) /\ LinkAnswerHolds /\ Store \in Stores
  BY DEF ToolsInv, Typed
<1>2. \A l \in Ids \X Commits : links[l] # NoLink => links'[l] = links[l]
  BY CommitInstalls, OnlyCommitWrites DEF Tables
<1>3. ASSUME call'[c] = call[c]
      PROVE  /\ call[c] \in Calls /\ call[c].tool = "link" /\ IsCall(c, "link")
             /\ <<call[c].id, call[c].commit>> \in Ids \X Commits
             /\ call[c].subject # NoLink
  <2>1. call[c] \in Calls /\ call[c].tool = "link" /\ IsCall(c, "link")
    BY <1>1, <1>3 DEF IsCall, Typed
  <2> QED BY <2>1, CallFields, SentinelsAssumption
<1>4. CASE outcome[c] = "ok" /\ call'[c] = call[c]
  BY <1>1, <1>2, <1>3, <1>4 DEF LinkAnswerHolds
<1>5. CASE c # o
  BY <1>1, <1>4, <1>5, OthersStay
<1>6. CASE c = o
  <2>1. ~Start(c)
    BY <1>1, SentinelsAssumption DEF Start, Typed
  <2>2. call'[c] = call[c]
    <3>1. CASE Look(c) \/ Begin(c)
      BY <3>1 DEF Look, Begin
    <3>2. CASE Write(c) \/ Wait(c)
      BY <3>2 DEF Write, Wait
    <3>3. CASE Commit(c)
      BY <3>3 DEF Commit
    <3>4. CASE Search(c) \/ ListPage(c)
      BY <3>4 DEF Search, ListPage
    <3>5. CASE TimeOut(c) \/ Die(c)
      BY <3>5 DEF TimeOut, Die
    <3> QED BY <1>6, <2>1, <3>1, <3>2, <3>3, <3>4, <3>5 DEF Step, Works
  <2>3. call[c] \in Calls /\ call[c].tool = "link" /\ IsCall(c, "link")
    BY <1>3, <2>2
  <2>4. CASE Look(c)
    <3>1. \A now \in Clock : Refusal(c, now) # "ok"
      BY <2>3, SentinelsAssumption DEF Refusal
    <3> QED BY <1>1, <1>4, <2>2, <2>4, <3>1 DEF Look, Ends, Goes, Typed
  <2>5. CASE Begin(c)
    <3>1. PICK now \in Clock :
              LET reply == ReplyOf(c, now) IN
              \/ WritesNothing(c, reply) /\ Returns(c, reply.result)
              \/ UNCHANGED outcome
      BY <2>5 DEF Begin
    <3>2. CASE UNCHANGED outcome
      BY <1>4, <2>2, <3>2
    <3>3. CASE WritesNothing(c, ReplyOf(c, now)) /\ Returns(c, ReplyOf(c, now).result)
      <4>1. ReplyOf(c, now).result = "ok" /\ ReplyOf(c, now).store = Store
        BY <1>1, <2>3, <3>3 DEF Returns, Ends, Typed, WritesNothing
      <4>2. ReplyOf(c, now) = LinkReply(c, call[c]) /\ ReadBefore(c)
        BY <1>1, <2>3, <2>5 DEF ReplyOf, Begin, SeenOf, ReadBefore
      <4>3. Store.links[<<call[c].id, call[c].commit>>] = call[c].subject
        BY <1>1, <2>3, <4>1, <4>2, LinkReplyIsSound
      <4>4. links' = Store.links
        BY <2>5 DEF Begin, Tables, Store
      <4> QED BY <2>2, <4>3, <4>4
    <3> QED BY <3>1, <3>2, <3>3
  <2>6. CASE Write(c) \/ Wait(c)
    BY <1>1, <1>4, <2>2, <2>6 DEF Write, Wait, Upgrade, Ends, Goes, Typed
  <2>7. CASE Commit(c)
    <3>1. phase[c] \in Holding /\ links' = plan[c].links
      BY <2>7 DEF Commit, Holding
    <3>2. PICK now \in Clock : plan[c] = ReplyOf(c, now).store /\ ReplyOf(c, now).result = "ok"
      BY <3>1, DecidedIsSound DEF Decided
    <3>3. ReplyOf(c, now) = LinkReply(c, call[c]) /\ ReadBefore(c)
      BY <2>3, <3>1, DecidedIsSound DEF ReplyOf
    <3> QED BY <1>1, <2>2, <2>3, <3>1, <3>2, <3>3, LinkReplyIsSound
  <2>8. CASE Search(c) \/ ListPage(c)
    BY <1>1, <2>3, <2>8 DEF Search, ListPage, CallOf
  <2>9. CASE TimeOut(c) \/ Die(c)
    BY <1>1, <2>9 DEF TimeOut, Die, Ends, Typed
  <2> QED BY <1>6, <2>1, <2>4, <2>5, <2>6, <2>7, <2>8, <2>9 DEF Step, Works
<1> QED BY <1>5, <1>6

-----------------------------------------------------------------------------
(***************************************************************************)
(* Ratings: what the logged verdicts make of them, verdict by verdict.     *)
(***************************************************************************)

(* f lists the ratings of record i, stored with e, after each of the first *)
(* m verdicts.                                                             *)
Replays(f, i, e, verdicts, m) ==
    f = [n \in 0..m |-> IF n = 0 THEN StoredWith(e) ELSE Rerated(i, f[n - 1], verdicts[n])]

LEMMA ReplayExtends ==
    ASSUME NEW i, NEW e, NEW verdicts, NEW m \in Nat, NEW f, Replays(f, i, e, verdicts, m)
    PROVE  \E g : Replays(g, i, e, verdicts, m + 1)
<1> DEFINE g == [n \in 0..(m + 1) |-> IF n = 0 THEN StoredWith(e)
                                      ELSE Rerated(i, f[n - 1], verdicts[n])]
<1>1. \A n \in 0..m : f[n] = IF n = 0 THEN StoredWith(e) ELSE Rerated(i, f[n - 1], verdicts[n])
  BY DEF Replays
<1>2. \A n \in 0..m : g[n] = f[n]
  BY <1>1
<1>3. ASSUME NEW n \in 0..(m + 1)
      PROVE  g[n] = IF n = 0 THEN StoredWith(e) ELSE Rerated(i, g[n - 1], verdicts[n])
  <2>1. CASE n = 0
    BY <2>1
  <2>2. CASE n # 0
    <3>1. n - 1 \in 0..m
      BY <2>2
    <3>2. g[n] = Rerated(i, f[n - 1], verdicts[n])
      BY <2>2
    <3> QED BY <1>2, <2>2, <3>1, <3>2
  <2> QED BY <2>1, <2>2
<1>4. Replays(g, i, e, verdicts, m + 1)
  BY <1>3 DEF Replays
<1> QED BY <1>4

LEMMA ReplayExists ==
    ASSUME NEW i, NEW e, NEW verdicts, NEW k \in Nat
    PROVE  \E f : Replays(f, i, e, verdicts, k)
<1> DEFINE S == {m \in Nat : \E f : Replays(f, i, e, verdicts, m)}
<1>1. 0 \in S
  <2>1. Replays([n \in 0..0 |-> StoredWith(e)], i, e, verdicts, 0)
    BY DEF Replays
  <2> QED BY <2>1
<1>2. \A m \in S : m + 1 \in S
  BY ReplayExtends
<1>3. S = Nat
  <2>1. S \in SUBSET Nat
    OBVIOUS
  <2> HIDE DEF S
  <2> QED BY <1>1, <1>2, <2>1, Induction
<1> QED BY <1>3

(* Replays of logs that begin alike begin alike. *)
LEMMA ReplaysAgree ==
    ASSUME NEW i, NEW e, NEW s, NEW t, NEW m \in Nat, NEW k \in Nat, m <= k,
           NEW f, Replays(f, i, e, s, m), NEW g, Replays(g, i, e, t, k),
           \A n \in 1..m : s[n] = t[n]
    PROVE  f[m] = g[m]
<1>1. /\ f[0] = StoredWith(e) /\ \A n \in 1..m : f[n] = Rerated(i, f[n - 1], s[n])
      /\ g[0] = StoredWith(e) /\ \A n \in 1..m : g[n] = Rerated(i, g[n - 1], t[n])
  BY DEF Replays
<1> DEFINE S == {n \in Nat : n <= m => f[n] = g[n]}
<1>2. 0 \in S
  BY <1>1
<1>3. ASSUME NEW n \in S PROVE n + 1 \in S
  <2> SUFFICES ASSUME n + 1 <= m PROVE f[n + 1] = g[n + 1]
    OBVIOUS
  <2>1. n + 1 \in 1..m /\ (n + 1) - 1 = n /\ f[n] = g[n]
    OBVIOUS
  <2> QED BY <1>1, <2>1
<1>4. S = Nat
  <2>1. S \in SUBSET Nat
    OBVIOUS
  <2> HIDE DEF S
  <2> QED BY <1>2, <1>3, <2>1, Induction
<1> QED BY <1>4

LEMMA RatingIsReplayed ==
    ASSUME NEW i, NEW e, NEW verdicts \in Seq(Verdict)
    PROVE  \E f : /\ Replays(f, i, e, verdicts, Len(verdicts))
                  /\ RatingFrom(i, e, verdicts) = f[Len(verdicts)]
<1> DEFINE after == CHOOSE f : f = [n \in 0..Len(verdicts) |->
                        IF n = 0 THEN StoredWith(e) ELSE Rerated(i, f[n - 1], verdicts[n])]
<1>0. Len(verdicts) \in Nat
  OBVIOUS
<1>1. \E f : Replays(f, i, e, verdicts, Len(verdicts))
  BY <1>0, ReplayExists
<1>2. RatingFrom(i, e, verdicts) = after[Len(verdicts)]
  BY Zenon DEF RatingFrom
<1>3. after = CHOOSE f : Replays(f, i, e, verdicts, Len(verdicts))
  BY Zenon DEF Replays
<1> HIDE DEF after
<1>4. Replays(after, i, e, verdicts, Len(verdicts))
  BY <1>1, <1>3, Zenon
<1> QED BY <1>2, <1>4

LEMMA NoVerdict ==
    ASSUME NEW i, NEW e
    PROVE  RatingFrom(i, e, <<>>) = StoredWith(e)
<1>1. <<>> \in Seq(Verdict) /\ Len(<<>>) = 0
  OBVIOUS
<1>2. PICK f : Replays(f, i, e, <<>>, 0) /\ RatingFrom(i, e, <<>>) = f[0]
  BY <1>1, RatingIsReplayed
<1> QED BY <1>2 DEF Replays

(* One more verdict is one more step. *)
LEMMA NextVerdict ==
    ASSUME NEW i, NEW e, NEW verdicts \in Seq(Verdict), NEW v \in Verdict
    PROVE  RatingFrom(i, e, Append(verdicts, v)) = Rerated(i, RatingFrom(i, e, verdicts), v)
<1> DEFINE m == Len(verdicts)
           longer == Append(verdicts, v)
<1>1. /\ m \in Nat /\ m <= m + 1 /\ longer \in Seq(Verdict) /\ Len(longer) = m + 1
      /\ \A n \in 1..m : longer[n] = verdicts[n]
      /\ longer[m + 1] = v
  OBVIOUS
<1>2. PICK f : Replays(f, i, e, verdicts, m) /\ RatingFrom(i, e, verdicts) = f[m]
  BY RatingIsReplayed
<1> HIDE DEF longer, m
<1>3. PICK g : Replays(g, i, e, longer, m + 1) /\ RatingFrom(i, e, longer) = g[m + 1]
  <2>1. \E g : Replays(g, i, e, longer, Len(longer)) /\ RatingFrom(i, e, longer) = g[Len(longer)]
    BY <1>1, RatingIsReplayed
  <2> QED BY <1>1, <2>1
<1>4. \A n \in 1..m : verdicts[n] = longer[n]
  BY <1>1
<1>5. f[m] = g[m]
  BY <1>1, <1>2, <1>3, <1>4, ReplaysAgree
<1>6. g[m + 1] = Rerated(i, g[m], longer[m + 1])
  <2>1. m + 1 \in 0..(m + 1) /\ m + 1 # 0 /\ (m + 1) - 1 = m
    BY <1>1
  <2> QED BY <1>3, <2>1 DEF Replays
<1> QED BY <1>1, <1>2, <1>3, <1>5, <1>6 DEF longer

(* The ratings of a store are what its log makes of the effectiveness each *)
(* record was stored with; and no verdict is on a record that is not there *)
(* yet, whatever it will be stored with.                                   *)
Logged(s, from) == \A i \in Ids : s.ratings[i] = RatingFrom(i, from[i], s.log)
Unjudged(s) ==
    \A i \in Ids : ~Exists(s.table, i) =>
        \A e \in Effectiveness : RatingFrom(i, e, s.log) = StoredWith(e)
RatingsInv ==
    /\ Logged(Store, stored)
    /\ Unjudged(Store)
    /\ \A i \in Ids : ~Exists(db, i) => stored[i] = Default

(* Feedback keeps that: it counts the verdict once, and logs it. *)
LEMMA FeedbackLogs ==
    ASSUME Store \in Stores, Logged(Store, stored), NEW id \in Ids, NEW helpful \in BOOLEAN,
           NEW now \in Clock
    PROVE  Logged(WithFeedback(Store, id, helpful, now), stored)
<1> DEFINE r == ratings[id]
           v == [id |-> id, helpful |-> helpful]
           moved == r.effectiveness + (IF helpful THEN 5 ELSE -3)
           rated == [helped |-> r.helped + (IF helpful THEN 1 ELSE 0),
                     effectiveness |-> Min({100, Max({1, moved})})]
<1>1. /\ ratings \in [Ids -> Rating] /\ log \in Seq(Verdict) /\ v \in Verdict
      /\ \A i \in Ids : ratings[i] = RatingFrom(i, stored[i], log)
  BY StoreFields DEF Logged, Store, Verdict
<1>2. r.helped \in Nat /\ r.effectiveness \in Int
  BY <1>1, EffectivenessIsInt DEF Rating
<1>3. rated = Rerated(id, r, v)
  <2> DEFINE n == IF helpful THEN r.effectiveness + 5 ELSE r.effectiveness - 3
  <2>1. n \in Int /\ moved = n
    BY <1>2
  <2>2. Min({100, Max({1, moved})}) = IF n > 100 THEN 100 ELSE IF n < 1 THEN 1 ELSE n
    <3> HIDE DEF n, moved
    <3> QED BY <2>1, Clamped
  <2>3. r.helped + (IF helpful THEN 1 ELSE 0) = IF helpful THEN r.helped + 1 ELSE r.helped
    BY <1>2
  <2> HIDE DEF r
  <2>4. Rerated(id, r, v) =
            [helped |-> IF helpful THEN r.helped + 1 ELSE r.helped,
             effectiveness |-> IF n > 100 THEN 100 ELSE IF n < 1 THEN 1 ELSE n]
    BY DEF Rerated
  <2> HIDE DEF n, moved, v
  <2> QED BY <2>2, <2>3, <2>4
<1>4. CASE Searchable(db, id, now)
  <2> DEFINE rerated == [ratings EXCEPT ![id] = rated]
             logged == Append(log, v)
  <2>1. WithFeedback(Store, id, helpful, now)
            = [table |-> db, links |-> links, ratings |-> rerated, log |-> logged]
    BY <1>4 DEF WithFeedback, Store
  <2>2. ASSUME NEW i \in Ids
        PROVE  rerated[i] = RatingFrom(i, stored[i], logged)
    <3>1. RatingFrom(i, stored[i], logged) = Rerated(i, ratings[i], v)
      BY <1>1, NextVerdict
    <3> HIDE DEF rated
    <3>2. CASE i = id
      BY <1>1, <1>3, <3>1, <3>2
    <3>3. CASE i # id
      <4>1. Rerated(i, ratings[i], v) = ratings[i]
        BY <3>3 DEF Rerated
      <4> QED BY <1>1, <3>1, <3>3, <4>1
    <3> QED BY <3>2, <3>3
  <2> HIDE DEF rerated, logged
  <2> QED BY <2>1, <2>2 DEF Logged
<1>5. CASE ~Searchable(db, id, now)
  <2>1. WithFeedback(Store, id, helpful, now) = Store
    BY <1>5 DEF WithFeedback, Store
  <2> QED BY <2>1
<1> QED BY <1>4, <1>5

(* A verdict is on a record that is there. *)
LEMMA FeedbackJudges ==
    ASSUME Store \in Stores, Unjudged(Store), NEW id \in Ids, NEW helpful \in BOOLEAN,
           NEW now \in Clock
    PROVE  Unjudged(WithFeedback(Store, id, helpful, now))
<1> DEFINE judged == WithFeedback(Store, id, helpful, now)
           v == [id |-> id, helpful |-> helpful]
<1>1. log \in Seq(Verdict) /\ v \in Verdict /\ judged.table = db
  BY StoreFields, WithFeedbackEffect DEF Verdict
<1>2. CASE Searchable(db, id, now)
  <2>1. judged.log = Append(log, v) /\ Exists(db, id)
    BY <1>2 DEF WithFeedback, Store, Searchable
  <2>2. ASSUME NEW i \in Ids, ~Exists(db, i), NEW e \in Effectiveness
        PROVE  RatingFrom(i, e, Append(log, v)) = StoredWith(e)
    <3>1. RatingFrom(i, e, log) = StoredWith(e)
      BY <2>2 DEF Unjudged, Store
    <3>2. v.id # i
      BY <2>1, <2>2
    <3>3. RatingFrom(i, e, Append(log, v)) = Rerated(i, StoredWith(e), v)
      BY <1>1, <3>1, NextVerdict
    <3> QED BY <3>2, <3>3 DEF Rerated
  <2> HIDE DEF judged, v
  <2>3. Unjudged(judged)
    BY <1>1, <2>1, <2>2 DEF Unjudged
  <2> QED BY <2>3 DEF judged
<1>3. CASE ~Searchable(db, id, now)
  <2>1. judged = Store
    BY <1>3 DEF WithFeedback, Store
  <2> QED BY <2>1
<1> QED BY <1>2, <1>3

(* All calls but feedback and imports leave ratings and log alone. *)
Unrates(s) == s.ratings = ratings /\ s.log = log

LEMMA StoresThatUnrate ==
    ASSUME NEW table, NEW id, NEW commit, NEW subject, NEW result
    PROVE  /\ Unrates([Store EXCEPT !.table = table]) /\ Unrates(Store)
           /\ Unrates(WithLink(Store, id, commit, subject))
           /\ Unrates(Reply(result, Store).store) /\ Unrates(Refused(result).store)
    BY DEF Unrates, Store, WithLink, Refused, Reply

LEMMA OtherRepliesUnrate ==
    ASSUME NEW c \in Clients, call[c].tool \in (Deferred \cup Immediate) \ {"feedback", "import"},
           NEW now \in Clock
    PROVE  Unrates(ReplyOf(c, now).store)
<1> DEFINE t == call[c]
<1>1. CASE t.tool = "capture"
  <2>1. ReplyOf(c, now) = CaptureReply(t, now)
    BY <1>1 DEF ReplyOf
  <2> DEFINE s == [Store EXCEPT
                     !.table = AfterCapture(db, t.scope, t.decision, t.supersedes, now)]
  <2>2. CaptureReply(t, now).store = s
            \/ CaptureReply(t, now).store = Refused("refused").store
    BY DEF CaptureReply, Reply
  <2>3. Unrates(s) /\ Unrates(Refused("refused").store)
    BY StoresThatUnrate
  <2> QED BY <2>1, <2>2, <2>3
<1>2. CASE t.tool = "capture_external"
  <2>1. ReplyOf(c, now) = CaptureExternalReply(t, now)
    BY <1>2 DEF ReplyOf
  <2> DEFINE r == [id |-> t.id, scope |-> t.scope, decision |-> t.decision,
                   valid_from |-> t.valid_from, fact_key |-> t.fact_key,
                   supersedes |-> t.supersedes]
             s == [Store EXCEPT !.table = AfterCaptureExternal(db, r, now)]
  <2>2. CaptureExternalReply(t, now).store = s
            \/ CaptureExternalReply(t, now).store = Refused("refused").store
    BY DEF CaptureExternalReply, Reply
  <2>3. Unrates(s) /\ Unrates(Refused("refused").store)
    BY StoresThatUnrate
  <2> QED BY <2>1, <2>2, <2>3
<1>3. CASE t.tool = "reconcile"
  <2>1. ReplyOf(c, now) = ReconcileReply(t)
    BY <1>3 DEF ReplyOf
  <2> QED BY <2>1, StoresThatUnrate DEF ReconcileReply, Reply
<1>4. CASE t.tool \in {"index", "ask"}
  <2> DEFINE after == AfterMining(db, t.scope, t.mined)
  <2>1. ReplyOf(c, now) = Reply("ok", [Store EXCEPT !.table = after])
    BY <1>4 DEF ReplyOf
  <2> HIDE DEF after
  <2>2. Unrates([Store EXCEPT !.table = after])
    BY StoresThatUnrate
  <2> QED BY <2>1, <2>2 DEF Reply
<1>5. CASE t.tool = "rescope"
  <2> DEFINE after == AfterRescope(db, t.scope, t.to)
  <2>1. ReplyOf(c, now) = Reply("ok", [Store EXCEPT !.table = after])
    BY <1>5 DEF ReplyOf
  <2> HIDE DEF after
  <2>2. Unrates([Store EXCEPT !.table = after])
    BY StoresThatUnrate
  <2> QED BY <2>1, <2>2 DEF Reply
<1>6. CASE t.tool = "link"
  <2>1. ReplyOf(c, now) = LinkReply(c, t)
    BY <1>6 DEF ReplyOf
  <2> DEFINE s == WithLink(Store, seen[c].id, t.commit, t.subject)
             verdict == LinkVerdict(Store, seen[c], t.commit, t.subject)
  <2>2. LinkReply(c, t).store = s \/ LinkReply(c, t).store = Refused(verdict).store
    BY DEF LinkReply, Reply
  <2>3. Unrates(s) /\ Unrates(Refused(verdict).store)
    BY StoresThatUnrate
  <2> QED BY <2>1, <2>2, <2>3
<1>7. CASE t.tool = "link_git"
  <2> DEFINE s == WithLink(Store, t.id, t.commit, t.subject)
  <2>1. ReplyOf(c, now) = Reply("ok", s)
    BY <1>7 DEF ReplyOf
  <2>2. Unrates(s)
    BY StoresThatUnrate
  <2> QED BY <2>1, <2>2 DEF Reply
<1> QED BY <1>1, <1>2, <1>3, <1>4, <1>5, <1>6, <1>7 DEF Deferred, Immediate

(* An import gives each record it stores what the first row brings. *)
LEMMA ImportRates ==
    ASSUME NEW t, ImportReply(t).result = "ok"
    PROVE  /\ ImportReply(t).store.table = AfterImport(db, t.batch)
           /\ ImportReply(t).store.ratings = ImportedRatings(t)
           /\ ImportReply(t).store.log = log
    BY DEF ImportReply, Refused, Reply

(* A commit keeps the ratings in step with the log. *)
LEMMA CommitKeepsRatings ==
    ASSUME ToolsInv, RatingsInv, NEW o \in Clients, Commit(o)
    PROVE  RatingsInv'
<1> DEFINE t == call[o]
           New(i) == ~Exists(db, i) /\ Exists(db', i)
<1>1. /\ phase[o] \in Holding /\ Store' = plan[o] /\ db' = plan[o].table
      /\ stored' = [i \in Ids |-> IF New(i) THEN StoredBy(t, i) ELSE stored[i]]
  BY CommitInstalls DEF Commit, Holding
<1>2. /\ t \in Calls /\ t.tool \in Deferred \cup Immediate /\ Store \in Stores
      /\ Decided(o)
  BY <1>1, DecidedIsSound DEF ToolsInv, Typed
<1>3. PICK now \in Clock : plan[o] = ReplyOf(o, now).store /\ ReplyOf(o, now).result = "ok"
  BY <1>2 DEF Decided
<1>4. \A i \in Ids : Exists(db, i) => Exists(db', i)
  BY <1>2, StoreFields, CommitInstalls, StepKeeps DEF Kept
<1>5. \A i \in Ids : ~Exists(db', i) => ~Exists(db, i) /\ stored'[i] = Default
  BY <1>1, <1>4 DEF RatingsInv
<1>6. Logged(plan[o], stored') /\ Unjudged(plan[o])
  <2>1. CASE t.tool = "feedback"
    <3> DEFINE after == WithFeedback(Store, t.id, t.helpful, now)
    <3>1. t.id \in Ids /\ t.helpful \in BOOLEAN
      BY <1>2, <2>1, CallFields
    <3>2. Logged(after, stored) /\ Unjudged(after) /\ after.table = db
      BY <1>2, <3>1, FeedbackLogs, FeedbackJudges, WithFeedbackEffect DEF RatingsInv
    <3>3. ReplyOf(o, now) = FeedbackReply(t, now)
      BY <2>1 DEF ReplyOf
    <3>4. FeedbackReply(t, now).store \in {after, Store}
      BY DEF FeedbackReply, Refused, Reply
    <3> HIDE DEF after
    <3>5. /\ Logged(plan[o], stored) /\ Unjudged(plan[o]) /\ plan[o].table = db
      BY <1>3, <3>2, <3>3, <3>4 DEF RatingsInv, Store
    <3>6. \A i \in Ids : stored'[i] = stored[i]
      BY <1>1, <3>5
    <3> QED BY <3>5, <3>6 DEF Logged
  <2>2. CASE t.tool = "import"
    <3>1. /\ db' = AfterImport(db, t.batch) /\ plan[o].log = log
          /\ plan[o].ratings = ImportedRatings(t)
      BY <1>1, <1>3, <2>2, ImportRates DEF ReplyOf
    <3>2. t.batch \in ImportBatches
      BY <1>2, <2>2, CallFields
    <3>3. \A i \in ImportedIds(t.batch) \cap Ids : ~Exists(db, i) => New(i)
      BY <3>1, <3>2, FirstOfExists, NullsAssumption DEF AfterImport, Exists
    <3>4. ASSUME NEW i \in Ids
          PROVE  plan[o].ratings[i] = RatingFrom(i, stored'[i], log)
      <4>1. CASE New(i)
        <5>1. i \in ImportedIds(t.batch) /\ StoredBy(t, i) \in Effectiveness
          BY <2>2, <4>1, CommitStores
        <5>2. stored'[i] = Brought(t, i) /\ Brought(t, i) \in Effectiveness
          BY <1>1, <2>2, <4>1, <5>1 DEF StoredBy
        <5>3. plan[o].ratings[i] = StoredWith(Brought(t, i))
          BY <3>1, <4>1, <5>1 DEF ImportedRatings
        <5> QED BY <4>1, <5>2, <5>3 DEF RatingsInv, Unjudged, Store
      <4>2. CASE ~New(i)
        <5>1. stored'[i] = stored[i] /\ plan[o].ratings[i] = ratings[i]
          BY <1>1, <3>1, <3>3, <4>2 DEF ImportedRatings
        <5> QED BY <5>1 DEF RatingsInv, Logged, Store
      <4> QED BY <4>1, <4>2
    <3>5. Logged(plan[o], stored')
      BY <3>1, <3>4 DEF Logged
    <3>6. Unjudged(plan[o])
      BY <1>1, <1>5, <3>1 DEF RatingsInv, Unjudged, Store
    <3> QED BY <3>5, <3>6
  <2>3. CASE t.tool \notin {"feedback", "import"}
    <3>1. Unrates(plan[o])
      BY <1>2, <1>3, <2>3, OtherRepliesUnrate
    <3>2. \A i \in Ids : stored'[i] = stored[i]
      BY <1>1, <2>3 DEF RatingsInv, StoredBy
    <3> QED BY <1>1, <1>5, <3>1, <3>2 DEF RatingsInv, Logged, Unjudged, Unrates, Store
  <2> QED BY <2>1, <2>2, <2>3
<1> QED BY <1>1, <1>5, <1>6 DEF RatingsInv, Logged, Unjudged

-----------------------------------------------------------------------------
(***************************************************************************)
(* The theorems.                                                           *)
(***************************************************************************)
LEMMA InvHoldsAtFirst == ToolsInit => ToolsInv
<1> SUFFICES ASSUME ToolsInit PROVE ToolsInv
  OBVIOUS
<1>1. Store \in Stores
  <2>1. db \in Table
    BY TablesAssumption DEF ToolsInit, Table
  <2>2. links \in Links
    BY DEF ToolsInit, Links
  <2>3. ratings \in [Ids -> Rating]
    BY DEF ToolsInit, Rating, StoredWith, Default, Effectiveness
  <2>4. log \in Seq(Verdict)
    BY DEF ToolsInit
  <2> QED BY <2>1, <2>2, <2>3, <2>4, FieldsStore DEF Store
<1>2. program \in [Clients -> Seq(Calls)]
  BY ProgramsAssumption DEF ToolsInit
<1>3. Typed
  BY <1>1, <1>2 DEF ToolsInit, Typed, Phases, Default, Effectiveness
<1>4. /\ \A c \in Clients : CallOf(c) /\ SeenOf(c) /\ PlanOf(c)
      /\ OneWriter
  BY DEF ToolsInit, CallOf, SeenOf, PlanOf, OneWriter, Holding, Writing
<1>5. LinkAnswerHolds
  BY SentinelsAssumption DEF ToolsInit, LinkAnswerHolds
<1> QED BY <1>3, <1>4, <1>5 DEF ToolsInv

(* The invariant is inductive. *)
LEMMA InvIsKept == ToolsInv /\ [ToolsNext]_vars => ToolsInv'
<1> SUFFICES ASSUME ToolsInv, [ToolsNext]_vars PROVE ToolsInv'
  OBVIOUS
<1>1. CASE ToolsNext
  <2>1. PICK o \in Clients : Step(o)
    BY <1>1 DEF ToolsNext, Step
  <2> QED BY <2>1, StepIsTypedToo, CallIsKept, SeenIsKept, PlanIsKept, OneWriterIsKept,
             LinkAnswerIsKept DEF ToolsInv
<1>2. CASE UNCHANGED vars
  <2>1. \A c \in Clients, now \in Clock : ReplyOf(c, now)' = ReplyOf(c, now)
    BY <1>2, ReplyStays DEF vars, Tables
  <2>2. /\ Tables /\ Store' = Store /\ program' = program /\ call' = call /\ phase' = phase
        /\ outcome' = outcome /\ seen' = seen /\ plan' = plan
    BY <1>2 DEF vars, Tables, Store
  <2>3. Typed' /\ OneWriter'
    BY <2>2 DEF ToolsInv, Typed, OneWriter, Tables
  <2>4. ASSUME NEW c \in Clients PROVE CallOf(c)' /\ SeenOf(c)' /\ PlanOf(c)'
    BY <2>1, <2>2 DEF ToolsInv, CallOf, SeenOf, PlanOf, Decided, IsCall
  <2>5. LinkAnswerHolds'
    BY <2>2 DEF ToolsInv, LinkAnswerHolds, IsCall, Tables
  <2> QED BY <2>3, <2>4, <2>5 DEF ToolsInv
<1> QED BY <1>1, <1>2

THEOREM ToolsInvariant == ToolsSpec => []ToolsInv
  BY InvHoldsAtFirst, InvIsKept, PTL DEF ToolsSpec

(* The state has its types, a transaction has a plan while it is open, and *)
(* at most one client holds RESERVED.                                      *)
THEOREM ToolsTypeCorrect == ToolsSpec => []ToolsTypeOK
<1>1. ToolsInv => ToolsTypeOK
  <2> SUFFICES ASSUME ToolsInv PROVE ToolsTypeOK
    OBVIOUS
  <2>1. ASSUME NEW c \in Clients
        PROVE  plan[c] # NoPlan <=> phase[c] \in Holding
    BY DecidedIsSound, SentinelsAssumption DEF ToolsInv, PlanOf
  <2> QED BY <2>1 DEF ToolsInv, Typed, OneWriter, ToolsTypeOK, Holding, Writing
<1> QED BY <1>1, ToolsInvariant, PTL

(* Concurrent calls write the decisions as DecisionStore does, one whole   *)
(* operation after the other, for any number of clients, whoever dies or   *)
(* times out.                                                              *)
THEOREM WritesSerialize == ToolsSpec => WritesAreSerial
<1>1. ToolsInv /\ [ToolsNext]_vars => [Next]_db
  <2> SUFFICES ASSUME ToolsInv, [ToolsNext]_vars PROVE [Next]_db
    OBVIOUS
  <2>1. CASE UNCHANGED vars
    BY <2>1 DEF vars
  <2>2. CASE ToolsNext
    <3>1. PICK o \in Clients : Step(o)
      BY <2>2 DEF ToolsNext, Step
    <3> QED BY <3>1, CommitInstalls, OnlyCommitWrites DEF Tables
  <2> QED BY <2>1, <2>2
<1> QED BY <1>1, ToolsInvariant, PTL DEF ToolsSpec, WritesAreSerial

(* The subject a caller was told its commit is linked under is the one     *)
(* that is stored, whatever the others link or import.                     *)
THEOREM LinkAnswersHold == ToolsSpec => []LinkAnswerHolds
<1>1. ToolsInv => LinkAnswerHolds
  BY DEF ToolsInv
<1> QED BY <1>1, ToolsInvariant, PTL

(* The rating of a record is what the logged verdicts on it make, in their *)
(* order, of the effectiveness it was stored with, by an import's row or   *)
(* by default: no verdict is counted and not logged, or logged and not     *)
(* counted, and no import rates a record that is there, however many       *)
(* clients rate, import and retry.                                         *)
THEOREM FeedbackAddsUp == ToolsSpec => []FeedbackIsLogged
<1>1. ToolsInit => RatingsInv
  <2> SUFFICES ASSUME ToolsInit PROVE RatingsInv
    OBVIOUS
  <2>1. /\ log = <<>> /\ \A i \in Ids : ratings[i] = StoredWith(Default) /\ stored[i] = Default
    BY DEF ToolsInit
  <2> QED BY <2>1, NoVerdict DEF RatingsInv, Logged, Unjudged, Store
<1>2. RatingsInv => FeedbackIsLogged
  BY DEF RatingsInv, FeedbackIsLogged, Logged, Store
<1>3. ToolsInv /\ RatingsInv /\ [ToolsNext]_vars => RatingsInv'
  <2> SUFFICES ASSUME ToolsInv, RatingsInv, [ToolsNext]_vars PROVE RatingsInv'
    OBVIOUS
  <2>1. CASE Tables
    BY <2>1 DEF Tables, RatingsInv, Logged, Unjudged, Store
  <2>2. CASE ~Tables
    <3>1. PICK o \in Clients : Commit(o)
      BY <2>2, OnlyCommitWrites DEF ToolsNext, Step, vars, Tables
    <3> QED BY <3>1, CommitKeepsRatings
  <2> QED BY <2>1, <2>2
<1> QED BY <1>1, <1>2, <1>3, ToolsInvariant, PTL DEF ToolsSpec

(* A link is added for a caller only while its record is in the scope the  *)
(* caller named.                                                           *)
THEOREM LinksAreAuthorised == ToolsSpec => LinkIsAuthorised
<1>1. ToolsInv /\ [ToolsNext]_vars =>
        [\A c \in Clients :
           IsCall(c, "link") /\ phase[c] = "pending" /\ phase'[c] = "done" /\ outcome'[c] = "ok"
           => InScope(db, call[c].id, call[c].scope)]_<<phase, outcome>>
  <2> SUFFICES ASSUME ToolsInv, ToolsNext, NEW c \in Clients,
                      IsCall(c, "link"), phase[c] = "pending",
                      phase'[c] = "done", outcome'[c] = "ok"
               PROVE  InScope(db, call[c].id, call[c].scope)
    BY DEF vars
  <2>1. PICK o \in Clients : Step(o)
    BY DEF ToolsNext, Step
  <2>2. phase[c] \in Holding /\ Typed
    BY DEF Holding, ToolsInv
  <2>3. c = o
    BY <2>1, <2>2, OthersStay
  <2>4. PICK now \in Clock : plan[c] = ReplyOf(c, now).store /\ ReplyOf(c, now).result = "ok"
    BY <2>2, DecidedIsSound DEF Decided
  <2>5. /\ call[c] \in Calls /\ call[c].tool = "link" /\ ReadBefore(c) /\ Store \in Stores
        /\ ReplyOf(c, now) = LinkReply(c, call[c])
    BY <2>2, DecidedIsSound DEF IsCall, ReplyOf, Typed
  <2> QED BY <2>4, <2>5, LinkReplyIsSound
<1> QED BY <1>1, ToolsInvariant, PTL DEF ToolsSpec, LinkIsAuthorised

(* A search answers only with records that are in the scope, and not       *)
(* superseded, when it answers.                                            *)
THEOREM SearchesAreCurrent == ToolsSpec => SearchAnswersAreCurrent
<1>1. ToolsInv /\ [ToolsNext]_vars =>
        [\A c \in Clients : phase[c] = "ranking" /\ outcome'[c] = "ok" =>
           \A i \in seen'[c] : InScope(db, i, call[c].scope) /\ db[i].superseded_by = Null
        ]_<<phase, outcome, seen>>
  <2> SUFFICES ASSUME ToolsInv, ToolsNext, NEW c \in Clients, phase[c] = "ranking",
                      outcome'[c] = "ok", NEW i \in seen'[c]
               PROVE  InScope(db, i, call[c].scope) /\ db[i].superseded_by = Null
    BY DEF vars
  <2>1. PICK o \in Clients : Step(o)
    BY DEF ToolsNext, Step
  <2>2. Typed /\ outcome[c] # "ok"
    BY SentinelsAssumption DEF ToolsInv, CallOf
  <2>3. c = o
    BY <2>1, <2>2, OthersStay
  <2>4. Search(c)
    <3>1. ~TimeOut(c) /\ ~Die(c)
      BY <2>2 DEF TimeOut, Die, Ends, Typed
    <3>2. ~Start(c) /\ ~Look(c)
      BY DEF Start, Look
    <3>3. ~Begin(c) /\ ~Write(c)
      BY DEF Begin, Write
    <3>4. ~Wait(c) /\ ~Commit(c)
      BY DEF Wait, Commit
    <3>5. ~ListPage(c)
      BY DEF ListPage
    <3> QED BY <2>1, <2>3, <3>1, <3>2, <3>3, <3>4, <3>5 DEF Step, Works
  <2>5. PICK now \in Clock : i \in Lexical(call[c].scope, now)
    BY <2>2, <2>4 DEF Search, Typed
  <2> QED BY <2>5 DEF Lexical, Searchable, InScope
<1> QED BY <1>1, ToolsInvariant, PTL DEF ToolsSpec, SearchAnswersAreCurrent

(***************************************************************************)
(* What one operation after the other keeps, their concurrent use keeps.   *)
(***************************************************************************)

(* Only an import can close a cycle of supersessions, what was written of  *)
(* a record's history stays, a record that is retired can be read to the   *)
(* end of its chain, and a chain that can be read only gets longer         *)
(* (db/capture_store.rs, db/external_supersession.rs: one transaction per  *)
(* operation).                                                             *)
THEOREM ConcurrentHistory ==
    ToolsSpec => /\ OnlyImportsCloseCycles /\ LifecycleWriteOnce
                 /\ RetiredRecordIsReadable /\ ChainsOnlyGrow
<1>1. ToolsInv => TypeOK
  BY StoreFields DEF ToolsInv, Typed
<1>2. TypeOK /\ [Next]_db =>
        /\ [\/ \A S \in SUBSET Ids :
                  Trap(db', S) => \E T \in SUBSET S : Trap(db, T)
            \/ ImportExternalStep]_db
        /\ [\A i \in Ids : Exists(db, i) =>
              /\ Exists(db', i)
              /\ Envelope(db'[i]) = [Envelope(db[i]) EXCEPT !.scope = db'[i].scope]
              /\ \/ /\ db'[i].superseded_by = db[i].superseded_by
                    /\ db'[i].valid_until = db[i].valid_until
                 \/ db[i].superseded_by = Null /\ db'[i].superseded_by \in Ids]_db
  BY StepAddsNoTrap, StepKeeps DEF Kept
<1>3. TypeOK /\ [Next]_db =>
        [\A i \in Ids :
          /\ Exists(db, i) /\ db[i].superseded_by = Null
          /\ db'[i].superseded_by \in Ids
          => ChainIsReadable(db', db'[i].scope, i)]_db
  BY StepLeavesReadable
<1>4. TypeOK /\ [Next]_db
        => [\A i \in Ids :
              LET before == Walk(db, Null, i)
                  after == Walk(db', Null, i)
              IN  before.fault = "none" /\ after.fault = "none"
                      => IsPrefix(before.chain, after.chain)]_db
  BY StepGrowsChain
<1> QED BY <1>1, <1>2, <1>3, <1>4, ToolsInvariant, WritesSerialize, PTL
        DEF WritesAreSerial, OnlyImportsCloseCycles, LifecycleWriteOnce,
            RetiredRecordIsReadable, ChainsOnlyGrow

(* Clients that find a store without cycles and without links between      *)
(* scopes leave it without them, if the imports carry no successor: no two *)
(* transactions close a cycle, or link two scopes, between them.           *)
THEOREM ConcurrentLineage ==
    ASSUME ImportsCarryNoSuccessor
    PROVE  /\ ToolsSpec /\ NoSupersessionCycle => []NoSupersessionCycle
           /\ ToolsSpec /\ SupersessionStaysInScope => []SupersessionStaysInScope
<1>1. ToolsInv => TypeOK
  BY StoreFields DEF ToolsInv, Typed
<1>2. TypeOK /\ NoSupersessionCycle /\ [Next]_db => NoSupersessionCycle'
  BY StepKeepsAcyclic
<1>3. TypeOK /\ SupersessionStaysInScope /\ [Next]_db => SupersessionStaysInScope'
  BY StepStaysInScope
<1>4. ToolsSpec /\ NoSupersessionCycle => []NoSupersessionCycle
  BY <1>1, <1>2, ToolsInvariant, WritesSerialize, PTL DEF WritesAreSerial
<1>5. ToolsSpec /\ SupersessionStaysInScope => []SupersessionStaysInScope
  BY <1>1, <1>3, ToolsInvariant, WritesSerialize, PTL DEF WritesAreSerial
<1> QED BY <1>4, <1>5

(* Two captures of one fact that race leave one record of it open: only an *)
(* import, or a move that merges two scopes, can leave two                 *)
(* (db/capture_store.rs:209).                                              *)
THEOREM ConcurrentCapturesAgree ==
    ToolsSpec => [][OneOpenRecordPerFact =>
                       OneOpenRecordPerFact' \/ ImportExternalStep \/ RescopeStep]_db
<1>1. ToolsInv => TypeOK
  BY StoreFields DEF ToolsInv, Typed
<1>2. TypeOK /\ [Next]_db =>
        [OneOpenRecordPerFact =>
            OneOpenRecordPerFact' \/ ImportExternalStep \/ RescopeStep]_db
  BY StepKeepsOneOpen
<1> QED BY <1>1, <1>2, ToolsInvariant, WritesSerialize, PTL DEF WritesAreSerial

(* And whatever client reads a record at whatever moment gets an answer it *)
(* can use (db/evidence.rs:get_current_evidence).                          *)
THEOREM ConcurrentReadsResolve ==
    ASSUME SoundInputs, ImportsCarryNoSuccessor, ImportsAreOpen
    PROVE  ToolsSpec /\ NoSupersessionCycle /\ SupersessionStaysInScope /\ SoundRows
               => [](CapturedRecordsResolve /\ PositiveValidity)
<1>1. ToolsInv => TypeOK
  BY StoreFields DEF ToolsInv, Typed
<1>2. TypeOK /\ SoundRows /\ [Next]_db => SoundRows'
  BY StepKeepsSoundRows
<1>3. TypeOK /\ NoSupersessionCycle /\ SupersessionStaysInScope /\ SoundRows
        => CapturedRecordsResolve
  BY UndamagedResolves
<1>4. SoundRows => PositiveValidity
  BY DEF SoundRows, SoundRow, AgreedWindow, PositiveValidity
<1>5. ToolsSpec /\ SoundRows => []SoundRows
  BY <1>1, <1>2, ToolsInvariant, WritesSerialize, PTL DEF WritesAreSerial
<1> QED BY <1>1, <1>3, <1>4, <1>5, ToolsInvariant, ConcurrentLineage, PTL
================================================================================
