------------------------- MODULE HistoryReadersProofs -------------------------
(***************************************************************************)
(* Theorems about HistoryReaders, for every value of the constants: reads  *)
(* made of several snapshots fit together, whatever the store's operations *)
(* did between them.                                                       *)
(***************************************************************************)
EXTENDS HistoryReaders, ExactReadsProofs

-----------------------------------------------------------------------------
(* The first n records of the chain from root lead on to a next one each:  *)
(* that is what no operation takes back.                                   *)
Links(d, root, n) ==
    \A m \in 0..(n - 1) :
        /\ Cursors(d, root)[m] \in Ids
        /\ Exists(d, Cursors(d, root)[m]) /\ HasSuccessor(d, Cursors(d, root)[m])

(* A reader has received the beginning of the chain ...                    *)
Received(d, root, ids) ==
    /\ ids \in Seq(Ids) /\ Len(ids) <= MaxChain
    /\ \A n \in 1..Len(ids) : ids[n] = Cursors(d, root)[n - 1]
    /\ Links(d, root, Len(ids) - 1)

(* ... and holds the cursor of what follows it.                            *)
Expecting(d, root, ids, cursor) ==
    /\ Links(d, root, Len(ids))
    /\ cursor \in Ids /\ cursor = Cursors(d, root)[Len(ids)]

(* A step of the store takes neither away. *)
LEMMA StepKeepsLinks ==
    ASSUME TypeOK, [Next]_db, NEW root, NEW n \in 0..MaxChain, Links(db, root, n)
    PROVE  /\ Links(db', root, n)
           /\ \A m \in 0..n : Cursors(db', root)[m] = Cursors(db, root)[m]
<1>1. \A m \in 0..(n - 1) :
          LET i == Cursors(db, root)[m] IN
          i \in Ids /\ Exists(db, i) /\ HasSuccessor(db, i)
  BY DEF Links
<1>2. /\ \A m \in 0..n : Cursors(db', root)[m] = Cursors(db, root)[m]
      /\ \A m \in 0..(n - 1) : HasSuccessor(db', Cursors(db, root)[m])
  BY <1>1, StepKeepsCursors
<1>3. ASSUME NEW m \in 0..(n - 1)
      PROVE  /\ Cursors(db', root)[m] \in Ids /\ Exists(db', Cursors(db', root)[m])
             /\ HasSuccessor(db', Cursors(db', root)[m])
  <2>1. m \in 0..n
    BY ChainAssumption
  <2>2. Cursors(db', root)[m] = Cursors(db, root)[m]
    BY <1>2, <2>1
  <2>3. Cursors(db, root)[m] \in Ids /\ Exists(db, Cursors(db, root)[m])
    BY <1>1
  <2>4. Exists(db', Cursors(db, root)[m])
    BY <2>3, StepKeeps DEF Kept
  <2> QED BY <1>2, <2>2, <2>3, <2>4
<1> QED BY <1>2, <1>3 DEF Links

LEMMA StepKeepsReceived ==
    ASSUME TypeOK, [Next]_db, NEW root, NEW ids, Received(db, root, ids)
    PROVE  /\ Received(db', root, ids)
           /\ \A cursor : Expecting(db, root, ids, cursor)
                              => Expecting(db', root, ids, cursor)
<1>1. Len(ids) \in Nat /\ Len(ids) <= MaxChain /\ MaxChain \in Nat
  BY ChainAssumption DEF Received
<1>2. CASE Len(ids) = 0
  <2>1. Received(db', root, ids)
    BY <1>2 DEF Received, Links
  <2>2. Links(db', root, Len(ids))
    BY <1>2 DEF Links
  <2>3. Cursors(db', root)[0] = Cursors(db, root)[0]
    BY CursorSteps
  <2> QED BY <1>2, <2>1, <2>2, <2>3 DEF Expecting
<1>3. CASE Len(ids) # 0
  <2>1. Len(ids) - 1 \in 0..MaxChain /\ Len(ids) \in 0..MaxChain
    BY <1>1, <1>3
  <2>2. /\ Links(db', root, Len(ids) - 1)
        /\ \A m \in 0..(Len(ids) - 1) : Cursors(db', root)[m] = Cursors(db, root)[m]
    BY <2>1, StepKeepsLinks DEF Received
  <2>3. \A n \in 1..Len(ids) : ids[n] = Cursors(db', root)[n - 1]
    <3>1. \A n \in 1..Len(ids) : n - 1 \in 0..(Len(ids) - 1)
      BY <1>1
    <3> QED BY <2>2, <3>1 DEF Received
  <2>4. ASSUME NEW cursor, Expecting(db, root, ids, cursor)
        PROVE  Expecting(db', root, ids, cursor)
    <3>1. /\ Links(db', root, Len(ids))
          /\ \A m \in 0..Len(ids) : Cursors(db', root)[m] = Cursors(db, root)[m]
      BY <2>1, <2>4, StepKeepsLinks DEF Expecting
    <3>2. Len(ids) \in 0..Len(ids)
      BY <1>1
    <3> QED BY <2>4, <3>1, <3>2 DEF Expecting
  <2> QED BY <2>2, <2>3, <2>4 DEF Received
<1> QED BY <1>2, <1>3

-----------------------------------------------------------------------------
(***************************************************************************)
(* One page.                                                               *)
(***************************************************************************)

(* A chain read without a fault holds no record twice, goes at least as    *)
(* far as the reader knows it does, and so holds the reader's cursor once, *)
(* behind what was received.                                               *)
LEMMA CursorInChain ==
    ASSUME NEW d, NEW sc, NEW root \in Ids, NEW ids, NEW cursor,
           Received(d, root, ids), Expecting(d, root, ids, cursor),
           NEW n, EndsAt(d, sc, root, n), Fault(d, sc, Cursors(d, root), n) = "none"
    PROVE  /\ Len(ids) <= n
           /\ \A m \in 0..n : Cursors(d, root)[m] = cursor => m = Len(ids)
<1> DEFINE k == Len(ids)
           chain == Cursors(d, root)
<1>1. n \in Nat /\ k \in Nat /\ n <= MaxChain - 1 /\ MaxChain \in Nat
  BY ChainAssumption DEF EndsAt, Received
<1>2. ~HasSuccessor(d, chain[n])
  BY DEF EndsAt, Stops
<1>3. k <= n
  <2> SUFFICES ASSUME n < k PROVE FALSE
    BY <1>1
  <2>1. n \in 0..(k - 1)
    BY <1>1
  <2> QED BY <1>2, <2>1 DEF Expecting, Links
<1>4. ASSUME NEW p \in 0..n, NEW q \in 0..n, p < q PROVE chain[p] # chain[q]
  <2>1. p \in 0..(q - 1)
    BY <1>1, <1>4
  <2>2. CASE q = n
    BY <2>1, <2>2 DEF Fault
  <2>3. CASE q # n
    <3>1. q \in 0..(n - 1)
      BY <1>1, <2>3
    <3> QED BY <2>1, <3>1, WalkPasses
  <2> QED BY <2>2, <2>3
<1>5. k \in 0..n /\ chain[k] = cursor
  BY <1>1, <1>3 DEF Expecting
<1> HIDE DEF chain
<1>6. ASSUME NEW m \in 0..n, chain[m] = cursor PROVE m = k
  BY <1>1, <1>4, <1>5, <1>6
<1> QED BY <1>3, <1>6 DEF chain

(* The error codes of a page. *)
Errors == {"cycle", "not_found", "broken_chain", "invalid_temporal_data",
           "traversal_limit", "invalid_cursor", "response_too_large"}

(* A page is an error, or continues what was received: there is more and   *)
(* its cursor says where, or the reader has the whole chain.               *)
GoesOn(root, ids, page, chain) ==
    \/ page.code \in Errors /\ page.records = <<>> /\ page.next = Null
    \/ /\ page.code = "ok"
       /\ Received(db, root, ids \o page.records)
       /\ page.next # Null => Expecting(db, root, ids \o page.records, page.next)
       /\ page.next = Null => ids \o page.records = chain

LEMMA PageContinues ==
    ASSUME NEW sc, NEW root \in Ids, NEW ids, NEW cursor, NEW limit \in Limits,
           Received(db, root, ids), Expecting(db, root, ids, cursor)
    PROVE  GoesOn(root, ids, HistoryPage(Walk(db, sc, root), cursor, limit),
                  Walk(db, sc, root).chain)
<1> DEFINE walk == Walk(db, sc, root)
           chain == walk.chain
           starts == {m \in DOMAIN chain : chain[m] = cursor}
           start == CHOOSE m \in starts : TRUE
           end == IF start + limit - 1 < Len(chain) THEN start + limit - 1 ELSE Len(chain)
           records == SubSeq(chain, start, end)
           page == HistoryPage(walk, cursor, limit)
<1> SUFFICES GoesOn(root, ids, page, chain)
  OBVIOUS
<1>1. PICK n : EndsAt(db, sc, root, n)
  BY WalkEnds
<1>2. walk.fault = Fault(db, sc, Cursors(db, root), n)
  BY <1>1, WalkAtItsEnd
<1>3. /\ chain \in Seq(Ids) /\ Len(chain) = n + 1
      /\ \A m \in 1..(n + 1) : chain[m] = Cursors(db, root)[m - 1]
  BY <1>1, ChainOfWalk
<1>4. /\ n \in Nat /\ n <= MaxChain - 1 /\ MaxChain \in Nat
      /\ ids \in Seq(Ids) /\ Len(ids) \in Nat
      /\ limit \in Nat /\ limit >= 1
  BY <1>1, ChainAssumption, ReadersAssumption DEF EndsAt, Received
<1>5. walk.fault # "none" => walk.fault \in Errors
  BY <1>2 DEF Fault, Errors
<1>6. CASE walk.fault # "none"
  BY <1>5, <1>6 DEF HistoryPage, FailedPage, GoesOn
<1>7. CASE walk.fault = "none" /\ starts = {}
  BY <1>7 DEF HistoryPage, FailedPage, Errors, GoesOn
<1>8. CASE walk.fault = "none" /\ starts # {} /\ PageWeight(records) > MaxPageWeight
  BY <1>8 DEF HistoryPage, FailedPage, Errors, GoesOn
<1>9. CASE walk.fault = "none" /\ starts # {} /\ ~(PageWeight(records) > MaxPageWeight)
  <2>1. page = [code |-> "ok", records |-> records, next |-> NextCursor(chain, end)]
    BY <1>9 DEF HistoryPage
  <2>2. start \in starts
    BY <1>9
  <2> HIDE DEF start
  <2>3. start \in 1..(n + 1) /\ start - 1 \in 0..n /\ Cursors(db, root)[start - 1] = cursor
    BY <1>3, <1>4, <2>2
  <2>4. start = Len(ids) + 1
    <3>1. Fault(db, sc, Cursors(db, root), n) = "none"
      BY <1>2, <1>9
    <3>2. \A m \in 0..n : Cursors(db, root)[m] = cursor => m = Len(ids)
      BY <1>1, <3>1, CursorInChain
    <3>3. start - 1 = Len(ids)
      BY <2>3, <3>2
    <3> QED BY <1>4, <2>3, <3>3
  <2> HIDE DEF walk, chain, page
  <2>5. end \in Nat /\ start <= end /\ end <= n + 1
    BY <1>3, <1>4, <2>3
  <2> HIDE DEF end
  <2>6. /\ records \in Seq(Ids) /\ Len(records) = end - Len(ids)
        /\ \A m \in 1..(end - Len(ids)) : records[m] = chain[Len(ids) + m]
    BY <1>3, <1>4, <2>3, <2>4, <2>5
  <2> HIDE DEF records
  <2>7. /\ ids \o records \in Seq(Ids) /\ Len(ids \o records) = end
        /\ \A m \in 1..end : (ids \o records)[m]
                                 = IF m <= Len(ids) THEN ids[m] ELSE records[m - Len(ids)]
    BY <1>4, <2>4, <2>5, <2>6
  <2>8. ASSUME NEW m \in 1..end
        PROVE  (ids \o records)[m] = chain[m] /\ chain[m] = Cursors(db, root)[m - 1]
    <3>1. m \in 1..(n + 1)
      BY <1>4, <2>5
    <3>2. CASE m <= Len(ids)
      <4>1. ids[m] = Cursors(db, root)[m - 1]
        BY <1>4, <3>2 DEF Received
      <4> QED BY <1>3, <2>7, <3>1, <3>2, <4>1
    <3>3. CASE ~(m <= Len(ids))
      <4>1. m - Len(ids) \in 1..(end - Len(ids)) /\ Len(ids) + (m - Len(ids)) = m
        BY <1>4, <2>5, <3>3
      <4>2. records[m - Len(ids)] = chain[m]
        BY <2>6, <4>1
      <4> QED BY <1>3, <2>7, <3>1, <3>3, <4>2
    <3> QED BY <3>2, <3>3
  <2>9. \A k \in 0..n : Links(db, root, k)
    <3> SUFFICES ASSUME NEW k \in 0..n, NEW m \in 0..(k - 1)
                 PROVE  /\ Cursors(db, root)[m] \in Ids
                        /\ Exists(db, Cursors(db, root)[m])
                        /\ HasSuccessor(db, Cursors(db, root)[m])
      BY DEF Links
    <3>1. m \in 0..(n - 1)
      BY <1>4
    <3> QED BY <1>1, <3>1, WalkPassesEach DEF Visible
  <2>10. Received(db, root, ids \o records)
    <3>1. end - 1 \in 0..n /\ end <= MaxChain
      BY <1>4, <2>4, <2>5
    <3> QED BY <2>7, <2>8, <2>9, <3>1 DEF Received
  <2>11. CASE end = Len(chain)
    <3>1. ids \o records = chain
      <4> DEFINE got == ids \o records
      <4>1. /\ got \in Seq(Ids) /\ chain \in Seq(Ids) /\ Len(got) = Len(chain)
            /\ \A m \in 1..Len(got) : got[m] = chain[m]
        BY <1>3, <2>7, <2>8, <2>11
      <4> HIDE DEF got
      <4>2. got = chain
        BY <4>1
      <4> QED BY <4>2 DEF got
    <3>2. NextCursor(chain, end) = Null
      BY <2>11 DEF NextCursor
    <3>3. page.code = "ok" /\ page.records = records /\ page.next = Null
      BY <2>1, <3>2
    <3> QED BY <2>10, <3>1, <3>3 DEF GoesOn
  <2>12. CASE end # Len(chain)
    <3>1. end \in 0..n /\ end + 1 \in 1..(n + 1) /\ (end + 1) - 1 = end
      BY <1>3, <1>4, <2>5, <2>12
    <3>2. NextCursor(chain, end) = Cursors(db, root)[end]
      BY <1>3, <2>12, <3>1 DEF NextCursor
    <3>3. Cursors(db, root)[end] \in Ids
      BY <1>1, <3>1, WalkPasses
    <3>4. Expecting(db, root, ids \o records, NextCursor(chain, end))
      BY <2>7, <2>9, <3>1, <3>2, <3>3 DEF Expecting
    <3>5. NextCursor(chain, end) # Null
      BY <3>2, <3>3, NullsAssumption
    <3> QED BY <2>1, <2>10, <3>4, <3>5 DEF GoesOn
  <2> QED BY <2>11, <2>12
<1> QED BY <1>6, <1>7, <1>8, <1>9

-----------------------------------------------------------------------------
(***************************************************************************)
(* The inductive invariant: what each reader has is the beginning of the   *)
(* chain, and while it reads, its cursor is what comes next.               *)
(***************************************************************************)
PagerOK ==
    /\ pager \in [root : Ids, scope : Scopes, cursor : Ids \cup {Null},
                  records : Seq(Ids), status : Errors \cup {"reading", "complete"}]
    /\ Received(db, pager.root, pager.records)
    /\ pager.status = "reading"
           => Expecting(db, pager.root, pager.records, pager.cursor)

Listed == [n \in DOMAIN listing.records |-> listing.records[n].id]
Twice(ids) == \E m, n \in DOMAIN ids : m # n /\ ids[m] = ids[n]

ListingOK ==
    /\ listing \in [root : Ids, cursor : Ids,
                    records : Seq([id : Ids, superseded_by : Ids \cup {Null, Blank}]),
                    status : {"reading", "done"}]
    /\ Received(db, listing.root, Listed) /\ ~Twice(Listed)
    /\ listing.status = "reading"
           => Expecting(db, listing.root, Listed, listing.cursor)

ReadersInv == TypeOK /\ PagerOK /\ ListingOK

(* Before anything is read. *)
LEMMA NothingReceived ==
    ASSUME NEW d, NEW root \in Ids
    PROVE  Received(d, root, <<>>) /\ Expecting(d, root, <<>>, root)
BY CursorSteps, ChainAssumption DEF Received, Expecting, Links

LEMMA ReadersInitInv == ReadersInit => ReadersInv
<1> SUFFICES ASSUME ReadersInit PROVE ReadersInv
  OBVIOUS
<1>1. TypeOK
  BY DEF ReadersInit, Init, TypeOK
<1>2. PICK root \in Ids, sc \in Scopes :
          pager = [root |-> root, scope |-> sc, cursor |-> root,
                   records |-> <<>>, status |-> "reading"]
  BY DEF ReadersInit
<1>3. PagerOK
  <2>1. /\ pager.root = root /\ pager.records = <<>> /\ pager.cursor = root
        /\ pager \in [root : Ids, scope : Scopes, cursor : Ids \cup {Null},
                      records : Seq(Ids), status : Errors \cup {"reading", "complete"}]
    BY <1>2
  <2> QED BY <2>1, NothingReceived DEF PagerOK
<1>4. listing = [root |-> root, cursor |-> root, records |-> <<>>, status |-> "reading"]
  BY <1>2 DEF ReadersInit
<1>5. Listed = <<>>
  BY <1>4 DEF Listed
<1>6. ListingOK
  BY <1>4, <1>5, NothingReceived DEF ListingOK, Twice
<1> QED BY <1>1, <1>3, <1>6 DEF ReadersInv

(* The store's operations. *)
LEMMA StoreStepKeepsReaders ==
    ASSUME ReadersInv, [Next]_db, UNCHANGED <<pager, listing>>
    PROVE  ReadersInv'
<1>1. TypeOK /\ TypeOK'
  BY StepIsTyped DEF ReadersInv
<1>2. PagerOK'
  <2>1. /\ Received(db', pager.root, pager.records)
        /\ Expecting(db, pager.root, pager.records, pager.cursor)
               => Expecting(db', pager.root, pager.records, pager.cursor)
    BY <1>1, StepKeepsReceived DEF ReadersInv, PagerOK
  <2> QED BY <2>1 DEF ReadersInv, PagerOK
<1>3. ListingOK'
  <2>1. /\ Received(db', listing.root, Listed)
        /\ Expecting(db, listing.root, Listed, listing.cursor)
               => Expecting(db', listing.root, Listed, listing.cursor)
    BY <1>1, StepKeepsReceived DEF ReadersInv, ListingOK
  <2>2. Listed' = Listed /\ listing' = listing
    BY DEF Listed
  <2> QED BY <2>1, <2>2 DEF ReadersInv, ListingOK
<1> QED BY <1>1, <1>2, <1>3 DEF ReadersInv

(* A page: what it adds, and how it ends. *)
LEMMA ReadPageEffect ==
    ASSUME PagerOK, NEW limit \in Limits, ReadPage(limit)
    PROVE  /\ UNCHANGED <<db, listing>>
           /\ PagerOK'
           /\ pager'.status = "complete"
                  => pager'.records = Walk(db, pager.scope, pager.root).chain
<1> DEFINE walk == Walk(db, pager.scope, pager.root)
           page == HistoryPage(walk, pager.cursor, limit)
           status == IF page.code # "ok" THEN page.code
                     ELSE IF page.next = Null THEN "complete" ELSE "reading"
<1>1. /\ pager.status = "reading"
      /\ pager' = [pager EXCEPT !.records = @ \o page.records,
                                !.cursor = page.next, !.status = status]
      /\ UNCHANGED <<db, listing>>
  BY DEF ReadPage
<1>2. /\ pager.root \in Ids /\ pager.scope \in Scopes /\ pager.records \in Seq(Ids)
      /\ Received(db, pager.root, pager.records)
      /\ Expecting(db, pager.root, pager.records, pager.cursor)
  BY <1>1 DEF PagerOK
<1>3. GoesOn(pager.root, pager.records, page, walk.chain)
  BY <1>2, PageContinues
<1> DEFINE records == pager.records \o page.records
<1> HIDE DEF page, walk
<1>4. /\ DOMAIN pager = {"root", "scope", "cursor", "records", "status"}
      /\ DOMAIN pager' = DOMAIN pager
      /\ pager'.root = pager.root /\ pager'.scope = pager.scope
      /\ pager'.records = records /\ pager'.cursor = page.next /\ pager'.status = status
  <2> HIDE DEF records, status
  <2> QED BY <1>1 DEF PagerOK, records
<1>5. ASSUME records \in Seq(Ids), page.next \in Ids \cup {Null}, 
             status \in Errors \cup {"reading", "complete"}
      PROVE  pager' \in [root : Ids, scope : Scopes, cursor : Ids \cup {Null},
                         records : Seq(Ids), status : Errors \cup {"reading", "complete"}]
  <2> HIDE DEF records, status
  <2>1. pager' = [root |-> pager.root, scope |-> pager.scope, cursor |-> page.next,
                  records |-> records, status |-> status]
    BY <1>1 DEF PagerOK, records
  <2> QED BY <1>2, <1>5, <2>1
<1>6. CASE page.code \in Errors
  <2>1. page.records = <<>> /\ page.next = Null
    BY <1>3, <1>6 DEF GoesOn, Errors
  <2>2. records = pager.records
    BY <1>2, <2>1
  <2>3. status = page.code /\ status \notin {"reading", "complete"}
    BY <1>6 DEF Errors
  <2> HIDE DEF records, status
  <2> QED BY <1>1, <1>2, <1>4, <1>5, <1>6, <2>1, <2>2, <2>3 DEF PagerOK
<1>7. CASE page.code = "ok"
  <2>1. /\ Received(db, pager.root, records)
        /\ page.next # Null => Expecting(db, pager.root, records, page.next)
        /\ page.next = Null => records = walk.chain
    BY <1>3, <1>7 DEF GoesOn, Errors
  <2>2. status = IF page.next = Null THEN "complete" ELSE "reading"
    BY <1>7
  <2> HIDE DEF records, status
  <2>3. records \in Seq(Ids) /\ page.next \in Ids \cup {Null}
        /\ status \in Errors \cup {"reading", "complete"}
    BY <2>1, <2>2 DEF Received, Expecting
  <2>4. PagerOK'
    BY <1>1, <1>4, <1>5, <2>1, <2>2, <2>3 DEF PagerOK
  <2> QED BY <1>1, <1>4, <2>1, <2>2, <2>4 DEF walk
<1> QED BY <1>3, <1>6, <1>7 DEF GoesOn

(* One record more of the listing. *)
LEMMA ListRecordKeepsListing ==
    ASSUME TypeOK, ListingOK, ListRecord
    PROVE  ListingOK'
<1> DEFINE i == listing.cursor
<1>1. /\ listing.status = "reading" /\ Len(listing.records) < HistoricalCap
      /\ \A n \in DOMAIN listing.records : listing.records[n].id # i
      /\ db' = db
  BY DEF ListRecord, ListingGoesOn
<1>2. /\ listing.root \in Ids /\ i \in Ids
      /\ listing.records \in Seq([id : Ids, superseded_by : Ids \cup {Null, Blank}])
      /\ Received(db, listing.root, Listed) /\ ~Twice(Listed)
      /\ Expecting(db, listing.root, Listed, i)
  BY <1>1 DEF ListingOK
<1>3. CASE ~Exists(db, i)
  <2>1. listing' = [listing EXCEPT !.status = "done"]
    BY <1>3 DEF ListRecord
  <2>2. Listed' = Listed
    BY <2>1 DEF Listed, ListingOK
  <2> QED BY <1>1, <1>2, <2>1, <2>2 DEF ListingOK
<1>4. CASE Exists(db, i)
  <2> DEFINE row == [id |-> i, superseded_by |-> db[i].superseded_by]
             more == HasSuccessor(db, i)
             next == IF more THEN db[i].superseded_by ELSE i
             status == IF more THEN "reading" ELSE "done"
             k == Len(listing.records)
  <2>1. listing' = [listing EXCEPT !.records = Append(@, row), !.cursor = next,
                                   !.status = status]
    BY <1>1, <1>4 DEF ListRecord
  <2>2. row \in [id : Ids, superseded_by : Ids \cup {Null, Blank}] /\ next \in Ids
    BY <1>2, <1>4 DEF TypeOK, Exists, Row, HasSuccessor
  <2> HIDE DEF row, next, more, status
  <2>3. /\ listing'.records = Append(listing.records, row)
        /\ listing'.root = listing.root /\ listing'.cursor = next
        /\ listing'.status = status
        /\ listing' \in [root : Ids, cursor : Ids,
                         records : Seq([id : Ids, superseded_by : Ids \cup {Null, Blank}]),
                         status : {"reading", "done"}]
    <3>1. status \in {"reading", "done"}
      BY DEF status
    <3>2. listing' = [root |-> listing.root, cursor |-> next,
                      records |-> Append(listing.records, row), status |-> status]
      BY <2>1 DEF ListingOK
    <3> QED BY <1>2, <2>2, <3>1, <3>2
  <2>4. /\ Listed \in Seq(Ids) /\ Len(Listed) = k /\ k \in Nat
        /\ k < MaxChain /\ HistoricalCap \in Nat
        /\ \A n \in 1..k : Listed[n] = listing.records[n].id
    <3>1. /\ k \in Nat /\ DOMAIN listing.records = 1..k
          /\ \A n \in 1..k : listing.records[n].id \in Ids
      <4> DEFINE Records == [id : Ids, superseded_by : Ids \cup {Null, Blank}]
      <4>1. \A record \in Records : record.id \in Ids
        OBVIOUS
      <4> HIDE DEF Records
      <4>2. listing.records \in Seq(Records)
        BY <1>2 DEF Records
      <4> QED BY <4>1, <4>2
    <3>2. k < MaxChain /\ HistoricalCap \in Nat
      BY <1>1, <3>1, ReadersAssumption, ChainAssumption
    <3>3. Listed = [n \in 1..k |-> listing.records[n].id]
      BY <3>1 DEF Listed
    <3> HIDE DEF k
    <3> QED BY <3>1, <3>2, <3>3
  <2>5. Listed' = Append(Listed, i)
    <3>1. row.id = i
      BY DEF row
    <3> QED BY <1>2, <2>3, <2>4, <3>1 DEF Listed
  <2>6. /\ Len(Listed') = k + 1 /\ Listed' \in Seq(Ids)
        /\ \A n \in 1..k : Listed'[n] = Listed[n]
        /\ Listed'[k + 1] = i
    BY <1>2, <2>4, <2>5
  <2>7. ~Twice(Listed')
    BY <1>1, <1>2, <2>4, <2>6 DEF Twice
  <2>8. i = Cursors(db, listing.root)[k] /\ Links(db, listing.root, k)
    BY <1>2, <2>4 DEF Expecting
  <2>9. Received(db, listing.root, Listed')
    <3>1. \A n \in 1..(k + 1) : Listed'[n] = Cursors(db, listing.root)[n - 1]
      <4> SUFFICES ASSUME NEW n \in 1..(k + 1)
                   PROVE  Listed'[n] = Cursors(db, listing.root)[n - 1]
        OBVIOUS
      <4>1. CASE n = k + 1
        BY <2>4, <2>6, <2>8, <4>1
      <4>2. CASE n # k + 1
        <5>1. n \in 1..k
          BY <2>4, <4>2
        <5> QED BY <1>2, <2>4, <2>6, <5>1 DEF Received
      <4> QED BY <4>1, <4>2
    <3>2. (k + 1) - 1 = k /\ k + 1 <= MaxChain
      BY <2>4, ChainAssumption
    <3> QED BY <2>6, <2>8, <3>1, <3>2 DEF Received
  <2>10. more => Expecting(db, listing.root, Listed', next)
    <3> SUFFICES ASSUME more PROVE Expecting(db, listing.root, Listed', next)
      OBVIOUS
    <3>1. HasSuccessor(db, i) /\ next = db[i].superseded_by /\ next \in Ids
      BY <2>2 DEF more, next
    <3>2. k + 1 \in 1..MaxChain /\ (k + 1) - 1 = k
      BY <2>4, ChainAssumption
    <3>3. Cursors(db, listing.root)[k + 1] = Successor(db)[Cursors(db, listing.root)[k]]
      BY <3>2, CursorSteps
    <3>4. Cursors(db, listing.root)[k + 1] = next
      BY <1>2, <1>4, <2>8, <3>1, <3>3, NullsAssumption DEF Successor
    <3>5. Links(db, listing.root, k + 1)
      <4> SUFFICES ASSUME NEW m \in 0..((k + 1) - 1)
                   PROVE  /\ Cursors(db, listing.root)[m] \in Ids
                          /\ Exists(db, Cursors(db, listing.root)[m])
                          /\ HasSuccessor(db, Cursors(db, listing.root)[m])
        BY DEF Links
      <4>1. m = k \/ m \in 0..(k - 1)
        BY <2>4
      <4> QED BY <1>2, <1>4, <2>8, <3>1, <4>1 DEF Links
    <3> QED BY <2>6, <3>1, <3>4, <3>5 DEF Expecting
  <2>11. listing'.status = "reading" => more
    BY <2>3 DEF status
  <2> QED BY <1>1, <2>3, <2>7, <2>9, <2>10, <2>11 DEF ListingOK
<1> QED BY <1>3, <1>4

LEMMA StepKeepsReaders == ReadersInv /\ [ReadersNext]_vars => ReadersInv'
<1> SUFFICES ASSUME ReadersInv, [ReadersNext]_vars PROVE ReadersInv'
  OBVIOUS
<1>1. CASE StoreStep
  BY <1>1, StoreStepKeepsReaders DEF StoreStep
<1>2. CASE Page
  <2>1. PICK limit \in Limits : ReadPage(limit)
    BY <1>2 DEF Page
  <2>2. UNCHANGED <<db, listing>> /\ PagerOK'
    BY <2>1, ReadPageEffect DEF ReadersInv
  <2> QED BY <2>2 DEF ReadersInv, TypeOK, ListingOK, Listed
<1>3. CASE ListRecord
  <2>1. ListingOK' /\ UNCHANGED <<db, pager>>
    BY <1>3, ListRecordKeepsListing DEF ReadersInv, ListRecord
  <2> QED BY <2>1 DEF ReadersInv, TypeOK, PagerOK
<1>4. CASE ListingStops
  <2>1. listing' = [listing EXCEPT !.status = "done"] /\ UNCHANGED <<db, pager>>
    BY <1>4 DEF ListingStops
  <2>2. Listed' = Listed
    BY <2>1 DEF Listed, ReadersInv, ListingOK
  <2> QED BY <2>1, <2>2 DEF ReadersInv, TypeOK, PagerOK, ListingOK
<1>5. CASE UNCHANGED vars
  BY <1>5, StoreStepKeepsReaders DEF vars
<1> QED BY <1>1, <1>2, <1>3, <1>4, <1>5 DEF ReadersNext

LEMMA ReadersInvariant == ReadersSpec => []ReadersInv
BY ReadersInitInv, StepKeepsReaders, PTL DEF ReadersSpec

(* Pages read in different snapshots fit together: at every moment, what   *)
(* the client has received is the beginning of the chain as it is now      *)
(* (db/evidence.rs:get_rationale_history).                                 *)
THEOREM PagesFollow == ReadersSpec => []PagesFollowTheChain
<1>1. PagerOK => PagesFollowTheChain
  BY DEF PagerOK, Received, PagesFollowTheChain, FollowsChain
<1> QED BY <1>1, ReadersInvariant, PTL DEF ReadersInv

(* So do the single statements of `why get --historical`, which also never *)
(* lists a record twice (db/records.rs:supersession_chain).                *)
THEOREM ListingFollows == ReadersSpec => []ListingFollowsTheChain
<1>1. ListingOK => ListingFollowsTheChain
  <2> SUFFICES ASSUME ListingOK PROVE ListingFollowsTheChain
    OBVIOUS
  <2>1. FollowsChain(Listed, listing.root)
    BY DEF ListingOK, Received, FollowsChain
  <2>2. \A m, n \in DOMAIN listing.records :
            m # n => listing.records[m].id # listing.records[n].id
    BY DEF ListingOK, Twice, Listed
  <2> QED BY <2>1, <2>2 DEF ListingFollowsTheChain, Listed
<1> QED BY <1>1, ReadersInvariant, PTL DEF ReadersInv

(* A client that is told the history is complete has the whole chain of    *)
(* the snapshot of its last page (db/evidence.rs:get_rationale_history).   *)
THEOREM CompleteIsWhole == ReadersSpec => CompleteHistoryIsWhole
<1>1. PagerOK /\ [ReadersNext]_vars
          => [pager.status = "reading" /\ pager'.status = "complete"
                => pager'.records = Walk(db, pager.scope, pager.root).chain]_vars
  <2> SUFFICES ASSUME PagerOK, ReadersNext,
                      pager.status = "reading", pager'.status = "complete"
               PROVE  pager'.records = Walk(db, pager.scope, pager.root).chain
    OBVIOUS
  <2>1. pager' # pager
    OBVIOUS
  <2>2. Page
    BY <2>1 DEF ReadersNext, StoreStep, ListRecord, ListingStops
  <2> QED BY <2>2, ReadPageEffect DEF Page
<1> QED BY <1>1, ReadersInvariant, PTL DEF ReadersSpec, ReadersInv, CompleteHistoryIsWhole
===============================================================================
