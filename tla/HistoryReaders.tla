---------------------------- MODULE HistoryReaders ----------------------------
(***************************************************************************)
(* Readers that need several reads while the store is being written: a     *)
(* client that pages a record's history (get_rationale_history, one        *)
(* snapshot per page, a fresh one for the next page) and the command       *)
(* `why get --historical` (supersession_chain, one statement per record).  *)
(* The store is the one of DecisionStore; its operations are interleaved   *)
(* with the reads in every way.                                            *)
(***************************************************************************)
EXTENDS ExactReads

CONSTANTS
    Limits,           \* page sizes a client may ask for (1..3 in the code)
    Weight,           \* size of a record with its git references
    MaxPageWeight,    \* MAX_HISTORY_PAGE_SOURCE_BYTES
    HistoricalCap     \* the cap of `why get --historical` (20 in the code)

ASSUME ReadersAssumption ==
    /\ Limits \subseteq Nat \ {0}
    /\ Weight \in [Ids -> Nat] /\ MaxPageWeight \in Nat
    /\ HistoricalCap \in Nat /\ HistoricalCap <= MaxChain

VARIABLES
    pager,     \* the paging client: what it asked for and has received
    listing    \* the running `why get --historical`
vars == <<db, pager, listing>>

-----------------------------------------------------------------------------
PageWeight(records) == FoldSeq(LAMBDA i, sum : Weight[i] + sum, 0, records)

(* Mutants of the cursor: the last record of the page, the one after next. *)
CursorAtEnd(chain, end) == IF end = Len(chain) THEN Null ELSE chain[end]
CursorPastNext(chain, end) == IF end + 1 >= Len(chain) THEN Null ELSE chain[end + 2]

(* The cursor a page returns: the first record of the next one. *)
NextCursor(chain, end) == IF end = Len(chain) THEN Null ELSE chain[end + 1]

(* Mutant: a fault is answered with an empty page and the same cursor. *)
FailedPageOpen(code, cursor) == [code |-> "ok", records |-> <<>>, next |-> cursor]

(* Every fault ends the call with its code; nothing is returned. *)
FailedPage(code, cursor) == [code |-> code, records |-> <<>>, next |-> Null]

(***************************************************************************)
(* get_rationale_history: of the chain its walk found, a page of at most   *)
(* `limit` records from the record `cursor` on.                            *)
(***************************************************************************)
HistoryPage(walk, cursor, limit) ==
    LET starts == {n \in DOMAIN walk.chain : walk.chain[n] = cursor}
        start == CHOOSE n \in starts : TRUE
        end == IF start + limit - 1 < Len(walk.chain)
                 THEN start + limit - 1 ELSE Len(walk.chain)
        records == SubSeq(walk.chain, start, end)
    IN  IF walk.fault # "none" THEN FailedPage(walk.fault, cursor)
        ELSE IF starts = {} THEN FailedPage("invalid_cursor", cursor)
        ELSE IF PageWeight(records) > MaxPageWeight
          THEN FailedPage("response_too_large", cursor)
        ELSE [code |-> "ok", records |-> records, next |-> NextCursor(walk.chain, end)]

(* One call of the client.  It stops at an error or a page without cursor. *)
ReadPage(limit) ==
    /\ pager.status = "reading"
    /\ \E walk \in {Walk(db, pager.scope, pager.root)} :
       \E page \in {HistoryPage(walk, pager.cursor, limit)} :
           pager' = [pager EXCEPT
               !.records = @ \o page.records,
               !.cursor = page.next,
               !.status = IF page.code # "ok" THEN page.code
                          ELSE IF page.next = Null THEN "complete" ELSE "reading"]
    /\ UNCHANGED <<db, listing>>

-----------------------------------------------------------------------------
(* Mutant: the walk goes on behind a record read a second time. *)
ListingGoesOnUnseen ==
    /\ listing.status = "reading"
    /\ Len(listing.records) < HistoricalCap

(* The guard of supersession_chain's loop. *)
ListingGoesOn ==
    /\ listing.status = "reading"
    /\ Len(listing.records) < HistoricalCap
    /\ \A n \in DOMAIN listing.records : listing.records[n].id # listing.cursor

(* One turn of the loop: one SELECT of one record, in its own snapshot. *)
ListRecord ==
    /\ ListingGoesOn
    /\ LET i == listing.cursor
       IN  IF ~Exists(db, i)
             THEN listing' = [listing EXCEPT !.status = "done"]
             ELSE listing' = [listing EXCEPT
                      !.records = Append(@, [id |-> i,
                                             superseded_by |-> db[i].superseded_by]),
                      !.cursor = IF HasSuccessor(db, i) THEN db[i].superseded_by ELSE @,
                      !.status = IF HasSuccessor(db, i) THEN @ ELSE "done"]
    /\ UNCHANGED <<db, pager>>

ListingStops ==
    /\ listing.status = "reading" /\ ~ListingGoesOn
    /\ listing' = [listing EXCEPT !.status = "done"]
    /\ UNCHANGED <<db, pager>>

-----------------------------------------------------------------------------
ReadersInit ==
    /\ Init
    /\ \E root \in Ids, sc \in Scopes :
           pager = [root |-> root, scope |-> sc, cursor |-> root,
                    records |-> <<>>, status |-> "reading"]
    /\ listing = [root |-> pager.root, cursor |-> pager.root,
                  records |-> <<>>, status |-> "reading"]

Page == \E limit \in Limits : ReadPage(limit)
StoreStep == Next /\ UNCHANGED <<pager, listing>>

ReadersNext == StoreStep \/ Page \/ ListRecord \/ ListingStops

(* A client that was given a cursor asks for the next page; a read waits    *)
(* at most while a writer commits.                                         *)
ReadersSpec == ReadersInit /\ [][ReadersNext]_vars /\ WF_vars(Page)

-----------------------------------------------------------------------------
(* Pages read in different snapshots fit together: what the client has     *)
(* received is, at every moment, the beginning of the chain as it is now,  *)
(* without a gap or a repetition, although captures, reconciliations and   *)
(* moves of scopes ran between the pages.                                  *)
FollowsChain(ids, root) ==
    \A n \in DOMAIN ids : n <= MaxChain => ids[n] = Cursors(db, root)[n - 1]
PagesFollowTheChain == FollowsChain(pager.records, pager.root)

(* The same of the command that reads without a common snapshot.           *)
ListingFollowsTheChain ==
    /\ FollowsChain([n \in DOMAIN listing.records |-> listing.records[n].id],
                    listing.root)
    /\ \A m, n \in DOMAIN listing.records :
           m # n => listing.records[m].id # listing.records[n].id

(* A client that is told the history is complete has all of it.            *)
CompleteHistoryIsWhole ==
    [][pager.status = "reading" /\ pager'.status = "complete"
          => pager'.records = Walk(db, pager.scope, pager.root).chain]_vars

(* Paging ends, with all pages or an error, whatever limits the client     *)
(* chooses and however fast the chain grows at its end.                    *)
PagingEnds == <>(pager.status # "reading")

(***************************************************************************)
(* "superseded -> (successor not in store)": the label the command prints  *)
(* for the last record it read when that record has a successor.           *)
(***************************************************************************)
LabelOfMissingSuccessorIsTrue ==
    listing.status = "done" /\ listing.records # <<>> =>
        LET last == Last(listing.records)
        IN  last.superseded_by \in Ids => ~Exists(db, last.superseded_by)
===============================================================================
