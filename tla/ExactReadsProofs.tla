--------------------------- MODULE ExactReadsProofs ---------------------------
(***************************************************************************)
(* Theorems about ExactReads, for every value of the constants: what an    *)
(* exact read answers, and how the answers of two tables are related.      *)
(*                                                                         *)
(* The walk of a read is a recursive function of the number of steps.      *)
(* What it computes is proved by induction over the naturals, in the form  *)
(* that speaks of a set of numbers.                                        *)
(***************************************************************************)
EXTENDS ExactReads, DecisionStoreProofs

-----------------------------------------------------------------------------
(***************************************************************************)
(* The cursors of a walk.                                                  *)
(***************************************************************************)

(* f lists the iterates of g from start, m of them after the start. *)
Unfolds(f, g, start, m) == f = [n \in 0..m |-> IF n = 0 THEN start ELSE g[f[n - 1]]]

(* The record behind each one is a function, so that its iterates exist.   *)
LEMMA CursorsExist ==
    ASSUME NEW g, NEW start, NEW k \in Nat
    PROVE  \E f : Unfolds(f, g, start, k)
<1> DEFINE S == {m \in Nat : \E f : Unfolds(f, g, start, m)}
<1>1. 0 \in S
  <2>1. Unfolds([n \in 0..0 |-> start], g, start, 0)
    BY DEF Unfolds
  <2> QED BY <2>1
<1>2. ASSUME NEW m \in S PROVE m + 1 \in S
  <2>1. PICK f : Unfolds(f, g, start, m)
    OBVIOUS
  <2> DEFINE h == [n \in 0..(m + 1) |-> IF n = 0 THEN start ELSE g[f[n - 1]]]
  <2>2. \A n \in 0..m : f[n] = IF n = 0 THEN start ELSE g[f[n - 1]]
    BY <2>1 DEF Unfolds
  <2>3. \A n \in 0..m : h[n] = f[n]
    BY <2>2
  <2>4. ASSUME NEW n \in 0..(m + 1)
        PROVE  h[n] = IF n = 0 THEN start ELSE g[h[n - 1]]
    <3>1. CASE n = 0
      BY <3>1
    <3>2. CASE n # 0
      <4>1. n - 1 \in 0..m
        BY <3>2
      <4>2. h[n] = g[f[n - 1]]
        BY <3>2
      <4> QED BY <2>3, <3>2, <4>1, <4>2
    <3> QED BY <3>1, <3>2
  <2>5. Unfolds(h, g, start, m + 1)
    BY <2>4 DEF Unfolds
  <2> HIDE DEF h
  <2>6. m + 1 \in Nat /\ \E u : Unfolds(u, g, start, m + 1)
    BY <2>5
  <2> QED BY <2>6
<1> HIDE DEF S
<1>3. S \in SUBSET Nat
  BY DEF S
<1>4. k \in S
  BY <1>1, <1>2, <1>3, Induction
<1> QED BY <1>4 DEF S

(* The cursor starts at the start, and goes on to the record behind.       *)
LEMMA CursorSteps ==
    ASSUME NEW d, NEW start
    PROVE  /\ Cursors(d, start)[0] = start
           /\ \A n \in 1..MaxChain :
                  Cursors(d, start)[n] = Successor(d)[Cursors(d, start)[n - 1]]
<1> DEFINE g == Successor(d)
           cursor == CHOOSE f : f = [n \in 0..MaxChain |->
                                        IF n = 0 THEN start ELSE g[f[n - 1]]]
<1>1. \E f : Unfolds(f, g, start, MaxChain)
  BY CursorsExist, ChainAssumption
<1>2. Cursors(d, start) = cursor
  BY Zenon DEF Cursors
<1>3. cursor = [n \in 0..MaxChain |-> IF n = 0 THEN start ELSE g[cursor[n - 1]]]
  <2> HIDE DEF g
  <2>1. cursor = CHOOSE f : Unfolds(f, g, start, MaxChain)
    BY Zenon DEF Unfolds
  <2> HIDE DEF cursor
  <2>2. Unfolds(cursor, g, start, MaxChain)
    BY <1>1, <2>1, Zenon
  <2> QED BY <2>2, Zenon DEF Unfolds
<1> HIDE DEF cursor, g
<1>4. /\ cursor[0] = start
      /\ \A n \in 1..MaxChain : cursor[n] = g[cursor[n - 1]]
  BY <1>3, ChainAssumption
<1> QED BY <1>2, <1>4 DEF g

(* Two tables that lead on alike from the records passed so far have led   *)
(* to the same record.                                                     *)
LEMMA CursorsAgree ==
    ASSUME NEW d, NEW e, NEW start, NEW k \in 0..MaxChain,
           \A n \in 0..(k - 1) : Successor(e)[Cursors(d, start)[n]]
                                     = Successor(d)[Cursors(d, start)[n]]
    PROVE  \A n \in 0..k : Cursors(e, start)[n] = Cursors(d, start)[n]
<1> DEFINE Same(n) == n <= k => Cursors(e, start)[n] = Cursors(d, start)[n]
           S == {n \in Nat : Same(n)}
<1>1. 0 \in S
  BY CursorSteps
<1>2. ASSUME NEW n \in S PROVE n + 1 \in S
  <2> SUFFICES ASSUME n + 1 <= k
               PROVE  Cursors(e, start)[n + 1] = Cursors(d, start)[n + 1]
    OBVIOUS
  <2>1. n \in 0..(k - 1) /\ n + 1 \in 1..MaxChain /\ (n + 1) - 1 = n
    BY ChainAssumption
  <2>2. Cursors(e, start)[n] = Cursors(d, start)[n]
    BY <2>1
  <2>3. /\ Cursors(e, start)[n + 1] = Successor(e)[Cursors(e, start)[n]]
        /\ Cursors(d, start)[n + 1] = Successor(d)[Cursors(d, start)[n]]
    BY <2>1, CursorSteps
  <2> QED BY <2>1, <2>2, <2>3
<1>3. S = Nat
  BY <1>1, <1>2, Induction
<1> QED BY <1>3

(* A cursor is a record or Null, and never leaves Null. *)
LEMMA CursorsType ==
    ASSUME NEW d, NEW start \in Ids \cup {Null}
    PROVE  \A n \in 0..MaxChain : Cursors(d, start)[n] \in Ids \cup {Null}
<1> DEFINE S == {n \in Nat : n <= MaxChain => Cursors(d, start)[n] \in Ids \cup {Null}}
<1>1. 0 \in S
  BY CursorSteps
<1>2. ASSUME NEW n \in S PROVE n + 1 \in S
  <2> SUFFICES ASSUME n + 1 <= MaxChain
               PROVE  Cursors(d, start)[n + 1] \in Ids \cup {Null}
    OBVIOUS
  <2>1. n + 1 \in 1..MaxChain /\ (n + 1) - 1 = n /\ n <= MaxChain
    BY ChainAssumption
  <2>2. Cursors(d, start)[n + 1] = Successor(d)[Cursors(d, start)[n]]
    BY <2>1, CursorSteps
  <2>3. \A c \in Ids \cup {Null} : Successor(d)[c] \in Ids \cup {Null}
    BY DEF Successor, HasSuccessor
  <2> QED BY <2>1, <2>2, <2>3
<1>3. S = Nat
  BY <1>1, <1>2, Induction
<1> QED BY <1>3, ChainAssumption

-----------------------------------------------------------------------------
(***************************************************************************)
(* The walk of a read: where it ends, and what it passed.                  *)
(***************************************************************************)
Stops(d, sc, start, n) ==
    \/ Fault(d, sc, Cursors(d, start), n) # "none"
    \/ ~HasSuccessor(d, Cursors(d, start)[n])

EndsAt(d, sc, start, n) ==
    /\ n \in 0..(MaxChain - 1)
    /\ Stops(d, sc, start, n)
    /\ \A m \in 0..(n - 1) : ~Stops(d, sc, start, m)

(* The limit ends every walk that nothing else ends.                       *)
LEMMA WalkEnds ==
    ASSUME NEW d, NEW sc, NEW start
    PROVE  \E n : EndsAt(d, sc, start, n)
<1> DEFINE S == {n \in 0..(MaxChain - 1) : Stops(d, sc, start, n)}
<1>1. MaxChain - 1 \in 0..(MaxChain - 1)
  BY ChainAssumption
<1>2. Stops(d, sc, start, MaxChain - 1)
  BY ChainAssumption DEF Stops, Fault
<1>3. MaxChain - 1 \in S
  BY <1>1, <1>2
<1> HIDE DEF S
<1>4. S \in SUBSET Nat /\ S # {}
  BY <1>3 DEF S
<1>5. PICK n \in S : \A m \in S : n <= m
  BY <1>4, LeastMember
<1>6. n \in 0..(MaxChain - 1) /\ Stops(d, sc, start, n)
  BY <1>5 DEF S
<1>7. ASSUME NEW m \in 0..(n - 1), Stops(d, sc, start, m) PROVE FALSE
  <2>1. m \in S
    BY <1>6, <1>7, ChainAssumption DEF S
  <2> QED BY <1>4, <1>5, <1>6, <2>1
<1> QED BY <1>6, <1>7 DEF EndsAt

(* It ends once. *)
LEMMA WalkEndsOnce ==
    ASSUME NEW d, NEW sc, NEW start, NEW m, NEW n,
           EndsAt(d, sc, start, m), EndsAt(d, sc, start, n)
    PROVE  m = n
<1>1. m \in Nat /\ n \in Nat
  BY ChainAssumption DEF EndsAt
<1>2. ~(m < n) /\ ~(n < m)
  BY <1>1 DEF EndsAt
<1> QED BY <1>1, <1>2

(* The records of a walk that ends after n of them. *)
ChainTo(d, start, n) == [m \in 1..(n + 1) |-> Cursors(d, start)[m - 1]]

(* What the walk returns, by where it ends. *)
LEMMA WalkAtItsEnd ==
    ASSUME NEW d, NEW sc, NEW start, NEW n, EndsAt(d, sc, start, n)
    PROVE  /\ Walk(d, sc, start).fault = Fault(d, sc, Cursors(d, start), n)
           /\ Walk(d, sc, start).chain = ChainTo(d, start, n)
<1> DEFINE last == CHOOSE k \in 0..(MaxChain - 1) :
                       /\ \/ Fault(d, sc, Cursors(d, start), k) # "none"
                          \/ ~HasSuccessor(d, Cursors(d, start)[k])
                       /\ \A m \in 0..(k - 1) :
                              ~(\/ Fault(d, sc, Cursors(d, start), m) # "none"
                                \/ ~HasSuccessor(d, Cursors(d, start)[m]))
<1>1. Walk(d, sc, start)
          = [fault |-> Fault(d, sc, Cursors(d, start), last),
             chain |-> ChainTo(d, start, last)]
  BY Zenon DEF Walk, ChainTo
<1>2. EndsAt(d, sc, start, last)
  <2>1. last = CHOOSE k \in 0..(MaxChain - 1) :
                   /\ Stops(d, sc, start, k)
                   /\ \A m \in 0..(k - 1) : ~Stops(d, sc, start, m)
    BY Zenon DEF Stops
  <2> HIDE DEF last
  <2>2. \E k \in 0..(MaxChain - 1) :
            /\ Stops(d, sc, start, k)
            /\ \A m \in 0..(k - 1) : ~Stops(d, sc, start, m)
    BY WalkEnds DEF EndsAt
  <2> QED BY <2>1, <2>2 DEF EndsAt
<1> HIDE DEF last
<1>3. last = n
  BY <1>2, WalkEndsOnce
<1> QED BY <1>1, <1>3

(* Every record the walk passed is visible, has a sound validity, and leads *)
(* on to the next.                                                         *)
LEMMA WalkPasses ==
    ASSUME NEW d, NEW sc, NEW start \in Ids, NEW n, EndsAt(d, sc, start, n)
    PROVE  /\ \A m \in 0..n : Cursors(d, start)[m] \in Ids
           /\ \A m \in 0..(n - 1) :
                  LET i == Cursors(d, start)[m] IN
                  /\ Visible(d, i, sc) /\ SoundWindow(d[i]) /\ HasSuccessor(d, i)
                  /\ Cursors(d, start)[m + 1] = d[i].superseded_by
                  /\ \A k \in 0..(m - 1) : Cursors(d, start)[k] # i
<1> DEFINE cursor == Cursors(d, start)
<1>1. n \in Nat /\ n <= MaxChain - 1 /\ MaxChain \in Nat
  BY ChainAssumption DEF EndsAt
<1>2. ASSUME NEW m \in 0..(n - 1)
      PROVE  /\ Visible(d, cursor[m], sc) /\ SoundWindow(d[cursor[m]])
             /\ HasSuccessor(d, cursor[m])
             /\ \A k \in 0..(m - 1) : cursor[k] # cursor[m]
  <2>1. Fault(d, sc, cursor, m) = "none" /\ HasSuccessor(d, cursor[m])
    BY <1>2 DEF EndsAt, Stops
  <2> HIDE DEF cursor
  <2> QED BY <2>1 DEF Fault
<1>3. ASSUME NEW m \in 0..(n - 1), cursor[m] \in Ids
      PROVE  cursor[m + 1] = d[cursor[m]].superseded_by /\ cursor[m + 1] \in Ids
  <2>1. m + 1 \in 1..MaxChain /\ (m + 1) - 1 = m
    BY <1>1
  <2>2. cursor[m + 1] = Successor(d)[cursor[m]]
    BY <2>1, CursorSteps
  <2>3. Exists(d, cursor[m]) /\ HasSuccessor(d, cursor[m])
    BY <1>2 DEF Visible
  <2> HIDE DEF cursor
  <2> QED BY <1>3, <2>2, <2>3, NullsAssumption DEF Successor, HasSuccessor
<1> DEFINE S == {m \in Nat : m <= n => cursor[m] \in Ids}
<1>4. 0 \in S
  BY CursorSteps
<1>5. ASSUME NEW m \in S PROVE m + 1 \in S
  <2>1. m + 1 <= n => m \in 0..(n - 1) /\ m <= n
    BY <1>1
  <2> HIDE DEF cursor
  <2> QED BY <1>3, <2>1
<1> HIDE DEF cursor, S
<1>6. S = Nat
  <2>1. S \in SUBSET Nat
    BY DEF S
  <2> QED BY <1>4, <1>5, <2>1, Induction
<1>7. \A m \in 0..n : cursor[m] \in Ids
  BY <1>1, <1>6 DEF S
<1>8. \A m \in 0..(n - 1) : cursor[m] \in Ids
  BY <1>1, <1>7
<1> QED BY <1>2, <1>3, <1>7, <1>8, Zenon DEF cursor

LEMMA WalkPassesEach ==
    ASSUME NEW d, NEW sc, NEW start \in Ids, NEW n, EndsAt(d, sc, start, n),
           NEW m \in 0..(n - 1)
    PROVE  /\ Cursors(d, start)[m] \in Ids
           /\ Visible(d, Cursors(d, start)[m], sc)
           /\ HasSuccessor(d, Cursors(d, start)[m])
           /\ Cursors(d, start)[m + 1] = d[Cursors(d, start)[m]].superseded_by
<1>1. m \in 0..n
  BY ChainAssumption DEF EndsAt
<1> QED BY <1>1, WalkPasses

(* The chain of a walk is a sequence, and its last record the last cursor. *)
LEMMA ChainOfWalk ==
    ASSUME NEW d, NEW sc, NEW start \in Ids, NEW n, EndsAt(d, sc, start, n)
    PROVE  LET chain == Walk(d, sc, start).chain IN
           /\ chain \in Seq(Ids) /\ Len(chain) = n + 1
           /\ \A m \in 1..(n + 1) : chain[m] = Cursors(d, start)[m - 1]
           /\ Last(chain) = Cursors(d, start)[n]
<1> DEFINE chain == Walk(d, sc, start).chain
           cursor == Cursors(d, start)
<1>1. chain = [m \in 1..(n + 1) |-> cursor[m - 1]]
  BY WalkAtItsEnd DEF ChainTo
<1>2. n \in Nat
  BY ChainAssumption DEF EndsAt
<1>3. \A m \in 0..n : cursor[m] \in Ids
  BY WalkPasses
<1> HIDE DEF chain, cursor
<1>4. \A m \in 1..(n + 1) : cursor[m - 1] \in Ids
  BY <1>2, <1>3
<1>5. chain \in Seq(Ids) /\ Len(chain) = n + 1
  BY <1>1, <1>2, <1>4
<1>6. Last(chain) = cursor[n]
  BY <1>1, <1>2, <1>5 DEF Last
<1> QED BY <1>1, <1>5, <1>6 DEF chain, cursor

(* A record without a successor is where its walk begins and ends. *)
LEMMA WalkOfLast ==
    ASSUME NEW d, NEW sc, NEW i \in Ids, Visible(d, i, sc), SoundWindow(d[i]),
           ~HasSuccessor(d, i)
    PROVE  /\ EndsAt(d, sc, i, 0)
           /\ Walk(d, sc, i).fault = "none" /\ Last(Walk(d, sc, i).chain) = i
<1>1. Cursors(d, i)[0] = i
  BY CursorSteps
<1>2. Fault(d, sc, Cursors(d, i), 0) = "none"
  BY <1>1 DEF Fault
<1>3. EndsAt(d, sc, i, 0)
  BY <1>1, ChainAssumption DEF EndsAt, Stops
<1> QED BY <1>1, <1>2, <1>3, WalkAtItsEnd, ChainOfWalk

(* A record that search, get or feedback takes for current is the answer   *)
(* of its own exact read at that instant, on every store                   *)
(* (db/query.rs:select_decisions, db/evidence.rs:get_current_evidence).    *)
THEOREM SearchAgrees == Spec => []SearchAgreesWithExactRead
<1>1. TypeOK => SearchAgreesWithExactRead
  <2> SUFFICES ASSUME TypeOK, NEW i \in Ids, NEW now \in Clock, Searchable(db, i, now)
               PROVE  CurrentEvidence(db, i, db[i].scope, now)
                          = [code |-> "ok", current |-> i]
    BY DEF SearchAgreesWithExactRead
  <2> DEFINE row == db[i]
  <2>1. Exists(db, i) /\ row.superseded_by = Null
    BY DEF Searchable
  <2>2. row \in Row
    BY <2>1 DEF TypeOK, Exists
  <2>3. /\ row.valid_from \in Text => row.valid_from.unix # Null /\ row.valid_from.unix <= now
        /\ row.valid_until \in Text => row.valid_until.unix # Null /\ row.valid_until.unix > now
    BY NullsAssumption DEF Searchable
  <2>4. now \in Nat /\ \A v \in Text : v.unix # Null => v.unix \in Nat
    BY ClockAssumption DEF Text, Instants
  <2> HIDE DEF row
  <2>5. PositiveWindow(row)
    BY <2>3, <2>4 DEF PositiveWindow
  <2>6. SoundWindow(row)
    BY <2>3, <2>5 DEF SoundWindow
  <2>7. Walk(db, row.scope, i).fault = "none" /\ Last(Walk(db, row.scope, i).chain) = i
    <3>1. Visible(db, i, row.scope) /\ ~HasSuccessor(db, i)
      BY <2>1, NullsAssumption DEF Visible, HasSuccessor, row
    <3> QED BY <2>6, <3>1, WalkOfLast DEF row
  <2>8. /\ ~(row.valid_from \in Text /\ now < row.valid_from.unix)
        /\ ~(row.valid_until \in Text /\ now >= row.valid_until.unix)
    BY <2>3, <2>4
  <2> QED BY <2>7, <2>8 DEF CurrentEvidence, row
<1> QED BY <1>1, TypeCorrect, PTL

-----------------------------------------------------------------------------
(* Two tables with the same visible records are read alike.                *)
LEMMA WalksAgree ==
    ASSUME NEW d, NEW e, NEW sc, NEW start \in Ids,
           \A j \in Ids : /\ Visible(e, j, sc) <=> Visible(d, j, sc)
                          /\ Visible(d, j, sc) => e[j] = d[j],
           NEW n, EndsAt(d, sc, start, n)
    PROVE  /\ EndsAt(e, sc, start, n)
           /\ Cursors(e, start)[n] = Cursors(d, start)[n]
           /\ Fault(e, sc, Cursors(e, start), n) = Fault(d, sc, Cursors(d, start), n)
<1> DEFINE there == Cursors(e, start)
           here == Cursors(d, start)
<1>1. n \in Nat /\ n <= MaxChain - 1 /\ MaxChain \in Nat
  BY ChainAssumption DEF EndsAt
<1>2. \A m \in 0..n : here[m] \in Ids
  BY WalkPasses
<1>3. \A m \in 0..n : there[m] = here[m]
  <2>1. ASSUME NEW m \in 0..(n - 1)
        PROVE  Successor(e)[here[m]] = Successor(d)[here[m]]
    <3>1. here[m] \in Ids /\ Visible(d, here[m], sc)
      <4>1. Visible(d, here[m], sc)
        BY WalkPasses
      <4>2. m \in 0..n
        BY <1>1
      <4> QED BY <1>2, <4>1, <4>2
    <3> HIDE DEF here
    <3>2. Visible(e, here[m], sc) /\ e[here[m]] = d[here[m]]
      BY <3>1
    <3> QED BY <3>1, <3>2 DEF Successor, HasSuccessor, Exists
  <2>2. n \in 0..MaxChain
    BY <1>1
  <2>3. \A m \in 0..(n - 1) : Successor(e)[Cursors(d, start)[m]]
                                  = Successor(d)[Cursors(d, start)[m]]
    BY <2>1
  <2> HIDE DEF there, here
  <2>4. \A m \in 0..n : Cursors(e, start)[m] = Cursors(d, start)[m]
    BY <2>2, <2>3, CursorsAgree, SMTT(60)
  <2> QED BY <2>4 DEF there, here
<1>4. ASSUME NEW m \in 0..n
      PROVE  /\ Fault(e, sc, there, m) = Fault(d, sc, here, m)
             /\ Stops(e, sc, start, m) <=> Stops(d, sc, start, m)
  <2>1. /\ \A k \in 0..(m - 1) : there[k] = here[k]
        /\ there[m] = here[m] /\ here[m] \in Ids
    BY <1>1, <1>2, <1>3
  <2> HIDE DEF there, here
  <2>2. /\ Visible(e, here[m], sc) <=> Visible(d, here[m], sc)
        /\ Visible(d, here[m], sc) => e[here[m]] = d[here[m]]
    BY <2>1
  <2>3. Fault(e, sc, there, m) = Fault(d, sc, here, m)
    BY <2>1, <2>2 DEF Fault, HasSuccessor
  <2>4. ~Visible(d, here[m], sc) => Fault(d, sc, here, m) # "none"
    BY DEF Fault
  <2>5. Visible(d, here[m], sc) => (HasSuccessor(e, there[m]) <=> HasSuccessor(d, here[m]))
    BY <2>1, <2>2 DEF HasSuccessor
  <2> QED BY <2>3, <2>4, <2>5 DEF Stops, there, here
<1>5. EndsAt(e, sc, start, n)
  <2>1. \A m \in 0..(n - 1) : m \in 0..n
    BY <1>1
  <2> QED BY <1>1, <1>4, <2>1 DEF EndsAt
<1> QED BY <1>1, <1>3, <1>4, <1>5

(* What a scoped read answers is decided by the records of its scope, on   *)
(* every store: it tells nothing of another scope, not even whether a      *)
(* record exists there (db/evidence.rs:current_node_on).                   *)
THEOREM ScopedReadIsBlind == Spec => []ScopedReadIsBlindElsewhere
<1>1. ScopedReadIsBlindElsewhere
  <2> SUFFICES ASSUME NEW i \in Ids, NEW sc \in Scopes, NEW now \in Clock
               PROVE  CurrentEvidence(db, i, sc, now)
                          = CurrentEvidence(OnlyScope(db, sc), i, sc, now)
    BY DEF ScopedReadIsBlindElsewhere
  <2> DEFINE only == OnlyScope(db, sc)
  <2>1. ASSUME NEW j \in Ids
        PROVE  /\ Visible(only, j, sc) <=> Visible(db, j, sc)
               /\ Visible(db, j, sc) => only[j] = db[j]
    BY NullsAssumption DEF Visible, OnlyScope, InScope, Exists
  <2>2. PICK n : EndsAt(db, sc, i, n)
    BY WalkEnds
  <2> HIDE DEF only
  <2>3. /\ EndsAt(only, sc, i, n)
        /\ Cursors(only, i)[n] = Cursors(db, i)[n]
        /\ Fault(only, sc, Cursors(only, i), n) = Fault(db, sc, Cursors(db, i), n)
    BY <2>1, <2>2, WalksAgree
  <2>4. /\ Walk(only, sc, i).fault = Walk(db, sc, i).fault
        /\ Last(Walk(only, sc, i).chain) = Last(Walk(db, sc, i).chain)
        /\ Last(Walk(db, sc, i).chain) \in Ids
    <3>1. /\ Walk(only, sc, i).fault = Fault(only, sc, Cursors(only, i), n)
          /\ Walk(db, sc, i).fault = Fault(db, sc, Cursors(db, i), n)
      BY <2>2, <2>3, WalkAtItsEnd
    <3>2. /\ Last(Walk(only, sc, i).chain) = Cursors(only, i)[n]
          /\ Last(Walk(db, sc, i).chain) = Cursors(db, i)[n]
      BY <2>2, <2>3, ChainOfWalk
    <3>3. n \in 0..n
      BY <2>2, ChainAssumption DEF EndsAt
    <3>4. Cursors(db, i)[n] \in Ids
      BY <2>2, <3>3, WalkPasses
    <3> QED BY <2>3, <3>1, <3>2, <3>4
  <2>5. Walk(db, sc, i).fault = "none" => Visible(db, Last(Walk(db, sc, i).chain), sc)
    <3>1. Fault(db, sc, Cursors(db, i), n) = "none" => Visible(db, Cursors(db, i)[n], sc)
      BY DEF Fault
    <3> QED BY <2>2, <3>1, WalkAtItsEnd, ChainOfWalk
  <2>6. Walk(db, sc, i).fault = "none"
            => only[Last(Walk(db, sc, i).chain)] = db[Last(Walk(db, sc, i).chain)]
    BY <2>1, <2>4, <2>5
  <2> QED BY <2>4, <2>6 DEF CurrentEvidence, only
<1> QED BY <1>1, PTL

-----------------------------------------------------------------------------
(***************************************************************************)
(* Chains in time.                                                         *)
(***************************************************************************)

(* A step never turns a chain elsewhere: the records that led on before it *)
(* lead on to the same records after it.                                   *)
LEMMA StepKeepsCursors ==
    ASSUME TypeOK, [Next]_db, NEW start, NEW k \in 0..MaxChain,
           \A m \in 0..(k - 1) :
               LET i == Cursors(db, start)[m] IN
               i \in Ids /\ Exists(db, i) /\ HasSuccessor(db, i)
    PROVE  /\ \A m \in 0..k : Cursors(db', start)[m] = Cursors(db, start)[m]
           /\ \A m \in 0..(k - 1) : HasSuccessor(db', Cursors(db, start)[m])
<1>1. ASSUME NEW m \in 0..(k - 1)
      PROVE  /\ Successor(db')[Cursors(db, start)[m]]
                     = Successor(db)[Cursors(db, start)[m]]
             /\ HasSuccessor(db', Cursors(db, start)[m])
  <2> DEFINE i == Cursors(db, start)[m]
  <2>1. i \in Ids /\ Exists(db, i) /\ HasSuccessor(db, i)
    OBVIOUS
  <2> HIDE DEF i
  <2>2. Kept(i)
    BY <2>1, StepKeeps
  <2>3. Exists(db', i) /\ db'[i].superseded_by = db[i].superseded_by
    BY <2>1, <2>2, NullsAssumption DEF Kept, HasSuccessor
  <2>4. Successor(db')[i] = Successor(db)[i] /\ HasSuccessor(db', i)
    BY <2>1, <2>3 DEF Successor, HasSuccessor
  <2> QED BY <2>4 DEF i
<1>2. \A m \in 0..(k - 1) : Successor(db')[Cursors(db, start)[m]]
                                = Successor(db)[Cursors(db, start)[m]]
  BY <1>1
<1>3. \A m \in 0..k : Cursors(db', start)[m] = Cursors(db, start)[m]
  BY <1>2, CursorsAgree
<1> QED BY <1>1, <1>3

(* One step of the store, seen by an exact read before and after it. *)
LEMMA StepGrowsChain ==
    ASSUME TypeOK, [Next]_db, NEW i \in Ids,
           Walk(db, Null, i).fault = "none", Walk(db', Null, i).fault = "none"
    PROVE  IsPrefix(Walk(db, Null, i).chain, Walk(db', Null, i).chain)
<1>1. PICK m : EndsAt(db, Null, i, m)
  BY WalkEnds
<1>2. PICK n : EndsAt(db', Null, i, n)
  BY WalkEnds
<1>3. /\ m \in Nat /\ m <= MaxChain - 1
      /\ n \in Nat /\ n <= MaxChain - 1 /\ MaxChain \in Nat
  BY <1>1, <1>2, ChainAssumption DEF EndsAt
<1>4. /\ \A k \in 0..m : Cursors(db', i)[k] = Cursors(db, i)[k]
      /\ \A k \in 0..(m - 1) : HasSuccessor(db', Cursors(db, i)[k])
  <2>1. ASSUME NEW k \in 0..(m - 1)
        PROVE  LET j == Cursors(db, i)[k] IN
               j \in Ids /\ Exists(db, j) /\ HasSuccessor(db, j)
    <3>1. k \in 0..m
      BY <1>3
    <3> QED BY <1>1, <3>1, WalkPasses DEF Visible
  <2>2. m \in 0..MaxChain
    BY <1>3
  <2> QED BY <2>1, <2>2, StepKeepsCursors
<1>5. m <= n
  <2> SUFFICES ASSUME n < m PROVE FALSE
    BY <1>3
  <2>1. n \in 0..m /\ n \in 0..(m - 1)
    BY <1>3
  <2>2. HasSuccessor(db', Cursors(db', i)[n])
    BY <1>4, <2>1
  <2>3. Fault(db', Null, Cursors(db', i), n) = "none"
    BY <1>2, WalkAtItsEnd
  <2> QED BY <1>2, <2>2, <2>3 DEF EndsAt, Stops
<1> DEFINE s == Walk(db, Null, i).chain
           t == Walk(db', Null, i).chain
<1>6. /\ s \in Seq(Ids) /\ Len(s) = m + 1
      /\ \A k \in 1..(m + 1) : s[k] = Cursors(db, i)[k - 1]
  BY <1>1, ChainOfWalk
<1>7. /\ t \in Seq(Ids) /\ Len(t) = n + 1
      /\ \A k \in 1..(n + 1) : t[k] = Cursors(db', i)[k - 1]
  BY <1>2, ChainOfWalk
<1> HIDE DEF s, t
<1>8. \A k \in 1..(m + 1) : s[k] = t[k]
  BY <1>3, <1>4, <1>5, <1>6, <1>7
<1>9. Len(s) <= Len(t) /\ SubSeq(s, 1, Len(s)) = SubSeq(t, 1, Len(s))
  <2>1. Len(s) <= Len(t) /\ Len(s) \in Nat /\ \A k \in 1..Len(s) : s[k] = t[k]
    BY <1>3, <1>5, <1>6, <1>7, <1>8
  <2> QED BY <1>6, <1>7, <2>1
<1> QED BY <1>9 DEF IsPrefix, s, t

(* A chain that can be read before and after a step has at most got longer *)
(* at its end, whatever was imported (db/evidence.rs: the walks of         *)
(* get_current_evidence and get_rationale_history).                        *)
THEOREM ChainsGrow == Spec => ChainsOnlyGrow
<1>1. TypeOK /\ [Next]_db
        => [\A i \in Ids :
              LET before == Walk(db, Null, i)
                  after == Walk(db', Null, i)
              IN  before.fault = "none" /\ after.fault = "none"
                      => IsPrefix(before.chain, after.chain)]_db
  BY StepGrowsChain
<1> QED BY <1>1, TypeCorrect, PTL DEF Spec, ChainsOnlyGrow

-----------------------------------------------------------------------------
(***************************************************************************)
(* Exact reads of a store nothing damaged.                                 *)
(***************************************************************************)

(* Imports that are open, with starts SQLite can read. *)
ImportsAreOpen ==
    \A b \in ImportBatches : \A n \in DOMAIN b :
        /\ b[n].row.valid_until \notin Text
        /\ b[n].row.valid_from \in Text => b[n].row.valid_from.unix # Null

(* Then every sound row has a window the reads accept, and only a          *)
(* superseded one ends.                                                    *)
LEMMA SoundRowIsReadable ==
    ASSUME SoundInputs, ImportsAreOpen, NEW row, SoundRow(row)
    PROVE  SoundWindow(row) /\ (row.valid_until \in Text => row.superseded_by \in Ids)
<1>1. ASSUME NEW v \in Starts PROVE v.unix # Null
  <2>1. CASE v \in ValidFroms
    BY <2>1, InputsAssumption DEF SoundInputs
  <2>2. CASE \E now \in Clock : v = Whole(now)
    BY <2>2, ClockAssumption DEF Whole
  <2>3. CASE v \in Text /\ Imports(v, "valid_from")
    BY <2>3 DEF Imports, ImportsAreOpen
  <2> QED BY <1>1, <2>1, <2>2, <2>3 DEF Starts
<1>2. row.valid_until \in Text =>
          row.superseded_by \in Ids /\ row.valid_until.unix # Null
  BY DEF SoundRow, Imports, ImportsAreOpen
<1> QED BY <1>1, <1>2 DEF SoundRow, AgreedWindow, SoundWindow

(* A walk in a table without cycles meets no record twice. *)
LEMMA WalkMeetsNoneTwice ==
    ASSUME NoSupersessionCycle, NEW sc, NEW i \in Ids, NEW n, EndsAt(db, sc, i, n),
           NEW m \in 0..(n - 1)
    PROVE  Cursors(db, i)[m] # Cursors(db, i)[n]
<1> DEFINE cursor == Cursors(db, i)
<1> SUFFICES ASSUME cursor[m] = cursor[n] PROVE FALSE
  OBVIOUS
<1>1. n \in Nat
  BY ChainAssumption DEF EndsAt
<1> DEFINE S == {cursor[k] : k \in m..(n - 1)}
<1>2. ASSUME NEW k \in m..(n - 1)
      PROVE  cursor[k] \in Ids /\ Exists(db, cursor[k]) /\ db[cursor[k]].superseded_by \in S
  <2>1. k \in 0..n /\ k \in 0..(n - 1)
    BY <1>1
  <2>2. cursor[k] \in Ids
    BY <2>1, WalkPasses
  <2>3. Exists(db, cursor[k]) /\ db[cursor[k]].superseded_by = cursor[k + 1]
    BY <2>1, WalkPasses DEF Visible
  <2> HIDE DEF cursor
  <2>4. k + 1 \in m..(n - 1) \/ cursor[k + 1] = cursor[m]
    BY <1>1
  <2>5. m \in m..(n - 1)
    BY <1>1
  <2> QED BY <2>2, <2>3, <2>4, <2>5
<1> HIDE DEF cursor
<1>3. S \in SUBSET Ids /\ S # {} /\ \A x \in S : Exists(db, x) /\ db[x].superseded_by \in S
  <2>1. m \in m..(n - 1)
    BY <1>1
  <2> QED BY <1>2, <2>1
<1> HIDE DEF S
<1> QED BY <1>3 DEF NoSupersessionCycle, Trap

(* A walk in a table whose successors stay in scope sees all it meets. *)
LEMMA WalkStaysInScope ==
    ASSUME TypeOK, SupersessionStaysInScope, NEW i \in Ids, Exists(db, i),
           NEW n, EndsAt(db, db[i].scope, i, n)
    PROVE  Visible(db, Cursors(db, i)[n], db[i].scope)
<1> DEFINE cursor == Cursors(db, i)
           sc == db[i].scope
<1>1. n \in Nat
  BY ChainAssumption DEF EndsAt
<1>2. CASE n = 0
  BY <1>2, CursorSteps DEF Visible
<1>3. CASE n # 0
  <2>1. n - 1 \in 0..(n - 1) /\ n - 1 \in 0..n /\ (n - 1) + 1 = n
    BY <1>1, <1>3
  <2>2. cursor[n - 1] \in Ids
    BY <2>1, WalkPasses
  <2>3. /\ Visible(db, cursor[n - 1], sc) /\ HasSuccessor(db, cursor[n - 1])
        /\ cursor[n] = db[cursor[n - 1]].superseded_by
    <3>1. ASSUME NEW m \in 0..(n - 1)
          PROVE  /\ Visible(db, cursor[m], sc) /\ HasSuccessor(db, cursor[m])
                 /\ cursor[m + 1] = db[cursor[m]].superseded_by
      BY WalkPassesEach
    <3> HIDE DEF cursor, sc
    <3> QED BY <2>1, <3>1
  <2>4. sc # Null
    BY NullsAssumption DEF TypeOK, Exists, Row
  <2> HIDE DEF cursor, sc
  <2>5. InScope(db, cursor[n], sc)
    BY <2>2, <2>3, <2>4 DEF Visible, HasSuccessor, SupersessionStaysInScope
  <2> QED BY <2>5 DEF InScope, Visible, cursor, sc
<1> QED BY <1>2, <1>3

(* A table without cycles, without links between scopes, and with sound    *)
(* windows.                                                                *)
LEMMA UndamagedResolves ==
    ASSUME SoundInputs, ImportsAreOpen, TypeOK,
           NoSupersessionCycle, SupersessionStaysInScope, SoundRows
    PROVE  CapturedRecordsResolve
<1> SUFFICES ASSUME NEW i \in Ids, NEW now \in Clock, Exists(db, i)
             PROVE  CurrentEvidence(db, i, db[i].scope, now).code
                        \in {"ok", "not_yet_valid", "traversal_limit"}
  BY DEF CapturedRecordsResolve
<1> DEFINE sc == db[i].scope
<1>1. PICK n : EndsAt(db, sc, i, n)
  BY WalkEnds
<1> DEFINE end == Cursors(db, i)[n]
<1>2. end \in Ids /\ Visible(db, end, sc)
  <2>1. n \in 0..n
    BY <1>1, ChainAssumption DEF EndsAt
  <2> QED BY <1>1, <2>1, WalkPasses, WalkStaysInScope
<1>3. SoundWindow(db[end]) /\ (db[end].valid_until \in Text => HasSuccessor(db, end))
  <2>1. SoundRow(db[end])
    BY <1>2 DEF SoundRows, Visible
  <2> QED BY <2>1, SoundRowIsReadable DEF HasSuccessor
<1>4. Fault(db, sc, Cursors(db, i), n) \in {"none", "traversal_limit"}
  <2>1. \A m \in 0..(n - 1) : Cursors(db, i)[m] # Cursors(db, i)[n]
    BY <1>1, WalkMeetsNoneTwice
  <2> QED BY <1>2, <1>3, <2>1 DEF Fault
<1>5. Fault(db, sc, Cursors(db, i), n) = "none" => db[end].valid_until \notin Text
  BY <1>1, <1>3 DEF EndsAt, Stops
<1>6. /\ Walk(db, sc, i).fault = Fault(db, sc, Cursors(db, i), n)
      /\ Last(Walk(db, sc, i).chain) = end
  BY <1>1, WalkAtItsEnd, ChainOfWalk
<1> HIDE DEF end, sc
<1> QED BY <1>4, <1>5, <1>6 DEF CurrentEvidence, sc

(* Every exact read of a record of an undamaged store answers: with the    *)
(* current record, or that it starts later, or that the chain outgrew the  *)
(* limit; never with a cycle, a missing successor, a bad interval or an    *)
(* expired record (db/evidence.rs:get_current_evidence).                   *)
THEOREM RecordsResolve ==
    ASSUME SoundInputs, ImportsCarryNoSuccessor, ImportsAreOpen
    PROVE  Spec => []CapturedRecordsResolve
<1>1. /\ TypeOK /\ NoSupersessionCycle /\ SupersessionStaysInScope /\ SoundRows
      => CapturedRecordsResolve
  BY UndamagedResolves
<1> QED BY <1>1, TypeCorrect, Acyclic, StaysInScope, RowsAreSound, PTL
===============================================================================
