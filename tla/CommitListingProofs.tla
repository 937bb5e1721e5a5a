-------------------------- MODULE CommitListingProofs --------------------------
(***************************************************************************)
(* A listing of the links of a commit misses none, for any number of       *)
(* identifiers, any page limit, and whatever other clients write between   *)
(* two pages.                                                              *)
(*                                                                         *)
(* The argument: the cursor is the first link of the next page, so what a  *)
(* client has so far is everything of its steady links before the cursor.  *)
(***************************************************************************)
EXTENDS ToolsProofs

-----------------------------------------------------------------------------
(***************************************************************************)
(* Links in order: by the number of links before each.                     *)
(***************************************************************************)
Before(S, i) == {j \in S : Precedes(j, i)}
Rank(S, i) == Cardinality(Before(S, i))

LEMMA Finite ==
    ASSUME NEW S \in SUBSET Ids
    PROVE  /\ IsFiniteSet(S) /\ Cardinality(S) \in Nat
           /\ \A i \in S : IsFiniteSet(Before(S, i)) /\ Rank(S, i) \in Nat
<1>1. IsFiniteSet(S)
  BY ChainAssumption, FS_Subset
<1>2. ASSUME NEW i \in S
      PROVE  IsFiniteSet(Before(S, i)) /\ Rank(S, i) \in Nat
  <2>1. Before(S, i) \in SUBSET S
    BY DEF Before
  <2>2. IsFiniteSet(Before(S, i))
    BY <1>1, <2>1, FS_Subset
  <2> QED BY <2>2, FS_CardinalityType DEF Rank
<1> QED BY <1>1, <1>2, FS_CardinalityType

(* A strict subset of a finite set is smaller. *)
LEMMA Smaller ==
    ASSUME NEW T, IsFiniteSet(T), NEW R \in SUBSET T, R # T
    PROVE  Cardinality(R) < Cardinality(T)
<1>1. Cardinality(R) <= Cardinality(T) /\ Cardinality(R) # Cardinality(T) /\ IsFiniteSet(R)
  BY FS_Subset
<1>2. Cardinality(R) \in Nat /\ Cardinality(T) \in Nat
  BY <1>1, FS_CardinalityType
<1> QED BY <1>1, <1>2

LEMMA RankGrows ==
    ASSUME NEW S \in SUBSET Ids, NEW i \in S, NEW j \in S, Precedes(i, j)
    PROVE  Rank(S, i) < Rank(S, j)
<1>1. Before(S, i) \in SUBSET Before(S, j)
  BY OrderAssumption DEF Before
<1>2. i \in Before(S, j) /\ i \notin Before(S, i)
  BY OrderAssumption DEF Before
<1>3. IsFiniteSet(Before(S, j))
  BY Finite
<1> QED BY <1>1, <1>2, <1>3, Smaller DEF Rank

LEMMA RankIsBelow ==
    ASSUME NEW S \in SUBSET Ids, NEW i \in S
    PROVE  Rank(S, i) \in 0..(Cardinality(S) - 1)
<1>1. Before(S, i) \in SUBSET S /\ Before(S, i) # S
  BY OrderAssumption DEF Before
<1>2. Rank(S, i) < Cardinality(S)
  BY <1>1, Finite, Smaller DEF Rank
<1> QED BY <1>2, Finite

(* Each rank is that of one link. *)
LEMMA RankIsBijective ==
    ASSUME NEW S \in SUBSET Ids
    PROVE  /\ \A i, j \in S : Rank(S, i) = Rank(S, j) => i = j
           /\ \A n \in 0..(Cardinality(S) - 1) : \E i \in S : Rank(S, i) = n
<1>1. ASSUME NEW i \in S, NEW j \in S, Rank(S, i) = Rank(S, j)
      PROVE  i = j
  <2>1. ~Precedes(i, j) /\ ~Precedes(j, i)
    BY <1>1, RankGrows, Finite
  <2> QED BY <2>1, OrderAssumption
<1> DEFINE T == 0..(Cardinality(S) - 1)
           f == [i \in S |-> Rank(S, i)]
<1>2. f \in [S -> T]
  BY RankIsBelow
<1>3. f \in Injection(S, T)
  BY <1>1, <1>2 DEF Injection, IsInjective
<1>4. IsFiniteSet(T) /\ Cardinality(T) = Cardinality(S)
  <2>1. Cardinality(S) \in Nat
    BY Finite
  <2> DEFINE m == Cardinality(S)
  <2> HIDE DEF m
  <2>2. m \in Nat => m - 1 \in Int /\ (IF 0 > m - 1 THEN 0 ELSE (m - 1) - 0 + 1) = m
    OBVIOUS
  <2>3. m \in Nat => IsFiniteSet(0..(m - 1)) /\ Cardinality(0..(m - 1)) = m
    BY <2>2, FS_Interval
  <2> QED BY <2>1, <2>3 DEF m
<1>5. f \in Surjection(S, T)
  <2> HIDE DEF f, T
  <2> QED BY <1>3, <1>4, FS_Injection
<1>6. \A n \in T : \E i \in S : f[i] = n
  <2> HIDE DEF f, T
  <2> QED BY <1>5 DEF Surjection
<1> QED BY <1>1, <1>6

(* The links in order are the set, each once and in order. *)
LEMMA InOrderIs ==
    ASSUME NEW S \in SUBSET Ids
    PROVE  /\ InOrder(S) \in Seq(S) /\ Len(InOrder(S)) = Cardinality(S)
           /\ \A m, n \in 1..Cardinality(S) : m < n => Precedes(InOrder(S)[m], InOrder(S)[n])
           /\ \A i \in S : \E n \in 1..Cardinality(S) : InOrder(S)[n] = i
<1> DEFINE q == InOrder(S)
           size == Cardinality(S)
<1>1. size \in Nat
  BY Finite
<1>2. q = [n \in 1..size |-> CHOOSE i \in S : Rank(S, i) = n - 1]
  BY DEF InOrder, Rank, Before
<1> HIDE DEF q, size
<1>3. ASSUME NEW n \in 1..size
      PROVE  q[n] \in S /\ Rank(S, q[n]) = n - 1
  <2>1. n - 1 \in 0..(size - 1)
    BY <1>1
  <2>2. \E i \in S : Rank(S, i) = n - 1
    BY <2>1, RankIsBijective DEF size
  <2>3. q[n] = CHOOSE i \in S : Rank(S, i) = n - 1
    BY <1>2
  <2> QED BY <2>2, <2>3
<1>4. q \in Seq(S) /\ Len(q) = size
  <2>1. q \in [1..size -> S]
    BY <1>2, <1>3
  <2> QED BY <1>1, <2>1
<1>5. ASSUME NEW m \in 1..size, NEW n \in 1..size, m < n
      PROVE  Precedes(q[m], q[n])
  <2>1. /\ q[m] \in S /\ q[n] \in S
        /\ Rank(S, q[m]) = m - 1 /\ Rank(S, q[n]) = n - 1
    BY <1>3
  <2>2. q[m] # q[n]
    BY <1>1, <1>5, <2>1
  <2>3. ~Precedes(q[n], q[m])
    <3> SUFFICES ASSUME Precedes(q[n], q[m]) PROVE FALSE
      OBVIOUS
    <3>1. Rank(S, q[n]) < Rank(S, q[m])
      BY <2>1, RankGrows
    <3> QED BY <1>1, <1>5, <2>1, <3>1
  <2> QED BY <2>1, <2>2, <2>3, OrderAssumption
<1>6. ASSUME NEW i \in S
      PROVE  \E n \in 1..size : q[n] = i
  <2>1. Rank(S, i) \in 0..(size - 1)
    BY RankIsBelow DEF size
  <2> DEFINE n == Rank(S, i) + 1
  <2>2. n \in 1..size /\ n - 1 = Rank(S, i)
    BY <1>1, <2>1
  <2> HIDE DEF n
  <2>3. q[n] \in S /\ Rank(S, q[n]) = Rank(S, i)
    BY <1>3, <2>2
  <2> QED BY <2>2, <2>3, RankIsBijective
<1> QED BY <1>4, <1>5, <1>6 DEF q, size

-----------------------------------------------------------------------------
(***************************************************************************)
(* One page.                                                               *)
(***************************************************************************)
Behind(i, cursor) == cursor # Null /\ Precedes(i, cursor)
Ordered(q) == \A m, n \in DOMAIN q : m < n => Precedes(q[m], q[n])

(* A page of the links all, from the cursor on. *)
PageOf(all, cursor, items, next) ==
    /\ items \in Seq(all) /\ Ordered(items)
    /\ \A n \in DOMAIN items : ~Behind(items[n], cursor)
    /\ next \in all \cup {Null}
    /\ next # Null => ~Behind(next, cursor) /\ \A n \in DOMAIN items : Precedes(items[n], next)
    /\ \A i \in all : \/ Behind(i, cursor)
                      \/ \E n \in DOMAIN items : items[n] = i
                      \/ next # Null /\ ~Precedes(i, next)

LEMMA LinksAreIds ==
    ASSUME NEW sc, NEW commit
    PROVE  LinksOf(Store, sc, commit) \in SUBSET Ids
    BY DEF LinksOf

(* The first links of an order, and the one behind them. *)
LEMMA FirstPage ==
    ASSUME NEW all \in SUBSET Ids, NEW cursor, NEW rest, NEW size \in Nat \ {0},
           rest \in Seq(all), Len(rest) = size,
           \A m, n \in 1..size : m < n => Precedes(rest[m], rest[n]),
           \A n \in 1..size : ~Behind(rest[n], cursor),
           \A i \in all : Behind(i, cursor) \/ \E n \in 1..size : rest[n] = i
    PROVE  PageOf(all, cursor, SubSeq(rest, 1, Min({PageLimit, size})),
                  IF size > PageLimit THEN rest[PageLimit + 1] ELSE Null)
<1> DEFINE k == Min({PageLimit, size})
           items == SubSeq(rest, 1, k)
           next == IF size > PageLimit THEN rest[PageLimit + 1] ELSE Null
<1>1. PageLimit \in Nat \ {0} /\ Null \notin Ids
  BY PageAssumption, NullsAssumption
<1>2. k = IF PageLimit <= size THEN PageLimit ELSE size
  BY <1>1, MinOfTwo
<1> HIDE DEF k
<1>3. k \in 1..size
  BY <1>1, <1>2
<1>4. items \in Seq(all) /\ DOMAIN items = 1..k /\ \A n \in 1..k : items[n] = rest[n]
  BY <1>3
<1>5. \A n \in 1..size : rest[n] \in all
  OBVIOUS
<1> HIDE DEF items
<1>6. Ordered(items) /\ \A n \in DOMAIN items : ~Behind(items[n], cursor)
  BY <1>3, <1>4 DEF Ordered
<1>7. CASE size > PageLimit
  <2>1. k = PageLimit /\ k + 1 \in 1..size /\ next = rest[k + 1]
    BY <1>1, <1>2, <1>7
  <2> HIDE DEF next
  <2>2. next \in all /\ ~Behind(next, cursor)
    BY <1>5, <2>1
  <2>3. \A n \in DOMAIN items : Precedes(items[n], next)
    BY <1>3, <1>4, <2>1
  <2>4. ASSUME NEW i \in all, ~Behind(i, cursor), Precedes(i, next)
        PROVE  \E n \in DOMAIN items : items[n] = i
    <3>1. PICK n \in 1..size : rest[n] = i
      BY <2>4
    <3>2. ~(n > k)
      <4> SUFFICES ASSUME n > k PROVE FALSE
        OBVIOUS
      <4>1. n = k + 1 \/ k + 1 < n
        BY <1>3
      <4>2. i = next \/ Precedes(next, i)
        BY <2>1, <3>1, <4>1
      <4> QED BY <2>2, <2>4, <4>2, OrderAssumption
    <3>3. n \in 1..k
      BY <1>3, <3>2
    <3> QED BY <1>4, <3>1, <3>3
  <2>5. next # Null
    BY <1>1, <2>2
  <2> QED BY <1>4, <1>6, <2>2, <2>3, <2>4, <2>5 DEF PageOf, next, items, k
<1>8. CASE ~(size > PageLimit)
  <2>1. k = size /\ next = Null
    BY <1>1, <1>2, <1>8
  <2> HIDE DEF next
  <2>2. ASSUME NEW i \in all, ~Behind(i, cursor)
        PROVE  \E n \in DOMAIN items : items[n] = i
    BY <1>4, <2>1, <2>2
  <2> QED BY <1>4, <1>6, <2>1, <2>2 DEF PageOf, next, items, k
<1> QED BY <1>7, <1>8

(* What a request of a page answers. *)
LEMMA PageIs ==
    ASSUME NEW sc, NEW commit, NEW cursor \in Ids \cup {Null}
    PROVE  LET all == LinksOf(Store, sc, commit)
               p == LinksPage(Store, sc, commit, cursor)
           IN  /\ p.fault \in {"none", "invalid_cursor", "not_found"}
               /\ p.fault = "none" => PageOf(all, cursor, p.items, p.next)
               /\ p.fault = "not_found" => all = {}
<1> DEFINE all == LinksOf(Store, sc, commit)
           from == FromCursor(all, cursor)
           rest == InOrder(from)
           size == Cardinality(from)
           p == LinksPage(Store, sc, commit, cursor)
<1>1. all \in SUBSET Ids
  BY LinksAreIds
<1>2. p = IF cursor # Null /\ cursor \notin all THEN [fault |-> "invalid_cursor"]
          ELSE IF rest = <<>> THEN [fault |-> "not_found"]
          ELSE [fault |-> "none",
                items |-> SubSeq(rest, 1, Min({PageLimit, Len(rest)})),
                next |-> IF Len(rest) > PageLimit THEN rest[PageLimit + 1] ELSE Null]
  BY DEF LinksPage
<1> HIDE DEF all, p
<1>3. from \in SUBSET Ids /\ \A i \in all : i \in from <=> ~Behind(i, cursor)
  BY <1>1 DEF FromCursor, Behind
<1>4. from \in SUBSET all
  BY DEF FromCursor
<1> HIDE DEF from
<1>5. size \in Nat
  BY <1>3, Finite
<1>6. /\ rest \in Seq(from) /\ Len(rest) = size
      /\ \A m, n \in 1..size : m < n => Precedes(rest[m], rest[n])
      /\ \A i \in from : \E n \in 1..size : rest[n] = i
  BY <1>3, InOrderIs
<1> HIDE DEF rest, size
<1>7. CASE cursor # Null /\ cursor \notin all
  BY <1>2, <1>7 DEF p
<1>8. CASE ~(cursor # Null /\ cursor \notin all) /\ rest = <<>>
  <2>1. size = 0
    BY <1>6, <1>8
  <2>2. from = {}
    BY <1>5, <1>6, <2>1
  <2>3. cursor = Null
    BY <1>1, <1>3, <1>8, <2>2, OrderAssumption DEF Behind
  <2>4. all = {}
    BY <1>3, <2>2, <2>3 DEF Behind
  <2> QED BY <1>2, <1>8, <2>4 DEF p, all
<1>9. CASE ~(cursor # Null /\ cursor \notin all) /\ rest # <<>>
  <2>1. size \in Nat \ {0}
    BY <1>5, <1>6, <1>9
  <2>2. \A n \in 1..size : rest[n] \in from
    BY <1>6
  <2>3. rest \in Seq(all)
    BY <1>4, <1>6
  <2>4. \A n \in 1..size : ~Behind(rest[n], cursor)
    BY <1>3, <1>4, <2>2
  <2>5. \A i \in all : Behind(i, cursor) \/ \E n \in 1..size : rest[n] = i
    BY <1>3, <1>6
  <2>6. PageOf(all, cursor, SubSeq(rest, 1, Min({PageLimit, size})),
               IF size > PageLimit THEN rest[PageLimit + 1] ELSE Null)
    BY <1>1, <1>6, <2>1, <2>3, <2>4, <2>5, FirstPage
  <2>7. p = [fault |-> "none",
             items |-> SubSeq(rest, 1, Min({PageLimit, size})),
             next |-> IF size > PageLimit THEN rest[PageLimit + 1] ELSE Null]
    BY <1>2, <1>6, <1>9
  <2>8. p.fault = "none" /\ PageOf(all, cursor, p.items, p.next)
    BY <2>6, <2>7
  <2> QED BY <2>8 DEF p, all
<1> QED BY <1>7, <1>8, <1>9

-----------------------------------------------------------------------------
(***************************************************************************)
(* A listing in its progress: the call t, in phase ph or with outcome out, *)
(* its page pg and the links st that were there all along.                 *)
(***************************************************************************)
Listing(s, t, ph, out, pg, st) ==
    /\ pg.got \in Seq(Ids) /\ pg.cursor \in Ids \cup {Null}
    /\ Ordered(pg.got)
    /\ \A n \in DOMAIN pg.got : Linked(s, pg.got[n], t.commit)
    /\ st \subseteq LinksOf(s, t.scope, t.commit)
    /\ ph = "called" =>
          /\ \A n \in DOMAIN pg.got : Behind(pg.got[n], pg.cursor)
          /\ \A i \in st : Behind(i, pg.cursor) => i \in Range(pg.got)
    /\ ph = "done" /\ out = "ok" => st \subseteq Range(pg.got)
    /\ ph = "done" /\ out = "not_found" => st = {}

FirstRequest == [cursor |-> Null, got |-> <<>>]

LEMMA ListingStarts ==
    ASSUME NEW t
    PROVE  Listing(Store, t, "called", Null, FirstRequest, LinksOf(Store, t.scope, t.commit))
<1>1. <<>> \in Seq(Ids) /\ DOMAIN <<>> = {}
  OBVIOUS
<1> QED BY <1>1 DEF Listing, FirstRequest, Ordered, Behind

(* A sequence joined to another: the elements of the one, then of the      *)
(* other.                                                                  *)
LEMMA JoinOfTwo ==
    ASSUME NEW S, NEW q \in Seq(S), NEW r \in Seq(S)
    PROVE  /\ q \o r \in Seq(S)
           /\ DOMAIN (q \o r) = 1..(Len(q) + Len(r))
           /\ \A n \in DOMAIN q : n \in DOMAIN (q \o r) /\ (q \o r)[n] = q[n]
           /\ \A n \in DOMAIN r : Len(q) + n \in DOMAIN (q \o r) /\ (q \o r)[Len(q) + n] = r[n]
           /\ \A n \in DOMAIN (q \o r) :
                 \/ n \in DOMAIN q /\ (q \o r)[n] = q[n]
                 \/ n - Len(q) \in DOMAIN r /\ (q \o r)[n] = r[n - Len(q)]
<1>1. /\ q \o r \in Seq(S) /\ Len(q \o r) = Len(q) + Len(r)
      /\ Len(q) \in Nat /\ Len(r) \in Nat
      /\ DOMAIN q = 1..Len(q) /\ DOMAIN r = 1..Len(r)
      /\ \A n \in 1..(Len(q) + Len(r)) :
            (q \o r)[n] = IF n <= Len(q) THEN q[n] ELSE r[n - Len(q)]
  OBVIOUS
<1>2. DOMAIN (q \o r) = 1..(Len(q) + Len(r))
  BY <1>1
<1> DEFINE joined == q \o r
           m == Len(q)
           k == Len(r)
<1> HIDE DEF joined, m, k
<1>3. /\ joined \in Seq(S) /\ m \in Nat /\ k \in Nat /\ DOMAIN q = 1..m /\ DOMAIN r = 1..k
      /\ DOMAIN joined = 1..(m + k)
      /\ \A n \in 1..(m + k) : joined[n] = IF n <= m THEN q[n] ELSE r[n - m]
  BY <1>1, <1>2 DEF joined, m, k
<1>4. \A n \in DOMAIN q : n \in DOMAIN joined /\ joined[n] = q[n]
  BY <1>3
<1>5. ASSUME NEW n \in DOMAIN r
      PROVE  m + n \in DOMAIN joined /\ joined[m + n] = r[n]
  <2>1. m + n \in 1..(m + k) /\ ~(m + n <= m) /\ (m + n) - m = n
    BY <1>3
  <2> QED BY <1>3, <2>1
<1>6. ASSUME NEW n \in DOMAIN joined
      PROVE  \/ n \in DOMAIN q /\ joined[n] = q[n]
             \/ n - m \in DOMAIN r /\ joined[n] = r[n - m]
  BY <1>3
<1> QED BY <1>3, <1>4, <1>5, <1>6 DEF joined, m, k

LEMMA ListingGoesOn ==
    ASSUME NEW t, NEW pg, NEW st, NEW items, NEW next,
           Listing(Store, t, "called", Null, pg, st),
           PageOf(LinksOf(Store, t.scope, t.commit), pg.cursor, items, next)
    PROVE  LET new == [cursor |-> next, got |-> pg.got \o items] IN
           /\ next = Null => Listing(Store, t, "done", "ok", new, st)
           /\ next # Null => Listing(Store, t, "called", Null, new, st)
<1> DEFINE all == LinksOf(Store, t.scope, t.commit)
           got == pg.got
           joined == got \o items
           new == [cursor |-> next, got |-> joined]
<1>1. /\ got \in Seq(Ids) /\ pg.cursor \in Ids \cup {Null} /\ Ordered(got)
      /\ \A n \in DOMAIN got : Linked(Store, got[n], t.commit) /\ Behind(got[n], pg.cursor)
      /\ st \subseteq all
      /\ \A i \in st : Behind(i, pg.cursor) => i \in Range(got)
  BY DEF Listing
<1>2. /\ all \in SUBSET Ids
      /\ \A i \in all : Linked(Store, i, t.commit)
  BY DEF LinksOf
<1> HIDE DEF all
<1>3. /\ items \in Seq(all) /\ Ordered(items)
      /\ \A n \in DOMAIN items : ~Behind(items[n], pg.cursor)
      /\ next \in all \cup {Null}
      /\ next # Null => /\ ~Behind(next, pg.cursor)
                        /\ \A n \in DOMAIN items : Precedes(items[n], next)
      /\ \A i \in all : \/ Behind(i, pg.cursor)
                        \/ \E n \in DOMAIN items : items[n] = i
                        \/ next # Null /\ ~Precedes(i, next)
  BY DEF PageOf, all
<1>4. items \in Seq(Ids)
  BY <1>2, <1>3
<1>5. /\ joined \in Seq(Ids)
      /\ \A n \in DOMAIN got : n \in DOMAIN joined /\ joined[n] = got[n]
      /\ \A n \in DOMAIN items : Len(got) + n \in DOMAIN joined /\ joined[Len(got) + n] = items[n]
      /\ DOMAIN joined = 1..(Len(got) + Len(items))
      /\ \A n \in DOMAIN joined :
            \/ n \in DOMAIN got /\ joined[n] = got[n]
            \/ n - Len(got) \in DOMAIN items /\ joined[n] = items[n - Len(got)]
  BY <1>1, <1>4, JoinOfTwo
<1>6. /\ Len(got) \in Nat /\ Len(items) \in Nat
      /\ DOMAIN got = 1..Len(got) /\ DOMAIN items = 1..Len(items)
      /\ \A n \in DOMAIN got : got[n] \in Ids
      /\ \A n \in DOMAIN items : items[n] \in all
  BY <1>1, <1>3
<1> HIDE DEF joined, got
<1>7. ASSUME NEW i \in Ids, NEW j \in Ids, Behind(i, pg.cursor), ~Behind(j, pg.cursor)
      PROVE  Precedes(i, j)
  BY <1>1, <1>7, OrderAssumption DEF Behind
<1>8. Ordered(joined)
  <2> SUFFICES ASSUME NEW m \in DOMAIN joined, NEW n \in DOMAIN joined, m < n
               PROVE  Precedes(joined[m], joined[n])
    BY DEF Ordered
  <2>1. CASE n \in DOMAIN got /\ joined[n] = got[n]
    <3>1. m \in DOMAIN got /\ joined[m] = got[m]
      BY <1>5, <1>6, <2>1
    <3> QED BY <1>1, <2>1, <3>1 DEF Ordered
  <2>2. CASE /\ n - Len(got) \in DOMAIN items /\ joined[n] = items[n - Len(got)]
             /\ m \in DOMAIN got /\ joined[m] = got[m]
    <3>1. Behind(joined[m], pg.cursor) /\ ~Behind(joined[n], pg.cursor)
          /\ joined[m] \in Ids /\ joined[n] \in Ids
      BY <1>1, <1>2, <1>3, <1>6, <2>2
    <3> QED BY <1>7, <3>1
  <2>3. CASE /\ n - Len(got) \in DOMAIN items /\ joined[n] = items[n - Len(got)]
             /\ m - Len(got) \in DOMAIN items /\ joined[m] = items[m - Len(got)]
    <3>1. m - Len(got) < n - Len(got)
      BY <1>5, <1>6
    <3> QED BY <1>3, <2>3, <3>1 DEF Ordered
  <2> QED BY <1>5, <2>1, <2>2, <2>3
<1>9. \A n \in DOMAIN joined : Linked(Store, joined[n], t.commit)
  BY <1>1, <1>2, <1>5, <1>6
<1>10. \A n \in DOMAIN got : got[n] \in Range(joined)
  BY <1>5 DEF Range
<1>11. \A n \in DOMAIN items : items[n] \in Range(joined)
  BY <1>5 DEF Range
<1>12. ASSUME NEW i \in st, next # Null => Precedes(i, next)
       PROVE  i \in Range(joined)
  <2>1. CASE Behind(i, pg.cursor)
    <3>1. i \in Range(got)
      BY <1>1, <2>1
    <3>2. PICK n \in DOMAIN got : got[n] = i
      BY <3>1 DEF Range
    <3> QED BY <1>10, <3>2
  <2>2. CASE ~Behind(i, pg.cursor)
    <3>1. PICK n \in DOMAIN items : items[n] = i
      BY <1>1, <1>3, <1>12, <2>2
    <3> QED BY <1>11, <3>1
  <2> QED BY <2>1, <2>2
<1>13. new.cursor = next /\ new.got = joined
  OBVIOUS
<1>14. next \in Ids \cup {Null}
  BY <1>2, <1>3
<1>15. CASE next = Null
  <2>1. st \subseteq Range(joined)
    BY <1>12, <1>15
  <2>2. Listing(Store, t, "done", "ok", new, st)
    BY <1>1, <1>5, <1>8, <1>9, <1>13, <1>14, <2>1 DEF Listing, all
  <2> QED BY <1>15, <2>2 DEF joined, got
<1>16. CASE next # Null
  <2>1. ASSUME NEW n \in DOMAIN joined
        PROVE  Behind(joined[n], next)
    <3>1. CASE n \in DOMAIN got /\ joined[n] = got[n]
      <4>1. /\ Behind(joined[n], pg.cursor) /\ ~Behind(next, pg.cursor)
            /\ joined[n] \in Ids /\ next \in Ids
        BY <1>1, <1>3, <1>6, <1>14, <1>16, <3>1
      <4> QED BY <1>7, <1>16, <4>1 DEF Behind
    <3>2. CASE n - Len(got) \in DOMAIN items /\ joined[n] = items[n - Len(got)]
      BY <1>3, <1>16, <3>2 DEF Behind
    <3> QED BY <1>5, <3>1, <3>2
  <2>2. \A i \in st : Behind(i, next) => i \in Range(joined)
    BY <1>12 DEF Behind
  <2>3. Listing(Store, t, "called", Null, new, st)
    BY <1>1, <1>5, <1>8, <1>9, <1>13, <1>14, <2>1, <2>2 DEF Listing, all
  <2> QED BY <1>16, <2>3 DEF joined, got
<1> QED BY <1>15, <1>16

LEMMA ListingEnds ==
    ASSUME NEW t, NEW pg, NEW st, NEW out, Listing(Store, t, "called", Null, pg, st), out # "ok",
           out = "not_found" => LinksOf(Store, t.scope, t.commit) = {}
    PROVE  Listing(Store, t, "done", out, pg, st)
    BY DEF Listing

(* Links stay, and a listing is asked for no more than what stays in its   *)
(* scope.                                                                  *)
LEMMA ListingOutlives ==
    ASSUME NEW t, t.commit \in Commits, NEW ph, NEW out, NEW pg, NEW st,
           Listing(Store, t, ph, out, pg, st),
           \A l \in Ids \X Commits : links[l] # NoLink => links'[l] = links[l]
    PROVE  Listing(Store', t, ph, out, pg, {i \in st : InScope(db', i, t.scope)})
<1> DEFINE left == {i \in st : InScope(db', i, t.scope)}
<1>1. /\ pg.got \in Seq(Ids) /\ st \subseteq Ids /\ left \subseteq st
      /\ \A i \in st : Linked(Store, i, t.commit)
      /\ \A n \in DOMAIN pg.got : pg.got[n] \in Ids
  BY DEF Listing, LinksOf
<1>2. ASSUME NEW i \in Ids, Linked(Store, i, t.commit)
      PROVE  Linked(Store', i, t.commit)
  <2>1. <<i, t.commit>> \in Ids \X Commits
    OBVIOUS
  <2>2. Store.links = links /\ Store'.links = links'
    BY DEF Store
  <2>3. links[<<i, t.commit>>] # NoLink
    BY <1>2, <2>2 DEF Linked
  <2> QED BY <2>1, <2>2, <2>3 DEF Linked
<1>3. Store'.table = db'
  BY DEF Store
<1>4. left \subseteq LinksOf(Store', t.scope, t.commit)
  BY <1>1, <1>2, <1>3 DEF LinksOf
<1>5. \A n \in DOMAIN pg.got : Linked(Store', pg.got[n], t.commit)
  BY <1>1, <1>2 DEF Listing
<1> HIDE DEF left
<1>6. Listing(Store', t, ph, out, pg, left)
  BY <1>1, <1>4, <1>5 DEF Listing
<1> QED BY <1>6 DEF left

-----------------------------------------------------------------------------
(***************************************************************************)
(* The invariant: every listing is in such progress.                       *)
(***************************************************************************)
ListingOf(c) ==
    IsCall(c, "commit_links") => Listing(Store, call[c], phase[c], outcome[c], page[c], steady[c])
ListingInv ==
    /\ DOMAIN page = Clients /\ DOMAIN steady = Clients
    /\ \A c \in Clients : ListingOf(c)

LEMMA ListingCall ==
    ASSUME ToolsInv, NEW c \in Clients, IsCall(c, "commit_links")
    PROVE  /\ call[c] \in Calls /\ call[c].tool = "commit_links" /\ call[c].commit \in Commits
           /\ phase[c] \in {"called", "done"}
           /\ phase[c] = "called" => outcome[c] = Null
<1>1. Typed /\ CallOf(c)
  BY DEF ToolsInv
<1>2. call[c] \in Calls /\ call[c].tool = "commit_links"
  BY <1>1 DEF Typed, IsCall
<1>3. call[c].commit \in Commits
  BY <1>2, CallFields
<1>4. phase[c] \in {"called", "ready", "reading", "writing", "pending", "searching", "ranking", "done"}
  BY <1>1 DEF Typed, Phases
<1> QED BY <1>1, <1>2, <1>3, <1>4 DEF CallOf, Holding, Deferred, Immediate

(* Pages and steady links change at a start, a page or a commit only.      *)
LEMMA PagesStay ==
    ASSUME ListingInv, NEW o \in Clients, Step(o)
    PROVE  /\ DOMAIN page' = Clients /\ DOMAIN steady' = Clients
           /\ \A c \in Clients \ {o} : page'[c] = page[c]
           /\ ~Commit(o) => \A c \in Clients \ {o} : steady'[c] = steady[c]
<1>1. CASE Start(o)
  BY <1>1 DEF Start, ListingInv
<1>2. CASE Commit(o)
  BY <1>2 DEF Commit, ListingInv
<1>3. CASE ListPage(o)
  BY <1>3 DEF ListPage, ListingInv
<1>4. CASE Look(o) \/ Begin(o) \/ Write(o) \/ Wait(o) \/ Search(o) \/ TimeOut(o) \/ Die(o)
  BY <1>4 DEF Look, Begin, Write, Wait, Search, TimeOut, Die, ListingInv
<1> QED BY <1>1, <1>2, <1>3, <1>4 DEF Step, Works

(* The listing of a client while another takes a step. *)
LEMMA OtherListing ==
    ASSUME ToolsInv, ListingInv, NEW c \in Clients, NEW o \in Clients, c # o, Step(o)
    PROVE  ListingOf(c)'
<1>1. /\ phase'[c] = phase[c] /\ call'[c] = call[c] /\ outcome'[c] = outcome[c]
      /\ page'[c] = page[c]
  BY OthersStay, PagesStay DEF ToolsInv
<1> SUFFICES ASSUME IsCall(c, "commit_links")
             PROVE  Listing(Store', call[c], phase[c], outcome[c], page[c], steady'[c])
  BY <1>1 DEF ListingOf, IsCall
<1>2. Listing(Store, call[c], phase[c], outcome[c], page[c], steady[c])
  BY DEF ListingInv, ListingOf
<1>3. CASE Commit(o)
  <2>1. call[c].commit \in Commits
    BY ListingCall
  <2>2. \A l \in Ids \X Commits : links[l] # NoLink => links'[l] = links[l]
    BY <1>3, CommitInstalls
  <2>3. steady'[c] = {i \in steady[c] : InScope(db', i, call[c].scope)}
    BY <1>3 DEF Commit
  <2> QED BY <1>2, <2>1, <2>2, <2>3, ListingOutlives
<1>4. CASE ~Commit(o)
  <2>1. Tables /\ steady'[c] = steady[c]
    BY <1>4, OnlyCommitWrites, PagesStay
  <2>2. Store' = Store
    BY <2>1 DEF Tables, Store
  <2> QED BY <1>2, <2>1, <2>2
<1> QED BY <1>3, <1>4

(* The listing of a client that takes a step. *)
LEMMA OwnListing ==
    ASSUME ToolsInv, ListingInv, NEW c \in Clients, Step(c)
    PROVE  ListingOf(c)'
<1> SUFFICES ASSUME IsCall(c, "commit_links")'
             PROVE  Listing(Store', call'[c], phase'[c], outcome'[c], page'[c], steady'[c])
  BY DEF ListingOf
<1>1. Typed /\ DOMAIN page = Clients /\ DOMAIN steady = Clients
  BY DEF ToolsInv, ListingInv
<1>2. ~Commit(c) => Store' = Store
  BY OnlyCommitWrites DEF Tables, Store
<1>3. CASE Start(c)
  <2> DEFINE t == call'[c]
  <2>1. t.tool = "commit_links"
    BY DEF IsCall
  <2>2. /\ phase'[c] = "called" /\ outcome'[c] = Null /\ page'[c] = FirstRequest
        /\ steady'[c] = LinksOf(Store, t.scope, t.commit) /\ Store' = Store
    BY <1>1, <1>3, <2>1 DEF Start, Typed, FirstRequest, Tables, Store
  <2> HIDE DEF t
  <2>3. Listing(Store, t, "called", Null, FirstRequest, LinksOf(Store, t.scope, t.commit))
    BY ListingStarts
  <2> QED BY <2>2, <2>3 DEF t
<1>4. CASE ~Start(c)
  <2>1. call'[c] = call[c]
    BY <1>4 DEF Step, Works, Look, Begin, Write, Wait, Commit, Search, ListPage, TimeOut, Die
  <2>2. IsCall(c, "commit_links")
    BY <2>1 DEF IsCall
  <2>3. /\ call[c].tool = "commit_links" /\ phase[c] \in {"called", "done"}
        /\ phase[c] = "called" => outcome[c] = Null
        /\ Listing(Store, call[c], phase[c], outcome[c], page[c], steady[c])
    BY <2>2, ListingCall DEF ListingInv, ListingOf
  <2>4. ListPage(c) \/ TimeOut(c) \/ Die(c)
    <3>1. ~Look(c)
      BY <2>3 DEF Look, Deferred, Immediate
    <3>2. ~Begin(c) /\ ~Write(c) /\ ~Wait(c) /\ ~Commit(c) /\ ~Search(c)
      BY <2>3 DEF Begin, Write, Wait, Commit, Search
    <3> QED BY <1>4, <3>1, <3>2 DEF Step, Works
  <2>5. Store' = Store
    BY <1>2, <2>3, <2>4 DEF ListPage, TimeOut, Die, Tables, Store
  <2>6. phase[c] = "called"
    BY <2>3, <2>4 DEF ListPage, TimeOut, Blocked, Die
  <2>7. steady' = steady
    BY <2>4 DEF ListPage, TimeOut, Die
  <2> DEFINE t == call[c]
             pg == page[c]
             st == steady[c]
  <2>8. Listing(Store, t, "called", Null, pg, st)
    BY <2>3, <2>6
  <2> SUFFICES Listing(Store, t, phase'[c], outcome'[c], page'[c], st)
    BY <2>1, <2>5, <2>7
  <2>9. CASE TimeOut(c) \/ Die(c)
    <3>1. /\ phase'[c] = "done" /\ outcome'[c] \in {"busy", "died"} /\ page'[c] = pg
      BY <1>1, <2>9 DEF TimeOut, Die, Ends, Typed
    <3>2. outcome'[c] # "ok" /\ outcome'[c] # "not_found"
      BY <3>1
    <3> HIDE DEF t, pg, st
    <3> QED BY <2>8, <3>1, <3>2, ListingEnds
  <2>10. CASE ListPage(c)
    <3> DEFINE p == LinksPage(Store, t.scope, t.commit, pg.cursor)
               all == LinksOf(Store, t.scope, t.commit)
               new == [cursor |-> p.next, got |-> pg.got \o p.items]
    <3>1. pg.cursor \in Ids \cup {Null}
      BY <2>8 DEF Listing
    <3>2. /\ p.fault \in {"none", "invalid_cursor", "not_found"}
          /\ p.fault = "none" => PageOf(all, pg.cursor, p.items, p.next)
          /\ p.fault = "not_found" => all = {}
      BY <3>1, PageIs
    <3>3. \/ /\ p.fault # "none" /\ phase'[c] = "done" /\ outcome'[c] = p.fault
             /\ page'[c] = pg
          \/ /\ p.fault = "none" /\ page'[c] = new
             /\ \/ p.next = Null /\ phase'[c] = "done" /\ outcome'[c] = "ok"
                \/ p.next # Null /\ phase'[c] = "called" /\ outcome'[c] = Null
      BY <1>1, <2>3, <2>6, <2>10 DEF ListPage, Ends, Typed
    <3> HIDE DEF t, pg, st, p
    <3>4. CASE p.fault # "none" /\ phase'[c] = "done" /\ outcome'[c] = p.fault /\ page'[c] = pg
      <4>1. p.fault # "ok"
        BY <3>2
      <4>2. Listing(Store, t, "done", p.fault, pg, st)
        BY <2>8, <3>2, <4>1, ListingEnds
      <4> QED BY <3>4, <4>2
    <3>5. CASE /\ p.fault = "none" /\ page'[c] = new
               /\ \/ p.next = Null /\ phase'[c] = "done" /\ outcome'[c] = "ok"
                  \/ p.next # Null /\ phase'[c] = "called" /\ outcome'[c] = Null
      <4>1. PageOf(all, pg.cursor, p.items, p.next)
        BY <3>2, <3>5
      <4>2. /\ p.next = Null => Listing(Store, t, "done", "ok", new, st)
            /\ p.next # Null => Listing(Store, t, "called", Null, new, st)
        BY <2>8, <4>1, ListingGoesOn
      <4> HIDE DEF new
      <4> QED BY <3>5, <4>2
    <3> QED BY <3>3, <3>4, <3>5
  <2> QED BY <2>4, <2>9, <2>10
<1> QED BY <1>3, <1>4

-----------------------------------------------------------------------------
(***************************************************************************)
(* The theorem.                                                            *)
(***************************************************************************)
LEMMA ListingInvIsKept ==
    ToolsInv /\ ListingInv /\ [ToolsNext]_vars => ListingInv'
<1> SUFFICES ASSUME ToolsInv, ListingInv, [ToolsNext]_vars PROVE ListingInv'
  OBVIOUS
<1>1. CASE UNCHANGED vars
  BY <1>1 DEF vars, ListingInv, ListingOf, IsCall, Store
<1>2. CASE ToolsNext
  <2>1. PICK o \in Clients : Step(o)
    BY <1>2 DEF ToolsNext, Step
  <2>2. \A c \in Clients : ListingOf(c)'
    BY <2>1, OtherListing, OwnListing
  <2> QED BY <2>1, <2>2, PagesStay DEF ListingInv
<1> QED BY <1>1, <1>2

(* A listing of a commit's links that came to its end holds, in order and  *)
(* once, every link that was there from its start and never left the       *)
(* scope; and what it holds is linked.                                     *)
THEOREM ListingsAreComplete == ToolsSpec => []CommitListingIsComplete
<1>1. ToolsInit => ListingInv
  BY SentinelsAssumption DEF ToolsInit, ListingInv, ListingOf, IsCall
<1>2. ToolsSpec => []ListingInv
  BY <1>1, ListingInvIsKept, ToolsInvariant, PTL DEF ToolsSpec
<1>3. ToolsInv /\ ListingInv => CommitListingIsComplete
  <2> SUFFICES ASSUME ToolsInv, ListingInv, NEW c \in Clients,
                      IsCall(c, "commit_links"), phase[c] = "done"
               PROVE  LET got == page[c].got IN
                      /\ outcome[c] = "ok" => steady[c] \subseteq Range(got)
                      /\ outcome[c] = "not_found" => steady[c] = {}
                      /\ \A i, j \in DOMAIN got : i < j => Precedes(got[i], got[j])
                      /\ \A i \in Range(got) : Linked(Store, i, call[c].commit)
    BY DEF CommitListingIsComplete
  <2>1. Listing(Store, call[c], "done", outcome[c], page[c], steady[c])
    BY DEF ListingInv, ListingOf
  <2> QED BY <2>1 DEF Listing, Ordered, Range
<1> QED BY <1>2, <1>3, ToolsInvariant, PTL
================================================================================
