----------------------------- MODULE MCStoreOpen -----------------------------
(***************************************************************************)
(* Instances of StoreOpen for TLC.                                         *)
(***************************************************************************)
EXTENDS StoreOpen, TLC

CONSTANTS p, q, r,        \* processes
          left, right,    \* provider identities
          r1, r2          \* rows of a legacy store

TwoProviders == p :> left @@ q :> right
ThreeCallers == p :> left @@ q :> right @@ r :> Null

Legacy(rows) ==
    [EmptyStore EXCEPT !.objects = LegacyShape, !.rows = rows]
Row(ends, sealable) ==
    [valid_until |-> ends, declared |-> FALSE, seal |-> FALSE, sealable |-> sealable]
SealedRow == [valid_until |-> TRUE, declared |-> FALSE, seal |-> TRUE, sealable |-> TRUE]

Bound(rows) == [version |-> 1, objects |-> CurrentShape, identity |-> left,
                ledger |-> "whole", wal |-> FALSE, rows |-> rows]
NoRows == [i \in Records |-> NoRecord]

(* A new path, a legacy store, one with a record no seal covers, bound     *)
(* stores (one in WAL mode), and stores the build refuses.                 *)
ManyStores ==
    {Absent,
     Legacy(r1 :> Row(TRUE, TRUE) @@ r2 :> Row(FALSE, TRUE)),
     Legacy(r1 :> Row(FALSE, TRUE) @@ r2 :> Row(TRUE, FALSE)),
     Bound(r1 :> SealedRow @@ r2 :> NoRecord),
     [Bound(NoRows) EXCEPT !.wal = TRUE],
     [Bound(NoRows) EXCEPT !.version = 2],
     [Bound(NoRows) EXCEPT !.ledger = "short"],
     [Bound(NoRows) EXCEPT !.objects = @ \cup {"other"}],
     [EmptyStore EXCEPT !.objects = {"other"}]}
NewPath == {Absent}
===============================================================================
