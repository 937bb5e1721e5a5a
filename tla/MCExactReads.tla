----------------------------- MODULE MCExactReads -----------------------------
(***************************************************************************)
(* Instances of ExactReads for TLC.                                        *)
(***************************************************************************)
EXTENDS MCDecisionStore, ExactReads

OneTitle == {b}

(* Imports no capture could have written: a cycle, a successor that is not *)
(* stored or in another scope, an empty successor, an interval that ends   *)
(* before it starts or in the past, texts a parser refuses.                *)
Nonsense == [iso |-> Null, unix |-> Null]
DateOnly == [iso |-> Null, unix |-> 1]
Damaged(sc, from, until, successor) == Imported(sc, b, Null, from, until, successor)
DamagedImports ==
    {<<[id |-> e1, row |-> Damaged(s1, Null, Whole(1), e2)],
       [id |-> e2, row |-> Damaged(s1, Null, Whole(1), e1)]>>,
     One(e1, Damaged(s1, Null, Null, e3)),
     One(e1, Damaged(s1, DateOnly, Null, Null)),
     One(e2, Damaged(s1, Nonsense, Null, Null)),
     One(e2, Damaged(s2, Whole(1), Whole(0), Null)),
     One(e2, Damaged(s2, Null, Whole(1), Null)),
     One(e3, Damaged(s2, Blank, Null, Blank)),
     One(e3, Damaged(s2, Null, Blank, e2)),
     One(m1, Damaged(s1, Null, Null, e1)),
     One(m1, Damaged(s1, Null, Whole(2), e2))}
===============================================================================
