--------------------------- MODULE MCHistoryReaders ---------------------------
(***************************************************************************)
(* Instances of HistoryReaders for TLC.                                    *)
(***************************************************************************)
EXTENDS HistoryReaders

CONSTANTS e1, e2, e3, e4, s1, s2

a == [kind |-> "decision", title |-> "a"]
None == {}
NoCapture == <<>>
OneTitle == {a}
Closing == {Whole(1)}

Imported(sc, until, successor) ==
    [scope |-> sc, decision |-> a, fact_key |-> Null, valid_from |-> Null,
     declared_valid_until |-> until, valid_until |-> until,
     superseded_by |-> successor]

(* A cycle and a successor that is not stored yet. *)
LinkedImports ==
    {<<[id |-> e1, row |-> Imported(s1, Whole(1), e2)],
       [id |-> e2, row |-> Imported(s1, Whole(1), e1)]>>,
     <<[id |-> e1, row |-> Imported(s1, Whole(1), e3)]>>,
     <<[id |-> e2, row |-> Imported(s1, Null, Null)]>>}

(* Two records of a page may be too large together. *)
Light == [i \in Ids |-> 1]
OneHeavy == [i \in Ids |-> IF i = e3 THEN 2 ELSE 1]
===============================================================================
