--------------------------- MODULE MCDecisionStore ---------------------------
(***************************************************************************)
(* Instances of DecisionStore for TLC.                                     *)
(***************************************************************************)
EXTENDS DecisionStore, TLC

CONSTANTS e1, e2, e3, c1, c2, m1,    \* external ids, capture digests, a commit
          s1, s2,                        \* scopes
          k1                             \* a fact key

a == [kind |-> "decision", title |-> "a"]
b == [kind |-> "decision", title |-> "b"]
note == [kind |-> "note", title |-> "a"]

(* A batch of one row, and the lifecycle columns a row is imported with. *)
Imported(sc, decision, key, from, until, successor) ==
    [scope |-> sc, decision |-> decision, fact_key |-> key, valid_from |-> from,
     declared_valid_until |-> until, valid_until |-> until,
     superseded_by |-> successor]
One(id, row) == <<[id |-> id, row |-> row]>>

None == {}
NoCapture == <<>>
OneCapture == <<s1, a>> :> c1
ExternalSymmetry == Permutations(ExternalIds)

(* Captures: two titles, one key, a future start, and a start so late that *)
(* its retirement is outside the calendar.                                 *)
TwoDecisions == {a, b}
CaptureStarts == {Whole(1), Whole(2)}
RetryStarts == {Whole(1)}

(* Scopes: commits are mined into one scope or both; a scope is moved.     *)
TwoCaptures == <<s1, a>> :> c1 @@ <<s2, a>> :> c2
MinedCommit == {m1 :> note}
OneStart == {Whole(0)}
OneRetirement == {Whole(1)}
OneDecision == {a}
PlainImports == {One(e2, Imported(s1, b, Null, Null, Null, Null))}
ScopeDecisions == {a, b, note}
=============================================================================
