------------------------------- MODULE MCTools -------------------------------
(***************************************************************************)
(* Instances of Tools for TLC.  Identifiers are numbers, in their order.   *)
(***************************************************************************)
EXTENDS Tools, TLC

CONSTANTS p1, p2, p3,    \* clients
          s1, s2,        \* scopes
          h,             \* a commit
          x, y           \* subjects

Before(i, j) == i < j
a == [kind |-> "decision", title |-> "a"]
b == [kind |-> "decision", title |-> "b"]
TwoDecisions == {a, b}
CapturedB == <<s1, b>> :> 4      \* the digest of a capture
Mined == 3 :> b
MinedCommit == {Mined}
Imported == <<[id |-> 2, row |-> NewRow(s1, b, Null, Null)]>>
OneImport == {Imported}
None == {}
ZeroAndNearOne == {0, 98}
LaterEnd == {Whole(1)}

(* Nothing is stored, one record, or two. *)
Empty == [i \in Ids |-> NoRow]
Holding(rows) == [i \in Ids |-> IF i \in DOMAIN rows THEN rows[i] ELSE NoRow]
First == NewRow(s1, a, Null, Whole(0))
SmallTables == {Empty, Holding(1 :> First), Holding(1 :> First @@ 2 :> NewRow(s1, b, Null, Null))}

Capture1(id, decision, supersedes) ==
    [tool |-> "capture_external", id |-> id, scope |-> s1, decision |-> decision,
     valid_from |-> Null, fact_key |-> Null, supersedes |-> supersedes]
Capture2(supersedes) ==
    [tool |-> "capture", scope |-> s1, decision |-> b, supersedes |-> supersedes]
Retirement ==
    [tool |-> "reconcile", id |-> 1, successor |-> 2, scope |-> s1, until |-> Whole(1)]
Link(id, subject) ==
    [tool |-> "link", id |-> id, scope |-> s1, commit |-> h, subject |-> subject]
LinkGit(id, subject) == [tool |-> "link_git", id |-> id, commit |-> h, subject |-> subject]
Feedback(id, helpful) == [tool |-> "feedback", id |-> id, scope |-> s1, helpful |-> helpful]
Move == [tool |-> "rescope", scope |-> s1, to |-> s2]
Index(tool) == [tool |-> tool, scope |-> s1, mined |-> Mined]
Import(effectiveness) ==
    [tool |-> "import", scope |-> s1, batch |-> Imported, git_refs |-> h :> y,
     effectiveness |-> <<effectiveness>>]
List == [tool |-> "commit_links", scope |-> s1, commit |-> h]
Find == [tool |-> "search", scope |-> s1]

(* Two clients with a call or two each, while a third may move the scope;  *)
(* a listing while links are added; and two imports of one record, rated   *)
(* differently, while it gets feedback: at 0 and 98 the next verdict meets *)
(* a bound.                                                                *)
Writers == {<<Capture1(1, a, Null)>>, <<Capture1(2, a, 1)>>, <<Move>>, <<Import(98)>>,
            <<Index("ask")>>, <<Feedback(1, TRUE)>>, <<Link(1, x)>>,
            <<Capture2(1)>>, <<Retirement>>}
Readers == {<<Link(1, y), List>>, <<Find>>, <<Feedback(2, FALSE)>>, <<Index("index")>>}
ManyPrograms ==
    {p1 :> f @@ p2 :> g @@ p3 :> e :
        f \in Writers, g \in Writers \cup Readers, e \in {<<>>, <<Move>>}}
    \cup {p1 :> <<LinkGit(1, x), Import(Null)>> @@ p2 :> <<List>> @@ p3 :> f :
            f \in {<<Move>>, <<Link(2, x)>>}}
    \cup {p1 :> <<Import(0)>> @@ p2 :> <<Import(98), Feedback(2, TRUE)>>
            @@ p3 :> <<Feedback(2, f)>> : f \in BOOLEAN}
=============================================================================
