------------------------------- MODULE MCFiles -------------------------------
(***************************************************************************)
(* Instances of StoreFiles and DaemonSessions for TLC.                     *)
(***************************************************************************)
EXTENDS DaemonSessions, TLC

CONSTANTS f1, f2, f3,       \* files; nobody has made the last one yet
          left, right,      \* identities
          daemon, client, neighbour, maintenance

Names3(store, copy, aside) == "store" :> store @@ "copy" :> copy @@ "aside" :> aside
Holding(second) == f1 :> Fresh(left) @@ f2 :> second @@ f3 :> Null
Situation(who, names, second) ==
    [cast |-> who, entry |-> names, content |-> Holding(second), moves |-> 0,
     serving |-> Null]

(* A second file lies aside: a copy of the store, another store or a       *)
(* broken one; or the destination of a copy is taken.  A daemon that was   *)
(* started before serves the copy, which was moved aside since; or it      *)
(* serves the store to two clients, who share its lock.                    *)
ManySituations ==
    {Situation({maintenance}, Names3(f1, Null, f2), Fresh(right)),
     Situation({maintenance}, Names3(f1, Null, f2), [Fresh(left) EXCEPT !.whole = FALSE]),
     Situation({maintenance}, Names3(f1, f2, Null), Fresh(left)),
     [Situation({daemon, client}, Names3(f1, Null, f2), Fresh(left)) EXCEPT !.moves = 1],
     [Situation({daemon, client}, Names3(f1, Null, f2), Fresh(left)) EXCEPT !.serving = f2],
     [Situation({daemon, client}, Names3(f1, Null, f2), Fresh(right)) EXCEPT !.moves = 2],
     [Situation({daemon, client, neighbour}, Names3(f1, Null, f2), Fresh(left))
         EXCEPT !.moves = 1, !.serving = f1]}
===============================================================================
