----------------------------- MODULE StoreBinding -----------------------------
(***************************************************************************)
(* What opening a store promises, whatever the order of processes and      *)
(* crashes: a store is bound to one provider identity, once and for ever,  *)
(* and a caller that gets a store gets the one it asked for.  A caller     *)
(* that names no identity gets a store only after another has bound it.    *)
(***************************************************************************)
CONSTANTS Openers, Identities, Null,
          Asked            \* opener -> the identity it names, or Null

VARIABLES bound,           \* the identity the store is bound to, or Null
          held             \* opener -> the identity of the store it got, or Null

Init == /\ bound \in Identities \cup {Null}
        /\ held = [o \in Openers |-> Null]

(* The first opener that names an identity binds the store to it. *)
Bind(o) == /\ bound = Null
           /\ Asked[o] \in Identities
           /\ bound' = Asked[o]
           /\ held' = [held EXCEPT ![o] = bound']

(* Every other one gets the store as it is bound, or nothing. *)
Open(o) == /\ bound \in Identities
           /\ Asked[o] \in {Null, bound}
           /\ held' = [held EXCEPT ![o] = bound]
           /\ UNCHANGED bound

Close(o) == /\ held' = [held EXCEPT ![o] = Null]
            /\ UNCHANGED bound

Next == \E o \in Openers : Bind(o) \/ Open(o) \/ Close(o)

Spec == Init /\ [][Next]_<<bound, held>>
===============================================================================
