------------------------------ MODULE Ownership ------------------------------
(***************************************************************************)
(* What the listener tables of the simulator promise, without saying how   *)
(* they are laid out: every resource has at most one owner, a request is   *)
(* granted for all the resources it names or for none of them, and nothing *)
(* is ever released or taken over.  Listeners implements this.             *)
(***************************************************************************)
CONSTANTS Owners, Resources, NoOwner

VARIABLE owner

Init == owner = [r \in Resources |-> NoOwner]

(***************************************************************************)
(* o becomes the owner of every resource of wanted, all of them free.      *)
(***************************************************************************)
Acquire(o, wanted) ==
    /\ \A r \in wanted : owner[r] = NoOwner
    /\ owner' = [r \in Resources |-> IF r \in wanted THEN o ELSE owner[r]]

Next == \E o \in Owners, wanted \in SUBSET Resources : Acquire(o, wanted)

Spec == Init /\ [][Next]_owner
=============================================================================
