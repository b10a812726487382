------------------------------ MODULE NodeTable ------------------------------
(***************************************************************************)
(* What the pfsnode table promises its callers: one vnode per node id at a *)
(* time, handed to every thread that asks for the id, and not taken away   *)
(* while a thread holds it.  NodeCache implements this.                    *)
(***************************************************************************)
CONSTANTS Threads, Ids, VNodes, NULL

VARIABLES
    bound,  \* id: the vnode that currently stands for it, or NULL
    held    \* thread: the <<id, vnode>> it holds an iocount on, or NULL

vars == <<bound, held>>

Holding(t, id, v) == held' = [held EXCEPT ![t] = <<id, v>>]

Init ==
    /\ bound = [id \in Ids |-> NULL]
    /\ held = [t \in Threads |-> NULL]

\* A vnode that stands for no id becomes the vnode of this id.
Create(t, id, v) ==
    /\ held[t] = NULL
    /\ bound[id] = NULL
    /\ \A i \in Ids : bound[i] # v
    /\ bound' = [bound EXCEPT ![id] = v]
    /\ Holding(t, id, v)

Find(t, id) ==
    /\ held[t] = NULL
    /\ bound[id] # NULL
    /\ Holding(t, id, bound[id])
    /\ UNCHANGED bound

Release(t) ==
    /\ held[t] # NULL
    /\ held' = [held EXCEPT ![t] = NULL]
    /\ UNCHANGED bound

\* The vnode of the id is reclaimed; nobody holds it.
Reclaim(id) ==
    /\ bound[id] # NULL
    /\ \A t \in Threads : held[t] # <<id, bound[id]>>
    /\ bound' = [bound EXCEPT ![id] = NULL]
    /\ UNCHANGED held

Next ==
    \/ \E t \in Threads, id \in Ids, v \in VNodes : Create(t, id, v)
    \/ \E t \in Threads, id \in Ids : Find(t, id)
    \/ \E t \in Threads : Release(t)
    \/ \E id \in Ids : Reclaim(id)

Spec == Init /\ [][Next]_vars
=============================================================================
