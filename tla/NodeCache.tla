------------------------------ MODULE NodeCache ------------------------------
(***************************************************************************)
(* The table of pfsnodes of the kernel extension: procfsnode_find          *)
(* (kext/procfs_node.c), procfs_vnop_reclaim (kext/procfs_vnops.c) and the *)
(* vnode layer of the kernel they both talk to (external).                 *)
(*                                                                         *)
(* The table, the pfsnodes in it and the two attach flags are only touched *)
(* with pfsnode_hash_mutex held, so one critical section is one action.    *)
(* A thread stops (a value of pc of its own) at every place where the code *)
(* drops the mutex: the allocation, the sleep, vnode_getwithvid, the       *)
(* create callback and the code after the final unlock.                    *)
(***************************************************************************)
EXTENDS Naturals

CONSTANTS
    Threads,   \* kernel threads that call procfsnode_find
    Ids,       \* node ids: mount id, pid, object id and structure base id
    PNodes,    \* addresses OSMalloc can return for a pfsnode_t
    VNodes,    \* the vnodes of the kernel's pool
    NULL,      \* the null pointer
    MaxVid     \* bound: how often one vnode is recycled

ASSUME NullAssumption == NULL \notin (PNodes \union VNodes)
ASSUME PairAssumption == NULL \notin (Ids \X VNodes)
ASSUME BoundAssumption == MaxVid \in Nat

VARIABLES
    heap,      \* the pfsnodes that are allocated
    table,     \* the pfsnodes linked into the hash buckets
    nodeId,    \* pfsnode: node_mnt_id and node_id
    nodeVnode, \* pfsnode: node_vnode
    attaching, \* pfsnode: node_attaching_vnode
    waiting,   \* pfsnode: node_thread_waiting_attach
    vstate,    \* vnode: "free", "live", "terminating", "reclaimed"
    vid,       \* vnode: the identity vnode_vid returns
    fsnode,    \* vnode: the pfsnode VTOPFS returns
    users,     \* vnode: the threads that own an iocount on it
    fsref,     \* vnode: file system references
    pc,        \* thread: where in procfsnode_find it is
    req,       \* thread: the id it looks for
    target,    \* thread: target_pfsnode
    new,       \* thread: new_pfsnode
    tvnode,    \* thread: target_vnode
    tvid,      \* thread: the vid sampled under the mutex
    error      \* thread: error

nodeVars   == <<heap, table, nodeId, nodeVnode, attaching, waiting>>
vnodeVars  == <<vstate, vid, fsnode, users, fsref>>
threadVars == <<pc, req, target, new, tvnode, tvid, error>>
vars       == <<nodeVars, vnodeVars, threadVars>>

Locations == {"idle", "search", "alloc", "sleep", "getvid", "create", "attach",
              "cleanup", "holding"}
Errors == {"none", "ENOMEM", "vnode_create"}

Init ==
    /\ heap = {}
    /\ table = {}
    /\ nodeId = [p \in PNodes |-> NULL]
    /\ nodeVnode = [p \in PNodes |-> NULL]
    /\ attaching = [p \in PNodes |-> FALSE]
    /\ waiting = [p \in PNodes |-> FALSE]
    /\ vstate = [v \in VNodes |-> "free"]
    /\ vid = [v \in VNodes |-> 0]
    /\ fsnode = [v \in VNodes |-> NULL]
    /\ users = [v \in VNodes |-> {}]
    /\ fsref = [v \in VNodes |-> 0]
    /\ pc = [t \in Threads |-> "idle"]
    /\ req = [t \in Threads |-> NULL]
    /\ target = [t \in Threads |-> NULL]
    /\ new = [t \in Threads |-> NULL]
    /\ tvnode = [t \in Threads |-> NULL]
    /\ tvid = [t \in Threads |-> 0]
    /\ error = [t \in Threads |-> "none"]

-----------------------------------------------------------------------------
(* procfsnode_find, up to each place where it drops the mutex.             *)

Goto(t, l) == pc' = [pc EXCEPT ![t] = l]

\* The walk along the hash bucket.
Match(id) == {p \in table : nodeId[p] = id}

Call(t, id) ==
    /\ pc[t] = "idle"
    /\ Goto(t, "search")
    /\ req' = [req EXCEPT ![t] = id]
    /\ UNCHANGED <<nodeVars, vnodeVars, target, new, tvnode, tvid, error>>

\* No match and nothing allocated yet: drop the mutex to allocate.
SearchMiss(t) ==
    /\ pc[t] = "search"
    /\ Match(req[t]) = {}
    /\ new[t] = NULL
    /\ target' = [target EXCEPT ![t] = NULL]
    /\ Goto(t, "alloc")
    /\ UNCHANGED <<nodeVars, vnodeVars, req, new, tvnode, tvid, error>>

\* Mutant: the insertion does not search again after the allocation.
NeedsVnodeNoRecheck(t) ==
    IF new[t] # NULL
    THEN {new[t]}
    ELSE {p \in Match(req[t]) : ~attaching[p] /\ nodeVnode[p] = NULL}

\* Mutant: node_attaching_vnode is not looked at.
NeedsVnodeNoFlag(t) ==
    IF Match(req[t]) = {}
    THEN {new[t]} \ {NULL}
    ELSE {p \in Match(req[t]) : nodeVnode[p] = NULL}

\* The pfsnode to which this thread has to attach a vnode: the one it
\* allocated when there is no match, else a match with neither a vnode nor a
\* thread attaching one.
NeedsVnode(t) ==
    IF Match(req[t]) = {}
    THEN {new[t]} \ {NULL}
    ELSE {p \in Match(req[t]) : ~attaching[p] /\ nodeVnode[p] = NULL}

SearchAttach(t) ==
    /\ pc[t] = "search"
    /\ \E p \in NeedsVnode(t) :
         /\ table' = table \union {p}
         /\ nodeId' = [nodeId EXCEPT ![p] = req[t]]
         /\ nodeVnode' = [nodeVnode EXCEPT ![p] = NULL]
         /\ waiting' = [waiting EXCEPT ![p] = p \in table /\ @]
         /\ attaching' = [attaching EXCEPT ![p] = TRUE]
         /\ target' = [target EXCEPT ![t] = p]
    /\ Goto(t, "create")
    /\ UNCHANGED <<heap, vnodeVars, req, new, tvnode, tvid, error>>

\* Mutant: node_thread_waiting_attach is not set before the sleep.
SearchWaitNoMark(t) ==
    /\ pc[t] = "search"
    /\ \E p \in Match(req[t]) :
         /\ attaching[p]
         /\ target' = [target EXCEPT ![t] = p]
    /\ Goto(t, "sleep")
    /\ UNCHANGED <<nodeVars, vnodeVars, req, new, tvnode, tvid, error>>

\* Another thread is attaching: ask for a wakeup and sleep on the pfsnode.
SearchWait(t) ==
    /\ pc[t] = "search"
    /\ \E p \in Match(req[t]) :
         /\ attaching[p]
         /\ waiting' = [waiting EXCEPT ![p] = TRUE]
         /\ target' = [target EXCEPT ![t] = p]
    /\ Goto(t, "sleep")
    /\ UNCHANGED <<heap, table, nodeId, nodeVnode, attaching, vnodeVars,
                   req, new, tvnode, tvid, error>>

\* The pfsnode has a vnode: sample its vid, then drop the mutex.
SearchHit(t) ==
    /\ pc[t] = "search"
    /\ \E p \in Match(req[t]) :
         /\ ~attaching[p]
         /\ nodeVnode[p] # NULL
         /\ target' = [target EXCEPT ![t] = p]
         /\ tvnode' = [tvnode EXCEPT ![t] = nodeVnode[p]]
         /\ tvid' = [tvid EXCEPT ![t] = vid[nodeVnode[p]]]
    /\ Goto(t, "getvid")
    /\ UNCHANGED <<nodeVars, vnodeVars, req, new, error>>

AllocOk(t) ==
    /\ pc[t] = "alloc"
    /\ \E p \in PNodes \ heap :
         /\ heap' = heap \union {p}
         /\ new' = [new EXCEPT ![t] = p]
    /\ Goto(t, "search")
    /\ UNCHANGED <<table, nodeId, nodeVnode, attaching, waiting, vnodeVars,
                   req, target, tvnode, tvid, error>>

AllocFail(t) ==
    /\ pc[t] = "alloc"
    /\ error' = [error EXCEPT ![t] = "ENOMEM"]
    /\ Goto(t, "cleanup")
    /\ UNCHANGED <<nodeVars, vnodeVars, req, target, new, tvnode, tvid>>

\* Mutant: vnode_get in the place of vnode_getwithvid.
AnyIncarnation(v, i) == vstate[v] = "live"

\* vnode_getwithvid: an iocount, if the vnode is alive and still has the vid.
SameIncarnation(v, i) == vstate[v] = "live" /\ vid[v] = i

GetVidOk(t) ==
    /\ pc[t] = "getvid"
    /\ SameIncarnation(tvnode[t], tvid[t])
    /\ users' = [users EXCEPT ![tvnode[t]] = @ \union {t}]
    /\ Goto(t, "cleanup")
    /\ UNCHANGED <<nodeVars, vstate, vid, fsnode, fsref, req, target, new,
                   tvnode, tvid, error>>

\* The vnode changed identity: start again, forgetting both pfsnodes.
GetVidFail(t) ==
    /\ pc[t] = "getvid"
    /\ ~SameIncarnation(tvnode[t], tvid[t])
    /\ target' = [target EXCEPT ![t] = NULL]
    /\ new' = [new EXCEPT ![t] = NULL]
    /\ tvnode' = [tvnode EXCEPT ![t] = NULL]
    /\ Goto(t, "search")
    /\ UNCHANGED <<nodeVars, vnodeVars, req, tvid, error>>

\* The create callback (procfs_create_vnode, procfs_create_root_vnode): a
\* vnode of the pool, linked to the pfsnode, with an iocount for the caller.
CreateOk(t) ==
    /\ pc[t] = "create"
    /\ \E v \in VNodes :
         /\ vstate[v] = "free"
         /\ vstate' = [vstate EXCEPT ![v] = "live"]
         /\ fsnode' = [fsnode EXCEPT ![v] = target[t]]
         /\ users' = [users EXCEPT ![v] = {t}]
         /\ tvnode' = [tvnode EXCEPT ![t] = v]
    /\ Goto(t, "attach")
    /\ UNCHANGED <<nodeVars, vid, fsref, req, target, new, tvid, error>>

CreateFail(t) ==
    /\ pc[t] = "create"
    /\ tvnode' = [tvnode EXCEPT ![t] = NULL]
    /\ error' = [error EXCEPT ![t] = "vnode_create"]
    /\ Goto(t, "attach")
    /\ UNCHANGED <<nodeVars, vnodeVars, req, target, new, tvid>>

\* wakeup(p), called only when the flag asks for it; the sleepers go round the
\* loop again while the attaching thread leaves it.
Wakeup(t, p) ==
    pc' = [s \in Threads |->
             IF s = t THEN "cleanup"
             ELSE IF pc[s] = "sleep" /\ target[s] = p /\ waiting[p] THEN "search"
             ELSE pc[s]]

\* Mutant: the wakeup is left out.
AttachDoneSilent(t, p) ==
    /\ attaching' = [attaching EXCEPT ![p] = FALSE]
    /\ waiting' = [waiting EXCEPT ![p] = FALSE]
    /\ Goto(t, "cleanup")

AttachDone(t, p) ==
    /\ attaching' = [attaching EXCEPT ![p] = FALSE]
    /\ waiting' = [waiting EXCEPT ![p] = FALSE]
    /\ Wakeup(t, p)

\* Mutant: vnode_addfsref is left out.
AttachOkNoRef(t) ==
    /\ pc[t] = "attach"
    /\ error[t] = "none"
    /\ AttachDone(t, target[t])
    /\ nodeVnode' = [nodeVnode EXCEPT ![target[t]] = tvnode[t]]
    /\ UNCHANGED <<heap, table, nodeId, vnodeVars, req, target, new, tvnode, tvid, error>>

AttachOk(t) ==
    /\ pc[t] = "attach"
    /\ error[t] = "none"
    /\ AttachDone(t, target[t])
    /\ nodeVnode' = [nodeVnode EXCEPT ![target[t]] = tvnode[t]]
    /\ fsref' = [fsref EXCEPT ![tvnode[t]] = @ + 1]
    /\ UNCHANGED <<heap, table, nodeId, vstate, vid, fsnode, users,
                   req, target, new, tvnode, tvid, error>>

\* Mutant: the pfsnode is freed and stays in its bucket.
FreeNodeLinked(p) ==
    /\ heap' = heap \ {p}
    /\ UNCHANGED table

\* procfsnode_free_node.
FreeNode(p) ==
    /\ table' = table \ {p}
    /\ heap' = heap \ {p}

AttachFail(t) ==
    /\ pc[t] = "attach"
    /\ error[t] # "none"
    /\ AttachDone(t, target[t])
    /\ FreeNode(target[t])
    /\ target' = [target EXCEPT ![t] = NULL]
    /\ new' = [new EXCEPT ![t] = NULL]
    /\ UNCHANGED <<nodeId, nodeVnode, vnodeVars, req, tvnode, tvid, error>>

\* After the loop: free the allocation that was not used, and return.
FreeUnused(t) ==
    /\ heap' = heap \ ({new[t]} \ {target[t]})
    /\ new' = [new EXCEPT ![t] = NULL]
    /\ UNCHANGED <<table, nodeId, nodeVnode, attaching, waiting>>

\* The locals of the call and of its caller are gone.
ForgetLocals(t) ==
    /\ req' = [req EXCEPT ![t] = NULL]
    /\ target' = [target EXCEPT ![t] = NULL]
    /\ tvnode' = [tvnode EXCEPT ![t] = NULL]
    /\ tvid' = [tvid EXCEPT ![t] = 0]

ReturnVnode(t) ==
    /\ pc[t] = "cleanup"
    /\ error[t] = "none"
    /\ FreeUnused(t)
    /\ Goto(t, "holding")
    /\ UNCHANGED <<vnodeVars, req, target, tvnode, tvid, error>>

ReturnError(t) ==
    /\ pc[t] = "cleanup"
    /\ error[t] # "none"
    /\ FreeUnused(t)
    /\ ForgetLocals(t)
    /\ error' = [error EXCEPT ![t] = "none"]
    /\ Goto(t, "idle")
    /\ UNCHANGED vnodeVars

\* The caller is done with the vnode: vnode_put.
Put(t) ==
    /\ pc[t] = "holding"
    /\ users' = [users EXCEPT ![tvnode[t]] = @ \ {t}]
    /\ ForgetLocals(t)
    /\ Goto(t, "idle")
    /\ UNCHANGED <<nodeVars, vstate, vid, fsnode, fsref, new, error>>

-----------------------------------------------------------------------------
(* Reclaim.                                                                *)

\* The kernel decides to recycle a vnode nobody has an iocount on (memory
\* pressure, vnode_recycle, or vflush in procfs_unmount).
Terminate(v) ==
    /\ vstate[v] = "live"
    /\ users[v] = {}
    /\ vid[v] < MaxVid
    /\ vstate' = [vstate EXCEPT ![v] = "terminating"]
    /\ UNCHANGED <<nodeVars, vid, fsnode, users, fsref, threadVars>>

\* procfs_vnop_reclaim, the part under the mutex.
ReclaimNode(v) ==
    /\ vstate[v] = "terminating"
    /\ FreeNode(fsnode[v])
    /\ vstate' = [vstate EXCEPT ![v] = "reclaimed"]
    /\ UNCHANGED <<nodeId, nodeVnode, attaching, waiting, vid, fsnode, users,
                   fsref, threadVars>>

\* Mutant: vnode_removefsref is left out.
ReclaimDoneKeepRef(v) ==
    /\ vstate[v] = "reclaimed"
    /\ fsnode' = [fsnode EXCEPT ![v] = NULL]
    /\ vstate' = [vstate EXCEPT ![v] = "free"]
    /\ vid' = [vid EXCEPT ![v] = @ + 1]
    /\ UNCHANGED <<nodeVars, users, fsref, threadVars>>

\* procfs_vnop_reclaim, the rest; the vnode goes back to the pool with a new
\* identity.
ReclaimDone(v) ==
    /\ vstate[v] = "reclaimed"
    /\ fsref' = [fsref EXCEPT ![v] = @ - 1]
    /\ fsnode' = [fsnode EXCEPT ![v] = NULL]
    /\ vstate' = [vstate EXCEPT ![v] = "free"]
    /\ vid' = [vid EXCEPT ![v] = @ + 1]
    /\ UNCHANGED <<nodeVars, users, threadVars>>

-----------------------------------------------------------------------------
FindStep(t) ==
    \/ SearchMiss(t) \/ SearchAttach(t) \/ SearchWait(t) \/ SearchHit(t)
    \/ AllocOk(t) \/ AllocFail(t)
    \/ GetVidOk(t) \/ GetVidFail(t)
    \/ CreateOk(t) \/ CreateFail(t)
    \/ AttachOk(t) \/ AttachFail(t)
    \/ ReturnVnode(t) \/ ReturnError(t)

ReclaimStep(v) == ReclaimNode(v) \/ ReclaimDone(v)

Next ==
    \/ \E t \in Threads : (\E id \in Ids : Call(t, id)) \/ FindStep(t) \/ Put(t)
    \/ \E v \in VNodes : Terminate(v) \/ ReclaimStep(v)

Spec == Init /\ [][Next]_vars

\* A running thread keeps running and a reclaim that has begun goes on; the
\* kernel need not recycle a vnode, nor a caller call again or let go.
Fairness ==
    /\ \A t \in Threads : WF_vars(FindStep(t))
    /\ \A v \in VNodes : WF_vars(ReclaimStep(v))

FairSpec == Spec /\ Fairness

-----------------------------------------------------------------------------
(* Properties.                                                             *)

\* Every variable has its type.
TypeOK ==
    /\ heap \subseteq PNodes
    /\ table \subseteq PNodes
    /\ nodeId \in [PNodes -> Ids \union {NULL}]
    /\ nodeVnode \in [PNodes -> VNodes \union {NULL}]
    /\ attaching \in [PNodes -> BOOLEAN]
    /\ waiting \in [PNodes -> BOOLEAN]
    /\ vstate \in [VNodes -> {"free", "live", "terminating", "reclaimed"}]
    /\ vid \in [VNodes -> Nat]
    /\ fsnode \in [VNodes -> PNodes \union {NULL}]
    /\ users \in [VNodes -> SUBSET Threads]
    /\ fsref \in [VNodes -> Nat]
    /\ pc \in [Threads -> Locations]
    /\ req \in [Threads -> Ids \union {NULL}]
    /\ target \in [Threads -> PNodes \union {NULL}]
    /\ new \in [Threads -> PNodes \union {NULL}]
    /\ tvnode \in [Threads -> VNodes \union {NULL}]
    /\ tvid \in [Threads -> Nat]
    /\ error \in [Threads -> Errors]

\* The table never holds two pfsnodes for one id, although the mutex is
\* dropped between the search that fails and the insertion
\* (procfs_node.c:135-190).
UniqueNode ==
    \A p, q \in table : nodeId[p] = nodeId[q] => p = q

\* A pfsnode that is reachable is allocated: from the table, from a vnode the
\* reclaim has not passed yet, from the thread that is attaching a vnode to it
\* across the unlocked create callback (procfs_node.c:268-281).
NoUseAfterFree ==
    /\ table \subseteq heap
    /\ \A v \in VNodes :
         vstate[v] \in {"live", "terminating"} => fsnode[v] \in table
    /\ \A t \in Threads :
         pc[t] \in {"create", "attach"} => target[t] \in table

\* The vnode a caller gets is the live one of the id it asked for, its
\* pfsnode is still in the table and points back to it, and stays so until
\* vnode_put: a reclaim or a recycled vnode never shows through
\* (procfs_node.c:225-258, 317, and the doc of procfsnode_find, lines 70-75).
HolderSeesItsNode ==
    \A t \in Threads :
      pc[t] = "holding" =>
        LET v == tvnode[t] IN
        /\ v \in VNodes
        /\ vstate[v] = "live"
        /\ t \in users[v]
        /\ fsnode[v] = target[t]
        /\ target[t] \in table
        /\ nodeId[target[t]] = req[t]
        /\ nodeVnode[target[t]] = v

\* A pfsnode in the table without a vnode is being attached by exactly one
\* thread, so the attach at procfs_node.c:268 is only ever reached for the
\* pfsnode the thread itself inserted.
OneAttacher ==
    \A p \in table :
      nodeVnode[p] = NULL =>
        /\ attaching[p]
        /\ \E t \in Threads :
             /\ pc[t] \in {"create", "attach"}
             /\ target[t] = p
             /\ new[t] = p
             /\ \A s \in Threads \ {t} :
                  pc[s] \in {"create", "attach"} => target[s] # p

\* A thread only sleeps on a pfsnode that is in the table, being attached and
\* marked, so the wakeup at procfs_node.c:287-290 cannot be missed.
NoLostWakeup ==
    \A t \in Threads :
      pc[t] = "sleep" =>
        /\ target[t] \in table
        /\ attaching[target[t]]
        /\ waiting[target[t]]

\* The file system reference of an attached vnode is taken once, and dropped
\* once by the reclaim (procfs_node.c:318, procfs_vnops.c:1408).
FsrefBalanced ==
    \A v \in VNodes :
      fsref[v] = IF vstate[v] = "reclaimed" \/ \E p \in table : nodeVnode[p] = v
                 THEN 1 ELSE 0

\* Every call of procfsnode_find returns, whatever the other threads and the
\* reclaims do in between (within the bound on recycling), unless vnode_create
\* fails over and over: a thread can sleep through each failed attach of the
\* others and be overtaken by the next (procfs_node.c:206-222, 295-310).
FindReturns ==
    \/ []<><<\E s \in Threads : CreateFail(s)>>_vars
    \/ \A t \in Threads :
         pc[t] = "search" ~> pc[t] \in {"holding", "idle"}

\* An allocated pfsnode is in the table or still owned by the call that
\* allocated it; "Free the node we allocated, if we didn't use it"
\* (procfs_node.c:330-332).
NoLeak ==
    \A p \in heap : p \in table \/ \E t \in Threads : new[t] = p
-----------------------------------------------------------------------------
(* Refinement.  An id is bound to the live vnode of its pfsnode from the    *)
(* attach (procfs_node.c:317) until the kernel begins to terminate it; a    *)
(* thread holds from the iocount it gets until vnode_put.                   *)
boundVnode ==
    [id \in Ids |->
       IF \E p \in Match(id) : nodeVnode[p] # NULL /\ vstate[nodeVnode[p]] = "live"
       THEN nodeVnode[CHOOSE p \in Match(id) : TRUE]
       ELSE NULL]

heldVnode ==
    [t \in Threads |->
       IF pc[t] \in {"cleanup", "holding"} /\ error[t] = "none"
       THEN <<req[t], tvnode[t]>>
       ELSE NULL]

Promise == INSTANCE NodeTable WITH bound <- boundVnode, held <- heldVnode

\* procfsnode_find and procfs_vnop_reclaim together behave as a table with one
\* vnode per id: two callers that hold the same id hold the same vnode, and a
\* vnode is never reassigned under a caller (procfs_node.c:86-349).
ImplementsNodeTable == Promise!Spec
=============================================================================
