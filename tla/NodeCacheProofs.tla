--------------------------- MODULE NodeCacheProofs ---------------------------
(***************************************************************************)
(* Proofs about NodeCache for any number of threads, ids, pfsnodes and     *)
(* vnodes.  IInv is the inductive invariant; the safety properties of      *)
(* NodeCache, and that it implements NodeTable, follow from it.            *)
(***************************************************************************)
EXTENDS NodeCache, TLAPS

Alive(v) == vstate[v] \in {"live", "terminating"}

\* A thread that owns an iocount: it has its vnode, attached or returned.
Owns(t) == \/ pc[t] \in {"attach", "cleanup"} /\ error[t] = "none"
           \/ pc[t] = "holding"

Attaches(t) == pc[t] \in {"create", "attach"}

\* The table: allocated pfsnodes, one per id.
TableInv ==
    /\ table \subseteq heap
    /\ \A p \in table : nodeId[p] \in Ids
    /\ UniqueNode

\* A pfsnode with a vnode and that vnode point at each other; a vnode whose
\* pfsnode has no vnode yet is in the hands of the attaching thread.
LinkInv ==
    /\ \A v \in VNodes : Alive(v) => fsnode[v] \in table
    /\ \A p \in table : nodeVnode[p] # NULL =>
         /\ Alive(nodeVnode[p])
         /\ fsnode[nodeVnode[p]] = p
         /\ ~attaching[p]
    /\ \A v \in VNodes : Alive(v) =>
         \/ nodeVnode[fsnode[v]] = v
         \/ \E t \in Threads : /\ pc[t] = "attach"
                               /\ error[t] = "none"
                               /\ tvnode[t] = v
                               /\ target[t] = fsnode[v]

\* The attach phase belongs to one thread.
AttachInv ==
    /\ \A t \in Threads : Attaches(t) =>
         /\ target[t] = new[t]
         /\ target[t] \in table
         /\ nodeId[target[t]] = req[t]
         /\ nodeVnode[target[t]] = NULL
         /\ attaching[target[t]]
    /\ \A p \in table : nodeVnode[p] = NULL =>
         \E t \in Threads : Attaches(t) /\ target[t] = p

\* The fruitless allocations: each belongs to one call and is not in the table.
NewInv ==
    /\ \A t \in Threads : new[t] # NULL =>
         /\ new[t] \in heap
         /\ new[t] \in table => Attaches(t) \/ (pc[t] = "cleanup" /\ new[t] = target[t])
         /\ pc[t] \in {"search", "sleep", "getvid", "create", "attach", "cleanup"}
    /\ \A s, t \in Threads : new[s] # NULL /\ new[s] = new[t] => s = t

\* The vnode layer.
OwnerInv ==
    /\ \A v \in VNodes : vstate[v] # "live" => users[v] = {}
    /\ \A t \in Threads : Owns(t) =>
         /\ tvnode[t] \in VNodes
         /\ vstate[tvnode[t]] = "live"
         /\ t \in users[tvnode[t]]
         /\ fsnode[tvnode[t]] = target[t]
         /\ nodeId[target[t]] = req[t]
         /\ pc[t] # "attach" => nodeVnode[target[t]] = tvnode[t]

\* The sampled vid: as long as the vnode has it, the vnode is the one sampled.
VidInv ==
    \A t \in Threads : pc[t] = "getvid" =>
      /\ tvnode[t] \in VNodes
      /\ tvid[t] <= vid[tvnode[t]]
      /\ tvid[t] = vid[tvnode[t]] => vstate[tvnode[t]] # "free"
      /\ tvid[t] = vid[tvnode[t]] /\ Alive(tvnode[t]) =>
           /\ fsnode[tvnode[t]] = target[t]
           /\ nodeId[target[t]] = req[t]
           /\ nodeVnode[target[t]] = tvnode[t]

\* What the locals of a call hold where.
LocalInv ==
    \A t \in Threads :
      /\ pc[t] # "idle" => req[t] \in Ids
      /\ pc[t] \notin {"attach", "cleanup"} => error[t] = "none"
      /\ pc[t] = "cleanup" /\ error[t] # "none" => new[t] = NULL
      /\ pc[t] = "alloc" => new[t] = NULL

IInv ==
    /\ TypeOK
    /\ TableInv
    /\ LinkInv
    /\ AttachInv
    /\ NewInv
    /\ OwnerInv
    /\ VidInv
    /\ LocalInv
    /\ NoLostWakeup
    /\ FsrefBalanced

-----------------------------------------------------------------------------
(* Two steps that need an argument of their own.                           *)

\* The vnode the create callback makes was free, so it changes no link that
\* exists, and it is in the hands of the thread that asked for it.
LEMMA CreateOkLink == ASSUME IInv, NEW t \in Threads, CreateOk(t) PROVE LinkInv'
<1> USE DEF IInv, Alive
<1>1. PICK w \in VNodes : /\ vstate[w] = "free"
                          /\ vstate' = [vstate EXCEPT ![w] = "live"]
                          /\ fsnode' = [fsnode EXCEPT ![w] = target[t]]
                          /\ tvnode' = [tvnode EXCEPT ![t] = w]
  BY Zenon DEF CreateOk
<1>2. /\ pc[t] = "create" /\ pc' = [pc EXCEPT ![t] = "attach"] 
      /\ UNCHANGED <<nodeVars, error, target>>
  BY Zenon DEF CreateOk, Goto
<1>3. \A v \in VNodes : v # w => Alive(v)' = Alive(v) /\ fsnode'[v] = fsnode[v]
  BY Zenon, <1>1 DEF TypeOK
<1>4. /\ Alive(w)' /\ fsnode'[w] = target[t] /\ target[t] \in table
      /\ pc'[t] = "attach" /\ error'[t] = "none" /\ tvnode'[t] = w /\ target'[t] = target[t]
  BY <1>1, <1>2 DEF TypeOK, AttachInv, Attaches, LocalInv
<1>5. (\A v \in VNodes : Alive(v) => fsnode[v] \in table)'
  BY <1>2, <1>3, <1>4 DEF LinkInv, nodeVars
<1>6. (\A p \in table : nodeVnode[p] # NULL =>
         Alive(nodeVnode[p]) /\ fsnode[nodeVnode[p]] = p /\ ~attaching[p])'
  BY <1>1, <1>2, <1>3 DEF LinkInv, nodeVars, TypeOK
<1>7. ASSUME NEW v \in VNodes, Alive(v)'
      PROVE  \/ (nodeVnode[fsnode[v]] = v)'
             \/ \E s \in Threads : (pc[s] = "attach" /\ error[s] = "none" /\ tvnode[s] = v /\ target[s] = fsnode[v])'
  <2>1. CASE v = w
    BY Zenon, <2>1, <1>4
  <2>2. CASE v # w
    BY <2>2, <1>7, <1>1, <1>2, <1>3 DEF LinkInv, nodeVars, TypeOK
  <2> QED BY <2>1, <2>2
<1> QED BY <1>5, <1>6, <1>7 DEF LinkInv

\* The pfsnode that the failed attach removes has no vnode, and nobody else
\* attaches to it, so no live vnode points at it.
LEMMA AttachFailLink == ASSUME IInv, NEW t \in Threads, AttachFail(t) PROVE LinkInv'
<1> DEFINE q == target[t]
<1> USE DEF IInv, Alive
<1>1. /\ pc[t] = "attach" /\ error[t] # "none" 
      /\ table' = table \ {q}
      /\ UNCHANGED <<nodeVnode, vnodeVars, error, tvnode>>
      /\ attaching' = [attaching EXCEPT ![q] = FALSE]
      /\ target' = [target EXCEPT ![t] = NULL]
      /\ Wakeup(t, q)
  BY Zenon DEF AttachFail, AttachDone, FreeNode
<1>2. nodeVnode[q] = NULL /\ q \in table
  BY Zenon, <1>1 DEF AttachInv, Attaches
<1>3. ASSUME NEW s \in Threads, Attaches(s), target[s] = q PROVE s = t
  BY <1>1, <1>2, <1>3, NullAssumption DEF AttachInv, Attaches, NewInv, TypeOK
<1>4. \A v \in VNodes : Alive(v) => fsnode[v] # q
  BY <1>1, <1>2, <1>3, NullAssumption DEF LinkInv, Attaches
<1>5. (\A v \in VNodes : Alive(v) => fsnode[v] \in table)'
  BY Zenon, <1>1, <1>4 DEF LinkInv, vnodeVars
<1>6. (\A p \in table : nodeVnode[p] # NULL =>
         Alive(nodeVnode[p]) /\ fsnode[nodeVnode[p]] = p /\ ~attaching[p])'
  BY <1>1 DEF LinkInv, vnodeVars, TypeOK
<1>7. ASSUME NEW v \in VNodes, Alive(v)'
      PROVE  \/ (nodeVnode[fsnode[v]] = v)'
             \/ \E s \in Threads : (pc[s] = "attach" /\ error[s] = "none" /\ tvnode[s] = v /\ target[s] = fsnode[v])'
  BY <1>7, <1>1, <1>4 DEF LinkInv, vnodeVars, TypeOK, Wakeup
<1> QED BY <1>5, <1>6, <1>7 DEF LinkInv

-----------------------------------------------------------------------------
(* Every step preserves IInv: one lemma per action.                        *)

\* IInv is preserved when procfsnode_find is entered (Call).
LEMMA CallInv ==
  ASSUME IInv, NEW t \in Threads, NEW id \in Ids, Call(t, id)
  PROVE  IInv'
<1> USE NullAssumption DEF IInv, TypeOK, nodeVars, vnodeVars, threadVars, Call,
      Goto
<1>1. TypeOK'
  BY Zenon DEF Locations, Errors
<1>2. TableInv'
  BY Zenon DEF TableInv, UniqueNode
<1>3. LinkInv'
  BY DEF LinkInv, Alive
<1>4. AttachInv'
  BY DEF AttachInv, Attaches
<1>5. NewInv'
  BY Zenon DEF Attaches, NewInv
<1>6. OwnerInv'
  BY DEF OwnerInv, Owns
<1>7. VidInv'
  BY ZenonT(30) DEF Alive, VidInv
<1>8. LocalInv'
  BY Zenon DEF LocalInv
<1>9. NoLostWakeup'
  BY Zenon DEF NoLostWakeup
<1>10. FsrefBalanced'
  BY Zenon DEF FsrefBalanced
<1> QED
  BY Zenon, <1>1, <1>2, <1>3, <1>4, <1>5, <1>6, <1>7, <1>8, <1>9, <1>10

\* IInv is preserved when the search of the bucket fails and nothing is
\* allocated yet (SearchMiss).
LEMMA SearchMissInv ==
  ASSUME IInv, NEW t \in Threads, SearchMiss(t)
  PROVE  IInv'
<1> USE NullAssumption DEF IInv, TypeOK, nodeVars, vnodeVars, threadVars,
      SearchMiss, Goto
<1>1. TypeOK'
  BY Zenon DEF Locations, Errors
<1>2. TableInv'
  BY Zenon DEF TableInv, UniqueNode
<1>3. LinkInv'
  BY Zenon DEF LinkInv, Alive
<1>4. AttachInv'
  BY DEF AttachInv, Attaches
<1>5. NewInv'
  BY Zenon DEF Attaches, NewInv
<1>6. OwnerInv'
  BY DEF OwnerInv, Owns
<1>7. VidInv'
  BY DEF Alive, VidInv
<1>8. LocalInv'
  BY Zenon DEF LocalInv
<1>9. NoLostWakeup'
  BY Zenon DEF NoLostWakeup
<1>10. FsrefBalanced'
  BY Zenon DEF FsrefBalanced
<1> QED
  BY Zenon, <1>1, <1>2, <1>3, <1>4, <1>5, <1>6, <1>7, <1>8, <1>9, <1>10

\* IInv is preserved when the thread inserts its pfsnode and becomes the
\* attaching thread (SearchAttach).
LEMMA SearchAttachInv ==
  ASSUME IInv, NEW t \in Threads, SearchAttach(t)
  PROVE  IInv'
<1> USE NullAssumption DEF IInv, TypeOK, nodeVars, vnodeVars, threadVars,
      SearchAttach, Goto, NeedsVnode, Match
<1>1. TypeOK'
  BY DEF Locations, Errors
<1>2. TableInv'
  BY DEF TableInv, UniqueNode, LocalInv, NewInv, Attaches
<1>3. LinkInv'
  BY DEF LinkInv, Alive, NewInv, Attaches
<1>4. AttachInv'
  BY DEF AttachInv, Attaches, NewInv
<1>5. NewInv'
  BY DEF Attaches, NewInv
<1>6. OwnerInv'
  BY DEF OwnerInv, Owns, LinkInv, Alive, NewInv, Attaches
<1>7. VidInv'
  BY DEF Alive, VidInv, LinkInv, NewInv, Attaches
<1>8. LocalInv'
  BY Zenon DEF LocalInv
<1>9. NoLostWakeup'
  BY DEF NoLostWakeup
<1>10. FsrefBalanced'
  BY DEF FsrefBalanced, LocalInv, NewInv, Attaches
<1> QED
  BY Zenon, <1>1, <1>2, <1>3, <1>4, <1>5, <1>6, <1>7, <1>8, <1>9, <1>10

\* IInv is preserved when the thread marks the pfsnode and goes to sleep on
\* it (SearchWait).
LEMMA SearchWaitInv ==
  ASSUME IInv, NEW t \in Threads, SearchWait(t)
  PROVE  IInv'
<1> USE NullAssumption DEF IInv, TypeOK, nodeVars, vnodeVars, threadVars,
      SearchWait, Goto, Match
<1>1. TypeOK'
  BY DEF Locations, Errors
<1>2. TableInv'
  BY Zenon DEF TableInv, UniqueNode
<1>3. LinkInv'
  BY DEF LinkInv, Alive
<1>4. AttachInv'
  BY DEF AttachInv, Attaches
<1>5. NewInv'
  BY DEF Attaches, NewInv
<1>6. OwnerInv'
  BY DEF OwnerInv, Owns
<1>7. VidInv'
  BY DEF Alive, VidInv
<1>8. LocalInv'
  BY Zenon DEF LocalInv
<1>9. NoLostWakeup'
  BY DEF NoLostWakeup
<1>10. FsrefBalanced'
  BY Zenon DEF FsrefBalanced
<1> QED
  BY Zenon, <1>1, <1>2, <1>3, <1>4, <1>5, <1>6, <1>7, <1>8, <1>9, <1>10

\* IInv is preserved when the vid is sampled under the mutex (SearchHit).
LEMMA SearchHitInv ==
  ASSUME IInv, NEW t \in Threads, SearchHit(t)
  PROVE  IInv'
<1> USE NullAssumption DEF IInv, TypeOK, nodeVars, vnodeVars, threadVars,
      SearchHit, Goto, Match
<1>1. TypeOK'
  BY DEF Locations, Errors
<1>2. TableInv'
  BY Zenon DEF TableInv, UniqueNode
<1>3. LinkInv'
  BY DEF LinkInv, Alive
<1>4. AttachInv'
  BY DEF AttachInv, Attaches
<1>5. NewInv'
  BY Zenon DEF Attaches, NewInv
<1>6. OwnerInv'
  BY DEF OwnerInv, Owns
<1>7. VidInv'
  BY DEF Alive, VidInv, LinkInv
<1>8. LocalInv'
  BY Zenon DEF LocalInv
<1>9. NoLostWakeup'
  BY Zenon DEF NoLostWakeup
<1>10. FsrefBalanced'
  BY Zenon DEF FsrefBalanced
<1> QED
  BY Zenon, <1>1, <1>2, <1>3, <1>4, <1>5, <1>6, <1>7, <1>8, <1>9, <1>10

\* IInv is preserved when OSMalloc succeeds (AllocOk).
LEMMA AllocOkInv ==
  ASSUME IInv, NEW t \in Threads, AllocOk(t)
  PROVE  IInv'
<1> USE NullAssumption DEF IInv, TypeOK, nodeVars, vnodeVars, threadVars,
      AllocOk, Goto
<1>1. TypeOK'
  BY DEF Locations, Errors
<1>2. TableInv'
  BY Zenon DEF TableInv, UniqueNode
<1>3. LinkInv'
  BY DEF LinkInv, Alive
<1>4. AttachInv'
  BY DEF AttachInv, Attaches
<1>5. NewInv'
  BY DEF Attaches, NewInv, TableInv, UniqueNode
<1>6. OwnerInv'
  BY DEF OwnerInv, Owns
<1>7. VidInv'
  BY Zenon DEF Alive, VidInv
<1>8. LocalInv'
  BY Zenon DEF LocalInv
<1>9. NoLostWakeup'
  BY Zenon DEF NoLostWakeup
<1>10. FsrefBalanced'
  BY Zenon DEF FsrefBalanced
<1> QED
  BY Zenon, <1>1, <1>2, <1>3, <1>4, <1>5, <1>6, <1>7, <1>8, <1>9, <1>10

\* IInv is preserved when OSMalloc fails (AllocFail).
LEMMA AllocFailInv ==
  ASSUME IInv, NEW t \in Threads, AllocFail(t)
  PROVE  IInv'
<1> USE NullAssumption DEF IInv, TypeOK, nodeVars, vnodeVars, threadVars,
      AllocFail, Goto
<1>1. TypeOK'
  BY Zenon DEF Locations, Errors
<1>2. TableInv'
  BY Zenon DEF TableInv, UniqueNode
<1>3. LinkInv'
  BY DEF LinkInv, Alive
<1>4. AttachInv'
  BY DEF AttachInv, Attaches
<1>5. NewInv'
  BY Zenon DEF Attaches, NewInv
<1>6. OwnerInv'
  BY DEF OwnerInv, Owns
<1>7. VidInv'
  BY Zenon DEF Alive, VidInv
<1>8. LocalInv'
  BY Zenon DEF LocalInv
<1>9. NoLostWakeup'
  BY Zenon DEF NoLostWakeup
<1>10. FsrefBalanced'
  BY Zenon DEF FsrefBalanced
<1> QED
  BY Zenon, <1>1, <1>2, <1>3, <1>4, <1>5, <1>6, <1>7, <1>8, <1>9, <1>10

\* IInv is preserved when vnode_getwithvid gives an iocount on the vnode
\* that was sampled (GetVidOk).
LEMMA GetVidOkInv ==
  ASSUME IInv, NEW t \in Threads, GetVidOk(t)
  PROVE  IInv'
<1> USE NullAssumption DEF IInv, TypeOK, nodeVars, vnodeVars, threadVars,
      GetVidOk, Goto, SameIncarnation
<1>1. TypeOK'
  BY Zenon DEF Locations, Errors, VidInv, Alive
<1>2. TableInv'
  BY Zenon DEF TableInv, UniqueNode
<1>3. LinkInv'
  BY DEF LinkInv, Alive
<1>4. AttachInv'
  BY DEF AttachInv, Attaches
<1>5. NewInv'
  BY Zenon DEF Attaches, NewInv
<1>6. OwnerInv'
  BY DEF OwnerInv, Owns, VidInv, Alive
<1>7. VidInv'
  BY Zenon DEF Alive, VidInv
<1>8. LocalInv'
  BY Zenon DEF LocalInv
<1>9. NoLostWakeup'
  BY Zenon DEF NoLostWakeup
<1>10. FsrefBalanced'
  BY Zenon DEF FsrefBalanced
<1> QED
  BY Zenon, <1>1, <1>2, <1>3, <1>4, <1>5, <1>6, <1>7, <1>8, <1>9, <1>10

\* IInv is preserved when vnode_getwithvid refuses and the search starts
\* again (GetVidFail).
LEMMA GetVidFailInv ==
  ASSUME IInv, NEW t \in Threads, GetVidFail(t)
  PROVE  IInv'
<1> USE NullAssumption DEF IInv, TypeOK, nodeVars, vnodeVars, threadVars,
      GetVidFail, Goto, SameIncarnation
<1>1. TypeOK'
  BY Zenon DEF Locations, Errors
<1>2. TableInv'
  BY Zenon DEF TableInv, UniqueNode
<1>3. LinkInv'
  BY Zenon DEF LinkInv, Alive
<1>4. AttachInv'
  BY DEF AttachInv, Attaches
<1>5. NewInv'
  BY DEF Attaches, NewInv
<1>6. OwnerInv'
  BY DEF OwnerInv, Owns
<1>7. VidInv'
  BY DEF Alive, VidInv
<1>8. LocalInv'
  BY Zenon DEF LocalInv
<1>9. NoLostWakeup'
  BY Zenon DEF NoLostWakeup
<1>10. FsrefBalanced'
  BY Zenon DEF FsrefBalanced
<1> QED
  BY Zenon, <1>1, <1>2, <1>3, <1>4, <1>5, <1>6, <1>7, <1>8, <1>9, <1>10

\* IInv is preserved when the create callback makes a vnode (CreateOk).
LEMMA CreateOkInv ==
  ASSUME IInv, NEW t \in Threads, CreateOk(t)
  PROVE  IInv'
<1> USE NullAssumption DEF IInv, TypeOK, nodeVars, vnodeVars, threadVars,
      CreateOk, Goto
<1>1. TypeOK'
  BY DEF Locations, Errors
<1>2. TableInv'
  BY Zenon DEF TableInv, UniqueNode
<1>3. LinkInv'
  BY Zenon, CreateOkLink
<1>4. AttachInv'
  BY DEF AttachInv, Attaches
<1>5. NewInv'
  BY Zenon DEF Attaches, NewInv
<1>6. OwnerInv'
  BY DEF OwnerInv, Owns, AttachInv, Attaches
<1>7. VidInv'
  BY DEF Alive, VidInv
<1>8. LocalInv'
  BY ZenonT(30) DEF LocalInv
<1>9. NoLostWakeup'
  BY Zenon DEF NoLostWakeup
<1>10. FsrefBalanced'
  BY DEF FsrefBalanced
<1> QED
  BY Zenon, <1>1, <1>2, <1>3, <1>4, <1>5, <1>6, <1>7, <1>8, <1>9, <1>10

\* IInv is preserved when the create callback fails (CreateFail).
LEMMA CreateFailInv ==
  ASSUME IInv, NEW t \in Threads, CreateFail(t)
  PROVE  IInv'
<1> USE NullAssumption DEF IInv, TypeOK, nodeVars, vnodeVars, threadVars,
      CreateFail, Goto
<1>1. TypeOK'
  BY Zenon DEF Locations, Errors
<1>2. TableInv'
  BY Zenon DEF TableInv, UniqueNode
<1>3. LinkInv'
  BY DEF LinkInv, Alive
<1>4. AttachInv'
  BY DEF AttachInv, Attaches
<1>5. NewInv'
  BY Zenon DEF Attaches, NewInv
<1>6. OwnerInv'
  BY DEF OwnerInv, Owns
<1>7. VidInv'
  BY ZenonT(30) DEF Alive, VidInv
<1>8. LocalInv'
  BY Zenon DEF LocalInv
<1>9. NoLostWakeup'
  BY Zenon DEF NoLostWakeup
<1>10. FsrefBalanced'
  BY Zenon DEF FsrefBalanced
<1> QED
  BY Zenon, <1>1, <1>2, <1>3, <1>4, <1>5, <1>6, <1>7, <1>8, <1>9, <1>10

\* IInv is preserved when the vnode is linked to the pfsnode and the
\* sleepers are woken (AttachOk).
LEMMA AttachOkInv ==
  ASSUME IInv, NEW t \in Threads, AttachOk(t)
  PROVE  IInv'
<1> USE NullAssumption DEF IInv, TypeOK, nodeVars, vnodeVars, threadVars,
      AttachOk, AttachDone, Wakeup
<1>1. TypeOK'
  BY DEF Locations, Errors, AttachInv, Attaches, OwnerInv, Owns
<1>2. TableInv'
  BY Zenon DEF TableInv, UniqueNode
<1>3. LinkInv'
  BY DEF LinkInv, Alive, AttachInv, Attaches, OwnerInv, Owns
<1>4. AttachInv'
  BY DEF AttachInv, Attaches, NewInv, OwnerInv, Owns
<1>5. NewInv'
  BY Zenon DEF Attaches, NewInv, AttachInv
<1>6. OwnerInv'
  BY DEF OwnerInv, Owns, AttachInv, Attaches
<1>7. VidInv'
  BY DEF Alive, VidInv, AttachInv, Attaches
<1>8. LocalInv'
  BY Zenon DEF LocalInv
<1>9. NoLostWakeup'
  BY Zenon DEF NoLostWakeup
<1>10. FsrefBalanced'
  BY DEF TableInv, UniqueNode, LinkInv, Alive, AttachInv, Attaches, NewInv, OwnerInv,
       Owns, VidInv, LocalInv, NoLostWakeup, FsrefBalanced
<1> QED
  BY Zenon, <1>1, <1>2, <1>3, <1>4, <1>5, <1>6, <1>7, <1>8, <1>9, <1>10

\* IInv is preserved when the pfsnode without a vnode is removed and the
\* sleepers are woken (AttachFail).
LEMMA AttachFailInv ==
  ASSUME IInv, NEW t \in Threads, AttachFail(t)
  PROVE  IInv'
<1> USE NullAssumption DEF IInv, TypeOK, nodeVars, vnodeVars, threadVars,
      AttachFail, AttachDone, Wakeup, FreeNode
<1>1. TypeOK'
  BY ZenonT(30) DEF Locations, Errors, AttachInv, Attaches
<1>2. TableInv'
  BY Zenon DEF TableInv, UniqueNode
<1>3. LinkInv'
  BY Zenon, AttachFailLink
<1>4. AttachInv'
  BY DEF AttachInv, Attaches, NewInv
<1>5. NewInv'
  BY DEF Attaches, NewInv, AttachInv
<1>6. OwnerInv'
  BY DEF OwnerInv, Owns
<1>7. VidInv'
  BY ZenonT(30) DEF Alive, VidInv
<1>8. LocalInv'
  BY Zenon DEF LocalInv
<1>9. NoLostWakeup'
  BY Zenon DEF NoLostWakeup
<1>10. FsrefBalanced'
  BY DEF FsrefBalanced, AttachInv, Attaches
<1> QED
  BY Zenon, <1>1, <1>2, <1>3, <1>4, <1>5, <1>6, <1>7, <1>8, <1>9, <1>10

\* IInv is preserved when procfsnode_find returns a vnode (ReturnVnode).
LEMMA ReturnVnodeInv ==
  ASSUME IInv, NEW t \in Threads, ReturnVnode(t)
  PROVE  IInv'
<1> USE NullAssumption DEF IInv, TypeOK, nodeVars, vnodeVars, threadVars,
      ReturnVnode, Goto, FreeUnused
<1>1. TypeOK'
  BY Zenon DEF Locations, Errors
<1>2. TableInv'
  BY DEF TableInv, UniqueNode, LocalInv, NewInv, Attaches
<1>3. LinkInv'
  BY DEF LinkInv, Alive
<1>4. AttachInv'
  BY DEF AttachInv, Attaches
<1>5. NewInv'
  BY Zenon DEF Attaches, NewInv
<1>6. OwnerInv'
  BY DEF OwnerInv, Owns
<1>7. VidInv'
  BY ZenonT(30) DEF Alive, VidInv
<1>8. LocalInv'
  BY Zenon DEF LocalInv
<1>9. NoLostWakeup'
  BY Zenon DEF NoLostWakeup
<1>10. FsrefBalanced'
  BY Zenon DEF FsrefBalanced
<1> QED
  BY Zenon, <1>1, <1>2, <1>3, <1>4, <1>5, <1>6, <1>7, <1>8, <1>9, <1>10

\* IInv is preserved when procfsnode_find returns an error (ReturnError).
LEMMA ReturnErrorInv ==
  ASSUME IInv, NEW t \in Threads, ReturnError(t)
  PROVE  IInv'
<1> USE NullAssumption DEF IInv, TypeOK, nodeVars, vnodeVars, threadVars,
      ReturnError, Goto, FreeUnused, ForgetLocals
<1>1. TypeOK'
  BY Zenon DEF Locations, Errors
<1>2. TableInv'
  BY ZenonT(30) DEF TableInv, UniqueNode, LocalInv
<1>3. LinkInv'
  BY Zenon DEF LinkInv, Alive
<1>4. AttachInv'
  BY DEF AttachInv, Attaches
<1>5. NewInv'
  BY Zenon DEF Attaches, NewInv
<1>6. OwnerInv'
  BY DEF OwnerInv, Owns
<1>7. VidInv'
  BY DEF Alive, VidInv
<1>8. LocalInv'
  BY Zenon DEF LocalInv
<1>9. NoLostWakeup'
  BY Zenon DEF NoLostWakeup
<1>10. FsrefBalanced'
  BY Zenon DEF FsrefBalanced
<1> QED
  BY Zenon, <1>1, <1>2, <1>3, <1>4, <1>5, <1>6, <1>7, <1>8, <1>9, <1>10

\* IInv is preserved when the caller gives its iocount back (Put).
LEMMA PutInv ==
  ASSUME IInv, NEW t \in Threads, Put(t)
  PROVE  IInv'
<1> USE NullAssumption DEF IInv, TypeOK, nodeVars, vnodeVars, threadVars, Put,
      Goto, ForgetLocals
<1>1. TypeOK'
  BY DEF Locations, Errors, OwnerInv, Owns
<1>2. TableInv'
  BY Zenon DEF TableInv, UniqueNode
<1>3. LinkInv'
  BY Zenon DEF LinkInv, Alive
<1>4. AttachInv'
  BY DEF AttachInv, Attaches
<1>5. NewInv'
  BY Zenon DEF Attaches, NewInv
<1>6. OwnerInv'
  BY DEF OwnerInv, Owns
<1>7. VidInv'
  BY DEF Alive, VidInv
<1>8. LocalInv'
  BY Zenon DEF LocalInv
<1>9. NoLostWakeup'
  BY Zenon DEF NoLostWakeup
<1>10. FsrefBalanced'
  BY Zenon DEF FsrefBalanced
<1> QED
  BY Zenon, <1>1, <1>2, <1>3, <1>4, <1>5, <1>6, <1>7, <1>8, <1>9, <1>10

\* IInv is preserved when the kernel begins to recycle a vnode (Terminate).
LEMMA TerminateInv ==
  ASSUME IInv, NEW v \in VNodes, Terminate(v)
  PROVE  IInv'
<1> USE NullAssumption DEF IInv, TypeOK, nodeVars, vnodeVars, threadVars,
      Terminate
<1>1. TypeOK'
  BY Zenon DEF Locations, Errors
<1>2. TableInv'
  BY Zenon DEF TableInv, UniqueNode
<1>3. LinkInv'
  BY DEF LinkInv, Alive
<1>4. AttachInv'
  BY Zenon DEF AttachInv, Attaches
<1>5. NewInv'
  BY Zenon DEF Attaches, NewInv
<1>6. OwnerInv'
  BY DEF OwnerInv, Owns
<1>7. VidInv'
  BY DEF Alive, VidInv
<1>8. LocalInv'
  BY Zenon DEF LocalInv
<1>9. NoLostWakeup'
  BY Zenon DEF NoLostWakeup
<1>10. FsrefBalanced'
  BY Zenon DEF FsrefBalanced
<1> QED
  BY Zenon, <1>1, <1>2, <1>3, <1>4, <1>5, <1>6, <1>7, <1>8, <1>9, <1>10

\* IInv is preserved when procfs_vnop_reclaim removes the pfsnode
\* (ReclaimNode).
LEMMA ReclaimNodeInv ==
  ASSUME IInv, NEW v \in VNodes, ReclaimNode(v)
  PROVE  IInv'
<1> USE NullAssumption DEF IInv, TypeOK, nodeVars, vnodeVars, threadVars,
      ReclaimNode, FreeNode
<1>1. TypeOK'
  BY Zenon DEF Locations, Errors
<1>2. TableInv'
  BY Zenon DEF TableInv, UniqueNode
<1>3. LinkInv'
  BY DEF LinkInv, Alive, AttachInv, Attaches, NewInv
<1>4. AttachInv'
  BY DEF AttachInv, Attaches, LinkInv, Alive, OwnerInv, Owns
<1>5. NewInv'
  BY DEF TableInv, UniqueNode, LinkInv, Alive, AttachInv, Attaches, NewInv, OwnerInv,
       Owns, VidInv, LocalInv, NoLostWakeup, FsrefBalanced
<1>6. OwnerInv'
  BY DEF OwnerInv, Owns
<1>7. VidInv'
  BY Zenon DEF Alive, VidInv
<1>8. LocalInv'
  BY Zenon DEF LocalInv
<1>9. NoLostWakeup'
  BY DEF NoLostWakeup, LinkInv, Alive, OwnerInv, Owns
<1>10. FsrefBalanced'
  BY DEF FsrefBalanced, LinkInv, Alive, OwnerInv, Owns
<1> QED
  BY Zenon, <1>1, <1>2, <1>3, <1>4, <1>5, <1>6, <1>7, <1>8, <1>9, <1>10

\* IInv is preserved when procfs_vnop_reclaim ends and the vnode goes back
\* to the pool (ReclaimDone).
LEMMA ReclaimDoneInv ==
  ASSUME IInv, NEW v \in VNodes, ReclaimDone(v)
  PROVE  IInv'
<1> USE NullAssumption DEF IInv, TypeOK, nodeVars, vnodeVars, threadVars,
      ReclaimDone
<1>1. TypeOK'
  BY DEF Locations, Errors, FsrefBalanced
<1>2. TableInv'
  BY Zenon DEF TableInv, UniqueNode
<1>3. LinkInv'
  BY DEF LinkInv, Alive
<1>4. AttachInv'
  BY Zenon DEF AttachInv, Attaches
<1>5. NewInv'
  BY Zenon DEF Attaches, NewInv
<1>6. OwnerInv'
  BY DEF OwnerInv, Owns
<1>7. VidInv'
  BY DEF Alive, VidInv
<1>8. LocalInv'
  BY Zenon DEF LocalInv
<1>9. NoLostWakeup'
  BY Zenon DEF NoLostWakeup
<1>10. FsrefBalanced'
  BY DEF FsrefBalanced, LinkInv, Alive
<1> QED
  BY Zenon, <1>1, <1>2, <1>3, <1>4, <1>5, <1>6, <1>7, <1>8, <1>9, <1>10

-----------------------------------------------------------------------------
(* The theorems.                                                           *)

\* The empty table and the idle threads satisfy IInv.
LEMMA InitInv == Init => IInv
<1> SUFFICES ASSUME Init PROVE IInv
  BY Zenon
<1> USE NullAssumption DEF Init
<1>1. TypeOK
  BY Zenon DEF TypeOK, Locations, Errors
<1>2. TableInv /\ AttachInv /\ LinkInv
  BY Zenon DEF TableInv, UniqueNode, AttachInv, Attaches, LinkInv, Alive
<1>3. NewInv /\ LocalInv
  BY Zenon DEF NewInv, LocalInv
<1>4. OwnerInv /\ VidInv
  BY Zenon DEF OwnerInv, Owns, VidInv
<1>5. NoLostWakeup /\ FsrefBalanced
  BY Zenon DEF NoLostWakeup, FsrefBalanced
<1> QED
  BY Zenon, <1>1, <1>2, <1>3, <1>4, <1>5 DEF IInv

\* A step that changes nothing preserves IInv.
LEMMA StutterInv == IInv /\ UNCHANGED vars => IInv'
<1> SUFFICES ASSUME IInv, UNCHANGED vars PROVE IInv'
  BY Zenon
<1> USE DEF IInv, vars, nodeVars, vnodeVars, threadVars
<1>1. TypeOK' /\ TableInv'
  BY Zenon DEF TypeOK, TableInv, UniqueNode
<1>2. LinkInv' /\ AttachInv'
  BY DEF LinkInv, Alive, AttachInv, Attaches
<1>3. NewInv' /\ LocalInv'
  BY Zenon DEF NewInv, Attaches, LocalInv
<1>4. OwnerInv' /\ VidInv'
  BY Zenon DEF OwnerInv, Owns, VidInv, Alive
<1>5. NoLostWakeup' /\ FsrefBalanced'
  BY Zenon DEF NoLostWakeup, FsrefBalanced
<1> QED
  BY Zenon, <1>1, <1>2, <1>3, <1>4, <1>5

\* Every step of Next preserves IInv.
LEMMA NextInv == IInv /\ [Next]_vars => IInv'
<1> SUFFICES ASSUME IInv, [Next]_vars PROVE IInv'
  BY Zenon
<1>1. ASSUME NEW t \in Threads, NEW id \in Ids, Call(t, id) PROVE IInv'
  BY Zenon, <1>1, CallInv
<1>2. ASSUME NEW t \in Threads, FindStep(t) PROVE IInv'
  <2>1. CASE SearchMiss(t) \/ SearchAttach(t) \/ SearchWait(t) \/ SearchHit(t)
    BY Zenon, <2>1, SearchMissInv, SearchAttachInv, SearchWaitInv, SearchHitInv
  <2>2. CASE AllocOk(t) \/ AllocFail(t) \/ GetVidOk(t) \/ GetVidFail(t)
    BY Zenon, <2>2, AllocOkInv, AllocFailInv, GetVidOkInv, GetVidFailInv
  <2>3. CASE CreateOk(t) \/ CreateFail(t) \/ AttachOk(t) \/ AttachFail(t)
    BY <2>3, CreateOkInv, CreateFailInv, AttachOkInv, AttachFailInv
  <2>4. CASE ReturnVnode(t) \/ ReturnError(t)
    BY Zenon, <2>4, ReturnVnodeInv, ReturnErrorInv
  <2> QED
    BY Zenon, <1>2, <2>1, <2>2, <2>3, <2>4 DEF FindStep
<1>3. ASSUME NEW t \in Threads, Put(t) PROVE IInv'
  BY Zenon, <1>3, PutInv
<1>4. ASSUME NEW v \in VNodes, Terminate(v) \/ ReclaimStep(v) PROVE IInv'
  BY Zenon, <1>4, TerminateInv, ReclaimNodeInv, ReclaimDoneInv DEF ReclaimStep
<1>5. CASE UNCHANGED vars
  BY Zenon, <1>5, StutterInv
<1> QED
  BY Zenon, <1>1, <1>2, <1>3, <1>4, <1>5 DEF Next

\* IInv is invariant: the table, the vnodes and the locals of the calls in
\* progress stay consistent through every interleaving of procfsnode_find and
\* procfs_vnop_reclaim.
THEOREM Invariance == Spec => []IInv
<1>1. Init => IInv
  BY Zenon, InitInv
<1>2. IInv /\ [Next]_vars => IInv'
  BY Zenon, NextInv
<1> QED
  BY <1>1, <1>2, PTL DEF Spec

\* What IInv says of reachable pfsnodes: none of them is freed.
LEMMA ImpliesNoUseAfterFree == IInv => NoUseAfterFree
  BY Zenon DEF IInv, TableInv, LinkInv, Alive, AttachInv, Attaches, NoUseAfterFree

\* What IInv says of a caller that holds a vnode.
LEMMA ImpliesHolderSeesItsNode == IInv => HolderSeesItsNode
  BY DEF IInv, LinkInv, Alive, OwnerInv, Owns, HolderSeesItsNode

\* What IInv says of a pfsnode without a vnode: its attaching thread is the
\* only one, since the pfsnode is the allocation of that thread.
LEMMA ImpliesOneAttacher == IInv => OneAttacher
<1> SUFFICES ASSUME IInv, NEW p \in table, nodeVnode[p] = NULL
             PROVE  /\ attaching[p]
                    /\ \E t \in Threads :
                         /\ pc[t] \in {"create", "attach"}
                         /\ target[t] = p
                         /\ new[t] = p
                         /\ \A s \in Threads \ {t} :
                              pc[s] \in {"create", "attach"} => target[s] # p
  BY Zenon DEF OneAttacher
<1>1. PICK t \in Threads : Attaches(t) /\ target[t] = p
  BY Zenon DEF IInv, AttachInv
<1>2. attaching[p] /\ new[t] = p
  BY Zenon, <1>1 DEF IInv, AttachInv
<1>3. ASSUME NEW s \in Threads \ {t}, Attaches(s) PROVE target[s] # p
  BY <1>2, <1>3, NullAssumption DEF IInv, TypeOK, AttachInv, NewInv
<1> QED
  BY Zenon, <1>1, <1>2, <1>3 DEF Attaches

\* Every variable of the table, of the vnodes and of the threads keeps its type.
THEOREM TypeCorrect == Spec => []TypeOK
<1>1. IInv => TypeOK
  BY Zenon DEF IInv
<1> QED
  BY <1>1, Invariance, PTL

\* However many threads race between the search that fails and the insertion,
\* the table never holds two pfsnodes for one id.
THEOREM OneNodePerId == Spec => []UniqueNode
<1>1. IInv => UniqueNode
  BY Zenon DEF IInv, TableInv
<1> QED
  BY <1>1, Invariance, PTL

\* No pfsnode is freed while the table, a vnode that is not reclaimed yet or
\* an attaching thread leads to it.
THEOREM NothingReachableIsFreed == Spec => []NoUseAfterFree
  BY Invariance, ImpliesNoUseAfterFree, PTL

\* A caller of procfsnode_find holds the live vnode of the id it asked for
\* until it gives it back: vnode_getwithvid with the sampled vid is enough.
THEOREM HoldersAreSafe == Spec => []HolderSeesItsNode
  BY Invariance, ImpliesHolderSeesItsNode, PTL

\* One thread at a time runs the create callback for a pfsnode.
THEOREM SingleAttacher == Spec => []OneAttacher
  BY Invariance, ImpliesOneAttacher, PTL

\* A thread only sleeps on a pfsnode whose attaching thread will wake it.
THEOREM SleepersAreWoken == Spec => []NoLostWakeup
<1>1. IInv => NoLostWakeup
  BY Zenon DEF IInv
<1> QED
  BY <1>1, Invariance, PTL

\* A vnode has one file system reference from the attach to the end of the
\* reclaim, and none otherwise.
THEOREM FsrefsBalance == Spec => []FsrefBalanced
<1>1. IInv => FsrefBalanced
  BY Zenon DEF IInv
<1> QED
  BY <1>1, Invariance, PTL

-----------------------------------------------------------------------------
(* NodeCache implements NodeTable.  Four actions do something a caller can *)
(* tell: AttachOk creates the vnode of an id, GetVidOk finds it, Put       *)
(* releases it and Terminate takes it away; every other step leaves        *)
(* boundVnode and heldVnode as they are.                                   *)

\* The vnode of a pfsnode, as far as a caller can get it.
LiveVnode(p) ==
    IF nodeVnode[p] # NULL /\ vstate[nodeVnode[p]] = "live" THEN nodeVnode[p] ELSE NULL

\* The vnode of an id is the live one of its pfsnode; an id without a pfsnode
\* has none.
BoundIsLive ==
    /\ boundVnode = [id \in Ids |-> boundVnode[id]]
    /\ \A p \in table : boundVnode[nodeId[p]] = LiveVnode(p)
    /\ \A id \in Ids : (\A p \in table : nodeId[p] # id) => boundVnode[id] = NULL

\* The types of the variables a caller's view depends on.
NodeTypes ==
    /\ heap \subseteq PNodes
    /\ table \subseteq PNodes
    /\ nodeId \in [PNodes -> Ids \union {NULL}]
    /\ nodeVnode \in [PNodes -> VNodes \union {NULL}]
    /\ vstate \in [VNodes -> {"free", "live", "terminating", "reclaimed"}]

ThreadTypes ==
    /\ pc \in [Threads -> Locations]
    /\ req \in [Threads -> Ids \union {NULL}]
    /\ tvnode \in [Threads -> VNodes \union {NULL}]
    /\ error \in [Threads -> Errors]

\* BoundIsLive follows from there being one pfsnode per id (TableInv).
LEMMA BoundFacts == TableInv => BoundIsLive
<1> SUFFICES ASSUME TableInv PROVE BoundIsLive
  OBVIOUS
<1>1. ASSUME NEW p \in table PROVE boundVnode[nodeId[p]] = LiveVnode(p)
  <2>1. Match(nodeId[p]) = {p} /\ nodeId[p] \in Ids
    BY Zenon DEF TableInv, UniqueNode, Match
  <2>2. (CHOOSE q \in Match(nodeId[p]) : TRUE) = p
    BY Zenon, <2>1
  <2> QED
    BY Zenon, <2>1, <2>2 DEF boundVnode, LiveVnode
<1>2. ASSUME NEW id \in Ids, \A p \in table : nodeId[p] # id
      PROVE  boundVnode[id] = NULL
  BY Zenon, <1>2 DEF boundVnode, Match
<1>3. boundVnode = [id \in Ids |-> boundVnode[id]]
  BY DEF boundVnode
<1> QED
  BY Zenon, <1>1, <1>2, <1>3 DEF BoundIsLive

\* An id keeps its vnode when each pfsnode that has one to give, before or
\* after the step, is there on both sides with the same one.
LEMMA BoundUnchanged ==
  ASSUME TableInv, TableInv',
         \A p \in table : LiveVnode(p) # NULL =>
           p \in table' /\ nodeId'[p] = nodeId[p] /\ LiveVnode(p)' = LiveVnode(p),
         \A p \in table' : LiveVnode(p)' # NULL =>
           p \in table /\ nodeId'[p] = nodeId[p] /\ LiveVnode(p)' = LiveVnode(p)
  PROVE  boundVnode' = boundVnode
<1>1. BoundIsLive /\ BoundIsLive'
  <2>1. BoundIsLive
    BY Zenon, BoundFacts
  <2>2. TableInv' => BoundIsLive'
    BY BoundFacts, PTL
  <2> QED
    BY Zenon, <2>1, <2>2
<1>2. ASSUME NEW id \in Ids PROVE boundVnode'[id] = boundVnode[id]
  BY <1>1 DEF BoundIsLive
<1> QED
  BY Zenon, <1>1, <1>2 DEF BoundIsLive

-----------------------------------------------------------------------------
(* The steps a caller cannot tell.                                         *)

Quiet == boundVnode' = boundVnode /\ heldVnode' = heldVnode

\* A step that touches neither the table nor the vnodes, and moves a thread
\* between two places where it holds nothing or from the clean-up to the caller, is quiet.
LEMMA LocalStepQuiet ==
  ASSUME ThreadTypes, NEW t \in Threads,
         \/ \E id \in Ids : Call(t, id)
         \/ SearchMiss(t) \/ SearchWait(t) \/ SearchHit(t)
         \/ AllocOk(t) \/ AllocFail(t) \/ GetVidFail(t) \/ CreateFail(t)
         \/ ReturnVnode(t) \/ ReturnError(t)
  PROVE  Quiet
<1>1. UNCHANGED <<table, nodeId, nodeVnode, vstate>>
  BY Zenon DEF Call, SearchMiss, SearchWait, SearchHit, AllocOk, AllocFail, GetVidFail, CreateFail,
         ReturnVnode, ReturnError, FreeUnused, nodeVars, vnodeVars
<1>2. boundVnode' = boundVnode
  BY <1>1 DEF boundVnode, Match
<1>3. heldVnode' = heldVnode
  <2> USE DEF ThreadTypes, heldVnode, Goto
  <2>1. CASE \E id \in Ids : Call(t, id)
    BY Zenon, <2>1 DEF Call
  <2>2. CASE SearchMiss(t) \/ SearchWait(t)
    BY Zenon, <2>2 DEF SearchMiss, SearchWait
  <2>3. CASE SearchHit(t)
    BY Zenon, <2>3 DEF SearchHit
  <2>4. CASE AllocOk(t) \/ AllocFail(t)
    BY Zenon, <2>4 DEF AllocOk, AllocFail
  <2>5. CASE GetVidFail(t) \/ CreateFail(t)
    BY Zenon, <2>5 DEF GetVidFail, CreateFail
  <2>6. CASE ReturnVnode(t) \/ ReturnError(t)
    BY Zenon, <2>6 DEF ReturnVnode, ReturnError, FreeUnused, ForgetLocals
  <2> QED
    BY Zenon, <2>1, <2>2, <2>3, <2>4, <2>5, <2>6
<1> QED
  BY Zenon, <1>2, <1>3 DEF Quiet

\* The pfsnode that SearchAttach inserts, or finds, has no vnode.
LEMMA SearchAttachQuiet ==
  ASSUME NodeTypes, ThreadTypes, NewInv, TableInv, TableInv', NEW t \in Threads, SearchAttach(t)
  PROVE  Quiet
<1>1. PICK p \in NeedsVnode(t) : /\ table' = table \union {p}
                                 /\ nodeId' = [nodeId EXCEPT ![p] = req[t]]
                                 /\ nodeVnode' = [nodeVnode EXCEPT ![p] = NULL]
                                 /\ vstate' = vstate
  BY Zenon DEF SearchAttach, vnodeVars
<1>2. p \in PNodes /\ (p \in table => LiveVnode(p) = NULL)
  BY DEF NodeTypes, NewInv, TableInv, Attaches, NeedsVnode, Match, LiveVnode, SearchAttach
<1>3. boundVnode' = boundVnode
  BY Zenon, <1>1, <1>2, BoundUnchanged DEF NodeTypes, LiveVnode
<1>4. heldVnode' = heldVnode
  BY Zenon DEF SearchAttach, Goto, heldVnode, ThreadTypes
<1> QED
  BY Zenon, <1>3, <1>4 DEF Quiet

\* The vnode that CreateOk makes is not linked from a pfsnode yet.
LEMMA CreateOkQuiet ==
  ASSUME NodeTypes, ThreadTypes, LinkInv, TableInv, TableInv', NEW t \in Threads, CreateOk(t)
  PROVE  Quiet
<1>1. PICK v \in VNodes : /\ vstate[v] = "free"
                          /\ vstate' = [vstate EXCEPT ![v] = "live"]
                          /\ UNCHANGED <<table, nodeId, nodeVnode>>
  BY Zenon DEF CreateOk, nodeVars
<1>2. \A p \in table : LiveVnode(p)' = LiveVnode(p)
  BY <1>1 DEF LinkInv, Alive, NodeTypes, LiveVnode
<1>3. boundVnode' = boundVnode
  BY Zenon, <1>1, <1>2, BoundUnchanged
<1>4. heldVnode' = heldVnode
  BY Zenon DEF CreateOk, Goto, heldVnode, ThreadTypes
<1> QED
  BY Zenon, <1>3, <1>4 DEF Quiet

\* The pfsnode that AttachFail removes has no vnode, and the thread no iocount.
LEMMA AttachFailQuiet ==
  ASSUME AttachInv, TableInv, TableInv', NEW t \in Threads, AttachFail(t)
  PROVE  Quiet
<1>1. /\ table' = table \ {target[t]}
      /\ UNCHANGED <<nodeId, nodeVnode, vstate, req, tvnode, error>>
      /\ pc[t] = "attach" /\ error[t] # "none"
      /\ Wakeup(t, target[t])
  BY Zenon DEF AttachFail, AttachDone, FreeNode, vnodeVars
<1>2. LiveVnode(target[t]) = NULL
  BY Zenon, <1>1 DEF AttachInv, Attaches, LiveVnode
<1>3. boundVnode' = boundVnode
  BY Zenon, <1>1, <1>2, BoundUnchanged DEF LiveVnode
<1>4. heldVnode' = heldVnode
  BY Zenon, <1>1 DEF heldVnode, Wakeup
<1> QED
  BY Zenon, <1>3, <1>4 DEF Quiet

\* A vnode that is terminating or reclaimed is out of a caller's reach already.
LEMMA ReclaimQuiet ==
  ASSUME NodeTypes, LinkInv, OwnerInv, TableInv, TableInv', NEW v \in VNodes, ReclaimStep(v)
  PROVE  Quiet
<1>1. heldVnode' = heldVnode
  BY Zenon DEF ReclaimStep, ReclaimNode, ReclaimDone, threadVars, heldVnode
<1>2. CASE ReclaimNode(v)
  <2>1. /\ vstate[v] = "terminating" /\ vstate' = [vstate EXCEPT ![v] = "reclaimed"]
        /\ table' = table \ {fsnode[v]}
        /\ UNCHANGED <<nodeId, nodeVnode>>
    BY Zenon, <1>2 DEF ReclaimNode, FreeNode
  <2>2. \A p \in table : LiveVnode(p)' = LiveVnode(p)
    BY Zenon, <2>1 DEF NodeTypes, LiveVnode
  <2>3. fsnode[v] \in table /\ LiveVnode(fsnode[v]) = NULL
    <3>1. \A t \in Threads : Owns(t) => tvnode[t] # v
      BY Zenon, <2>1 DEF OwnerInv
    <3>2. fsnode[v] \in table /\ nodeVnode[fsnode[v]] = v
      BY <2>1, <3>1 DEF LinkInv, Alive, Owns
    <3> QED
      BY Zenon, <2>1, <3>2 DEF LiveVnode
  <2>4. boundVnode' = boundVnode
    BY Zenon, <2>1, <2>2, <2>3, BoundUnchanged
  <2> QED
    BY Zenon, <1>1, <2>4 DEF Quiet
<1>3. CASE ReclaimDone(v)
  <2>1. /\ vstate[v] = "reclaimed" /\ vstate' = [vstate EXCEPT ![v] = "free"]
        /\ UNCHANGED <<table, nodeId, nodeVnode>>
    BY Zenon, <1>3 DEF ReclaimDone, nodeVars
  <2>2. \A p \in table : LiveVnode(p)' = LiveVnode(p)
    BY Zenon, <2>1 DEF NodeTypes, LiveVnode
  <2>3. boundVnode' = boundVnode
    BY Zenon, <2>1, <2>2, BoundUnchanged
  <2> QED
    BY <1>1, <2>3 DEF Quiet
<1> QED
  BY Zenon, <1>2, <1>3 DEF ReclaimStep

-----------------------------------------------------------------------------
(* The steps a caller can tell.                                            *)

LEMMA BoundFactsNext == TableInv' => BoundIsLive'
  BY BoundFacts, PTL

\* The end of a successful attach (procfs_node.c:317) is the moment at which
\* the id gets its vnode, which stands for no other id.
LEMMA AttachOkCreates ==
  ASSUME NodeTypes, TableInv, TableInv', LinkInv, AttachInv, OwnerInv, LocalInv,
         NEW t \in Threads, AttachOk(t)
  PROVE  req[t] \in Ids /\ tvnode[t] \in VNodes /\ Promise!Create(t, req[t], tvnode[t])
<1> DEFINE p == target[t]
           v == tvnode[t]
<1>1. BoundIsLive /\ BoundIsLive'
  BY Zenon, BoundFacts, BoundFactsNext
<1>2. /\ pc[t] = "attach" /\ error[t] = "none" /\ Wakeup(t, p)
      /\ nodeVnode' = [nodeVnode EXCEPT ![p] = v]
      /\ UNCHANGED <<table, nodeId, vstate, req, target, tvnode, error>>
  BY Zenon DEF AttachOk, AttachDone
<1>3. /\ req[t] \in Ids /\ v \in VNodes /\ vstate[v] = "live" /\ fsnode[v] = p
      /\ p \in table /\ nodeId[p] = req[t] /\ nodeVnode[p] = NULL
  BY Zenon, <1>2 DEF LocalInv, OwnerInv, Owns, AttachInv, Attaches
<1>4. heldVnode[t] = NULL
  BY Zenon, <1>2 DEF heldVnode
<1>5. boundVnode[req[t]] = NULL
  BY <1>1, <1>3 DEF BoundIsLive, LiveVnode
<1>6. ASSUME NEW i \in Ids, boundVnode[i] = v PROVE FALSE
  <2>1. PICK q \in table : nodeId[q] = i
    BY Zenon, <1>1, <1>3, <1>6, NullAssumption DEF BoundIsLive
  <2>2. LiveVnode(q) = v
    BY Zenon, <1>1, <1>6, <2>1 DEF BoundIsLive
  <2>3. nodeVnode[q] = v
    BY Zenon, <1>3, <2>2, NullAssumption DEF LiveVnode
  <2> QED
    BY <1>3, <2>3, NullAssumption DEF LinkInv
<1>7. boundVnode' = [boundVnode EXCEPT ![req[t]] = v]
  <2>1. LiveVnode(p)' = v /\ \A q \in table : q # p => LiveVnode(q)' = LiveVnode(q)
    BY Zenon, <1>2, <1>3, NullAssumption DEF NodeTypes, LiveVnode
  <2>2. \A q \in table : q # p => nodeId[q] # req[t]
    BY Zenon, <1>3 DEF TableInv, UniqueNode
  <2>3. ASSUME NEW i \in Ids
        PROVE  boundVnode'[i] = IF i = req[t] THEN v ELSE boundVnode[i]
    <3>1. CASE i = req[t]
      BY Zenon, <1>1, <1>2, <1>3, <2>1, <3>1 DEF BoundIsLive
    <3>2. CASE i # req[t]
      BY <1>1, <1>2, <1>3, <2>1, <2>2, <3>2 DEF BoundIsLive
    <3> QED
      BY Zenon, <3>1, <3>2
  <2> QED
    BY Zenon, <1>1, <1>3, <2>3 DEF BoundIsLive
<1>8. heldVnode' = [heldVnode EXCEPT ![t] = <<req[t], v>>]
  BY Zenon, <1>2 DEF heldVnode, Wakeup
<1> QED
  BY Zenon, <1>3, <1>4, <1>5, <1>6, <1>7, <1>8 DEF Promise!Create, Promise!Holding

\* vnode_getwithvid with the sampled vid (procfs_node.c:239) gives the thread
\* the vnode its id has at that moment.
LEMMA GetVidOkFinds ==
  ASSUME ThreadTypes, TableInv, LinkInv, VidInv, LocalInv, NEW t \in Threads, GetVidOk(t)
  PROVE  req[t] \in Ids /\ Promise!Find(t, req[t])
<1> DEFINE p == target[t]
           v == tvnode[t]
<1>1. BoundIsLive
  BY Zenon, BoundFacts
<1>2. /\ pc[t] = "getvid" /\ pc' = [pc EXCEPT ![t] = "cleanup"]
      /\ vstate[v] = "live" /\ vid[v] = tvid[t]
      /\ UNCHANGED <<table, nodeId, nodeVnode, vstate, req, tvnode, error>>
  BY Zenon DEF GetVidOk, Goto, SameIncarnation, nodeVars
<1>3. /\ req[t] \in Ids /\ error[t] = "none" /\ v \in VNodes
      /\ p \in table /\ nodeId[p] = req[t] /\ nodeVnode[p] = v
  BY <1>2 DEF LocalInv, VidInv, LinkInv, Alive
<1>4. boundVnode[req[t]] = v
  BY Zenon, <1>1, <1>2, <1>3, NullAssumption DEF BoundIsLive, LiveVnode
<1>5. boundVnode' = boundVnode
  BY <1>2 DEF boundVnode, Match
<1>6. heldVnode[t] = NULL /\ heldVnode' = [heldVnode EXCEPT ![t] = <<req[t], v>>]
  BY Zenon, <1>2, <1>3 DEF heldVnode, ThreadTypes
<1> QED
  BY Zenon, <1>3, <1>4, <1>5, <1>6, NullAssumption DEF Promise!Find, Promise!Holding

\* vnode_put releases what the thread held.
LEMMA PutReleases ==
  ASSUME ThreadTypes, LocalInv, OwnerInv, NEW t \in Threads, Put(t)
  PROVE  Promise!Release(t)
<1>1. /\ pc[t] = "holding" /\ error[t] = "none"
      /\ req[t] \in Ids /\ tvnode[t] \in VNodes
  BY Zenon DEF Put, LocalInv, OwnerInv, Owns
<1>2. heldVnode[t] # NULL
  BY <1>1, PairAssumption DEF heldVnode
<1>3. boundVnode' = boundVnode
  BY DEF Put, nodeVars, boundVnode, Match
<1>4. heldVnode' = [heldVnode EXCEPT ![t] = NULL]
  BY Zenon DEF Put, Goto, ForgetLocals, heldVnode, ThreadTypes
<1> QED
  BY Zenon, <1>2, <1>3, <1>4 DEF Promise!Release

\* The kernel terminates a vnode that nobody has an iocount on: its id loses
\* it, and no thread holds it.
LEMMA TerminateReclaims ==
  ASSUME NodeTypes, TableInv, TableInv', LinkInv, OwnerInv, NEW v \in VNodes, Terminate(v)
  PROVE  nodeId[fsnode[v]] \in Ids /\ Promise!Reclaim(nodeId[fsnode[v]])
<1>1. PICK p : p = fsnode[v]
  BY Zenon
<1>2. /\ vstate[v] = "live" /\ users[v] = {}
      /\ vstate' = [vstate EXCEPT ![v] = "terminating"]
      /\ UNCHANGED <<table, nodeId, nodeVnode, pc, req, tvnode, error>>
  BY Zenon DEF Terminate, nodeVars, threadVars
<1>3. p \in table /\ nodeId[p] \in Ids /\ nodeVnode[p] = v
  <2>1. \A t \in Threads : Owns(t) => tvnode[t] # v
    BY Zenon, <1>2 DEF OwnerInv
  <2>2. p \in table /\ nodeVnode[p] = v
    BY <1>1, <1>2, <2>1 DEF LinkInv, Alive, Owns
  <2> QED
    BY Zenon, <2>2 DEF TableInv
<1>4. BoundIsLive /\ BoundIsLive'
  BY Zenon, BoundFacts, BoundFactsNext
<1>5. boundVnode[nodeId[p]] = v
  BY Zenon, <1>2, <1>3, <1>4, NullAssumption DEF BoundIsLive, LiveVnode
<1>6. ASSUME NEW t \in Threads PROVE heldVnode[t] # <<nodeId[p], v>>
  <2>1. CASE pc[t] \in {"cleanup", "holding"} /\ error[t] = "none"
    BY Zenon, <1>2, <2>1 DEF heldVnode, OwnerInv, Owns
  <2>2. CASE ~(pc[t] \in {"cleanup", "holding"} /\ error[t] = "none")
    BY <1>3, <2>2, PairAssumption DEF heldVnode
  <2> QED
    BY Zenon, <2>1, <2>2
<1>7. boundVnode' = [boundVnode EXCEPT ![nodeId[p]] = NULL]
  <2>1. LiveVnode(p)' = NULL
    BY Zenon, <1>2, <1>3 DEF NodeTypes, LiveVnode
  <2>2. \A q \in table : q # p => nodeVnode[q] # v /\ nodeId[q] # nodeId[p]
    <3>1. v # NULL
      BY Zenon, NullAssumption
    <3>2. \A q \in table : nodeVnode[q] # NULL => fsnode[nodeVnode[q]] = q
      BY Zenon DEF LinkInv
    <3>3. \A q \in table : nodeId[q] = nodeId[p] => q = p
      BY Zenon, <1>3 DEF TableInv, UniqueNode
    <3> QED
      BY Zenon, <1>1, <3>1, <3>2, <3>3
  <2>3. \A q \in table : q # p => LiveVnode(q)' = LiveVnode(q)
    BY Zenon, <1>2, <2>2 DEF NodeTypes, LiveVnode
  <2>4. ASSUME NEW i \in Ids
        PROVE  boundVnode'[i] = IF i = nodeId[p] THEN NULL ELSE boundVnode[i]
    BY <1>2, <1>3, <1>4, <2>1, <2>2, <2>3 DEF BoundIsLive
  <2> QED
    BY Zenon, <1>3, <1>4, <2>4 DEF BoundIsLive
<1>8. heldVnode' = heldVnode
  BY Zenon, <1>2 DEF heldVnode
<1> QED
  BY Zenon, <1>1, <1>3, <1>5, <1>6, <1>7, <1>8, NullAssumption DEF Promise!Reclaim

-----------------------------------------------------------------------------
(* The refinement.                                                         *)

\* In the beginning no id has a vnode and no thread holds one.
LEMMA InitRefines == Init => Promise!Init
<1> SUFFICES ASSUME Init PROVE Promise!Init
  OBVIOUS
<1>1. boundVnode = [id \in Ids |-> NULL]
  BY Zenon DEF Init, boundVnode, Match
<1>2. heldVnode = [t \in Threads |-> NULL]
  BY Zenon DEF Init, heldVnode
<1> QED
  BY Zenon, <1>1, <1>2 DEF Promise!Init

\* Every step of the code is a step of the promise or leaves it as it is.
LEMMA StepRefines == IInv /\ IInv' /\ [Next]_vars => [Promise!Next]_Promise!vars
<1> SUFFICES ASSUME IInv, IInv', [Next]_vars PROVE Promise!Next \/ Quiet
  BY Zenon DEF Quiet, Promise!vars
<1>a. NodeTypes /\ ThreadTypes
  BY Zenon DEF IInv, TypeOK, NodeTypes, ThreadTypes
<1>b. TableInv /\ LinkInv /\ AttachInv /\ NewInv /\ OwnerInv /\ VidInv /\ LocalInv
  BY Zenon DEF IInv
<1>c. TableInv'
  BY Zenon DEF IInv
<1>1. ASSUME NEW t \in Threads, NEW id \in Ids, Call(t, id) PROVE Quiet
  BY Zenon, <1>1, <1>a, <1>b, <1>c, LocalStepQuiet
<1>2. ASSUME NEW t \in Threads, FindStep(t) PROVE Promise!Next \/ Quiet
  <2>1. CASE AttachOk(t)
    BY Zenon, <2>1, <1>a, <1>b, <1>c, AttachOkCreates DEF Promise!Next
  <2>2. CASE GetVidOk(t)
    BY Zenon, <2>2, <1>a, <1>b, <1>c, GetVidOkFinds DEF Promise!Next
  <2>3. CASE SearchAttach(t)
    BY Zenon, <2>3, <1>a, <1>b, <1>c, SearchAttachQuiet
  <2>4. CASE CreateOk(t)
    BY Zenon, <2>4, <1>a, <1>b, <1>c, CreateOkQuiet
  <2>5. CASE AttachFail(t)
    BY Zenon, <2>5, <1>a, <1>b, <1>c, AttachFailQuiet
  <2> QED
    BY Zenon, <1>2, <2>1, <2>2, <2>3, <2>4, <2>5, <1>a, <1>b, <1>c, LocalStepQuiet DEF FindStep
<1>3. ASSUME NEW t \in Threads, Put(t) PROVE Promise!Next
  BY Zenon, <1>3, <1>a, <1>b, <1>c, PutReleases DEF Promise!Next
<1>4. ASSUME NEW v \in VNodes, Terminate(v) PROVE Promise!Next
  BY Zenon, <1>4, <1>a, <1>b, <1>c, TerminateReclaims DEF Promise!Next
<1>5. ASSUME NEW v \in VNodes, ReclaimStep(v) PROVE Quiet
  BY Zenon, <1>5, <1>a, <1>b, <1>c, ReclaimQuiet
<1>6. CASE UNCHANGED vars
  BY <1>6 DEF vars, nodeVars, vnodeVars, threadVars, Quiet, boundVnode, heldVnode, Match
<1> QED
  BY Zenon, <1>1, <1>2, <1>3, <1>4, <1>5, <1>6 DEF Next

\* procfsnode_find and procfs_vnop_reclaim implement a table with one vnode
\* per id that is not taken away from a caller who holds it.
THEOREM Refinement == Spec => ImplementsNodeTable
<1>1. Init => Promise!Init
  BY InitRefines
<1>2. IInv /\ IInv' /\ [Next]_vars => [Promise!Next]_Promise!vars
  BY Zenon, StepRefines
<1>3. Spec => []IInv
  BY Zenon, Invariance
<1> QED
  BY <1>1, <1>2, <1>3, PTL DEF Spec, ImplementsNodeTable, Promise!Spec
=============================================================================
