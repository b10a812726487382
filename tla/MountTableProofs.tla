-------------------------- MODULE MountTableProofs --------------------------
(***************************************************************************)
(* Proofs about MountTable, for any finite set of mount points, any number *)
(* of trees and any overlap of mounts and unmounts.                        *)
(***************************************************************************)
EXTENDS MountTable, FiniteSetTheorems, TLAPS

\* Which steps of procfs_mount and procfs_unmount have private data attached.
Control ==
    \A m \in MountPoints :
        /\ pc[m] \in {"readid", "uncount", "free", "release", "clear"} => mnt[m] = None
        /\ pc[m] \in {"count", "name", "init", "build", "buckets"} => mnt[m] # None

\* An id in use was counted.  A mount that is about to read the counter, and was
\* not overtaken, reads a value no mount has but one that was overtaken, and
\* there is one such mount at a time.
Ids ==
    /\ SharedIdOnlyIfOvertaken
    /\ \A m \in Mounted : mnt[m].id <= mountId
    /\ \A m \in MountPoints \ overtaken : pc[m] = "readid" =>
         /\ \A n \in Mounted \ overtaken : mnt[n].id < mountId
         /\ \A n \in MountPoints \ overtaken : pc[n] = "readid" => n = m

\* The instances the counter stands for: from one OSAddAtomic to the other.
Counted == {m \in MountPoints :
    \/ pc[m] = "idle" /\ mnt[m] # None
    \/ pc[m] \in {"name", "init", "build", "buckets", "uncount"}}

\* The count, and a registered file system belongs to a loaded extension.
Counts == instances = Cardinality(Counted)
Services == ServicesWhileMounted /\ (registered => loaded /\ tag)

\* As long as no two calls met in the structure code: one call is in it at a
\* time, what it tested still holds, and a tree that is allocated has a call to
\* procfs_structure_free ahead.
Tree ==
    met # "structure" =>
        /\ trees \subseteq {root}
        /\ \A m, n \in MountPoints : InStructure(m) /\ InStructure(n) => m = n
        /\ \A m \in MountPoints :
             /\ pc[m] = "build" => root = None
             /\ pc[m] = "clear" => trees = {}
        /\ trees # {} => \E m \in MountPoints :
             mnt[m] # None \/ pc[m] \in {"uncount", "free", "release"}

IInv == TypeOK /\ Control /\ Ids /\ Counts /\ Services /\ Tree

-----------------------------------------------------------------------------
(* Sets of mount points.                                                   *)

\* Every set of mount points is finite, with no more members than there are.
LEMMA PointsFinite ==
    ASSUME NEW S \in SUBSET MountPoints
    PROVE  IsFiniteSet(S) /\ Cardinality(S) \in 0 .. Cardinality(MountPoints)
<1>1. IsFiniteSet(S) /\ Cardinality(S) <= Cardinality(MountPoints)
  BY MountPointsAssumption, FS_Subset
<1>2. Cardinality(S) \in Nat /\ Cardinality(MountPoints) \in Nat
  BY <1>1, MountPointsAssumption, FS_CardinalityType
<1> QED
  BY <1>1, <1>2

\* Before the extension is first loaded nothing is mounted or allocated.
LEMMA InitIInv == Init => IInv
<1> SUFFICES ASSUME Init PROVE IInv
  OBVIOUS
<1>1. Mounted = {} /\ Busy = {} /\ InUse = {} /\ Counted = {}
  BY DEF Init, Mounted, Busy, InUse, Counted
<1>2. Cardinality({}) = 0 /\ Cardinality(MountPoints) \in Nat
  BY MountPointsAssumption, FS_CardinalityType, FS_EmptySet
<1>3. TypeOK
  <2>1. /\ loaded \in BOOLEAN /\ tag \in BOOLEAN /\ registered \in BOOLEAN
        /\ bridge \in BOOLEAN /\ sysctl \in BOOLEAN /\ buckets \in BOOLEAN
        /\ met \in {"none", "calls", "structure"}
    BY Zenon DEF Init
  <2>2. mountId \in Nat /\ instances \in 0 .. Cardinality(MountPoints) /\ nextTree \in Nat
    BY <1>2 DEF Init
  <2>3. /\ root \in {None} \union Nat
        /\ trees \subseteq Nat
        /\ mnt \in [MountPoints -> {None} \union Instance]
        /\ cached \in [MountPoints -> SUBSET Nat]
        /\ pc \in [MountPoints -> {"idle", "readid", "count", "name", "init", "build",
                                   "buckets", "uncount", "free", "release", "clear"}]
        /\ overtaken \subseteq MountPoints
    BY Zenon DEF Init
  <2> QED
    BY <2>1, <2>2, <2>3, Zenon DEF TypeOK
<1>4. Control /\ Ids /\ Services /\ Tree
  BY <1>1 DEF Init, Control, Ids, SharedIdOnlyIfOvertaken, Services, ServicesWhileMounted,
              Tree, InStructure
<1>5. Counts
  BY <1>1, <1>2 DEF Init, Counts
<1> QED
  BY <1>3, <1>4, <1>5 DEF IInv

\* An extension that is not loaded has nothing mounted.
LEMMA NothingMounted ==
    IInv /\ ~loaded => Mounted = {} /\ Busy = {}
BY DEF IInv, Services, ServicesWhileMounted, InUse

-----------------------------------------------------------------------------
(* Each conjunct is kept by every step.                                    *)

\* The steps of the calls keep private data and program counter together.
LEMMA ControlStep == IInv /\ [Next]_vars => Control'
<1> SUFFICES ASSUME IInv, [Next]_vars PROVE Control'
  OBVIOUS
<1> USE DEF IInv, TypeOK, Control
<1>1. CASE Start \/ StopRefused \/ Stop \/ UNCHANGED vars
  <2>1. UNCHANGED <<mnt, pc>>
    BY <1>1 DEF Start, StopRefused, Stop, vars, mntVars
  <2> QED
    BY <2>1
<1>2. ASSUME NEW m \in MountPoints, Mount(m) PROVE Control'
  <2>1. [id |-> mountId, name |-> 0] # None
    BY NoneAssumption DEF Instance
  <2>2. CASE NameInstance(m)
    <3>1. mnt[m] \in Instance /\ instances \in Nat
      BY <2>2 DEF NameInstance
    <3>2. [id |-> mnt[m].id, name |-> instances] # None
      BY <3>1, NoneAssumption DEF Instance
    <3> QED
      BY <2>2, <3>2 DEF NameInstance, Goto
  <2>3. CASE MountBegin(m)
    BY <2>3 DEF MountBegin, Goto, mntVars, InUse, Mounted
  <2>4. CASE ReadId(m)
    BY <2>4, <2>1 DEF ReadId, Goto
  <2>6. CASE CountInstance(m) \/ StructureInit(m) \/ StructureBuild(m) \/ MountEnd(m)
    BY <2>6 DEF CountInstance, StructureInit, StructureBuild, MountEnd, Goto, mntVars
  <2> QED
    BY <1>2, <2>2, <2>3, <2>4, <2>6 DEF Mount
<1>3. ASSUME NEW m \in MountPoints, Unmount(m) PROVE Control'
  <2>1. CASE UnmountBegin(m)
    BY <2>1 DEF UnmountBegin, Goto
  <2>2. CASE Uncount(m) \/ StructureFree(m) \/ StructureRelease(m) \/ StructureClear(m)
    BY <2>2 DEF Uncount, StructureFree, StructureRelease, StructureClear, Goto, mntVars
  <2> QED
    BY <1>3, <2>1, <2>2 DEF Unmount
<1>4. ASSUME NEW m \in MountPoints, Lookup(m) \/ Reclaim(m) PROVE Control'
  BY <1>4, Zenon DEF Lookup, Reclaim
<1> QED
  BY <1>1, <1>2, <1>3, <1>4 DEF Next

\* A step that changes neither the ids nor who is about to read one.
LEMMA IdsUnchanged ==
    ASSUME IInv, mountId' = mountId, overtaken' = overtaken,
           \A n \in MountPoints : mnt'[n] # None => mnt[n] # None /\ mnt'[n].id = mnt[n].id,
           \A n \in MountPoints : pc'[n] = "readid" => pc[n] = "readid"
    PROVE  Ids'
<1> USE DEF IInv, Ids, SharedIdOnlyIfOvertaken
<1>1. Mounted' \subseteq Mounted /\ \A n \in Mounted' : mnt'[n].id = mnt[n].id
  BY DEF Mounted
<1>2. SharedIdOnlyIfOvertaken'
  BY <1>1
<1> QED
  BY <1>1, <1>2

\* The id of a new instance: MountBegin makes the counter exceed every id in use,
\* and ReadId, unless it was overtaken, takes that value.
LEMMA IdsStep == IInv /\ [Next]_vars => Ids'
<1> SUFFICES ASSUME IInv, [Next]_vars PROVE Ids'
  OBVIOUS
<1>0. /\ mountId \in Nat /\ overtaken \subseteq MountPoints
      /\ \A n \in Mounted : mnt[n].id \in Nat
  BY DEF IInv, TypeOK, Mounted, Instance
<1>1. CASE Start
  <2>1. Mounted = {} /\ Busy = {}
    BY <1>1, NothingMounted DEF Start
  <2>2. Mounted' = {} /\ \A n \in MountPoints : pc'[n] # "readid"
    BY <1>1, <2>1 DEF Start, Mounted, Busy, mntVars
  <2> QED
    BY <2>2 DEF Ids, SharedIdOnlyIfOvertaken
<1>2. CASE StopRefused \/ Stop \/ UNCHANGED vars
  BY <1>2, IdsUnchanged DEF StopRefused, Stop, vars, mntVars, histVars
<1>3. ASSUME NEW m \in MountPoints, MountBegin(m) PROVE Ids'
  <2>1. Mounted' = Mounted /\ \A n \in Mounted : mnt'[n] = mnt[n]
    BY <1>3 DEF MountBegin, Mounted, mntVars
  <2>2. mountId' = mountId + 1 /\ \A n \in Mounted : mnt[n].id < mountId'
    BY <1>0, <1>3 DEF MountBegin, IInv, Ids
  <2>3. m \notin Mounted /\ pc[m] = "idle"
    BY <1>3 DEF MountBegin, InUse, Busy
  <2>4. overtaken \subseteq overtaken' \union {m}
    BY <1>3 DEF MountBegin
  <2>5. \A n \in MountPoints \ overtaken' : pc'[n] = "readid" => n = m
    BY <1>3 DEF MountBegin, Goto, IInv, TypeOK
  <2>6. SharedIdOnlyIfOvertaken'
    BY <2>1, <2>3, <2>4 DEF SharedIdOnlyIfOvertaken, IInv, Ids
  <2>7. \A n \in Mounted' : mnt'[n].id <= mountId'
    BY <1>0, <2>1, <2>2
  <2> QED
    BY <2>1, <2>2, <2>5, <2>6, <2>7 DEF Ids
<1>4. ASSUME NEW m \in MountPoints, ReadId(m) PROVE Ids'
  <2>1. /\ pc[m] = "readid" /\ mountId' = mountId /\ overtaken' = overtaken
        /\ mnt' = [mnt EXCEPT ![m] = [id |-> mountId, name |-> 0]]
        /\ pc' = [pc EXCEPT ![m] = "count"]
    BY <1>4 DEF ReadId, Goto, histVars
  <2>2. mnt'[m].id = mountId /\ \A n \in MountPoints : n # m => mnt'[n] = mnt[n]
    BY <2>1 DEF IInv, TypeOK
  <2>3. /\ Mounted' \subseteq Mounted \union {m} /\ m \notin Mounted
        /\ Mounted \subseteq MountPoints
    BY <2>1, <2>2 DEF Mounted, IInv, Control
  <2>4. \A n \in MountPoints : pc'[n] = "readid" => n # m /\ pc[n] = "readid"
    BY <2>1 DEF IInv, TypeOK
  <2>5. m \notin overtaken =>
          \A n \in Mounted \ overtaken : mnt[n].id < mountId
    BY <2>1 DEF IInv, Ids
  <2>6. SharedIdOnlyIfOvertaken'
    <3> SUFFICES ASSUME NEW a \in Mounted', NEW b \in Mounted', a # b,
                        a \notin overtaken, b \notin overtaken
                 PROVE  mnt'[a].id # mnt'[b].id
      BY <2>1 DEF SharedIdOnlyIfOvertaken
    <3>1. CASE a # m /\ b # m
      BY <3>1, <2>2, <2>3 DEF IInv, Ids, SharedIdOnlyIfOvertaken
    <3>2. CASE a = m
      BY <3>2, <1>0, <2>2, <2>3, <2>5
    <3>3. CASE b = m
      BY <3>3, <1>0, <2>2, <2>3, <2>5
    <3> QED
      BY <3>1, <3>2, <3>3
  <2>7. \A n \in Mounted' : mnt'[n].id <= mountId'
    BY <1>0, <2>1, <2>2, <2>3 DEF IInv, Ids
  <2>8. \A k \in MountPoints \ overtaken' : pc'[k] = "readid" =>
          /\ \A n \in Mounted' \ overtaken' : mnt'[n].id < mountId'
          /\ \A n \in MountPoints \ overtaken' : pc'[n] = "readid" => n = k
    <3> SUFFICES ASSUME NEW k \in MountPoints \ overtaken, pc'[k] = "readid"
                 PROVE  /\ \A n \in Mounted' \ overtaken : mnt'[n].id < mountId
                        /\ \A n \in MountPoints \ overtaken : pc'[n] = "readid" => n = k
      BY <2>1
    <3>1. k # m /\ pc[k] = "readid"
      BY <2>4
    <3>2. m \in overtaken
      BY <3>1, <2>1 DEF IInv, Ids
    <3> QED
      BY <3>1, <3>2, <2>2, <2>3, <2>4 DEF IInv, Ids
  <2> QED
    BY <2>6, <2>7, <2>8 DEF Ids
<1>5. ASSUME NEW m \in MountPoints, NameInstance(m) PROVE Ids'
  <2>1. mnt[m] # None /\ mnt[m] \in Instance
    BY <1>5 DEF NameInstance, IInv, Control, TypeOK
  <2>2. \A n \in MountPoints : mnt'[n] # None => mnt[n] # None /\ mnt'[n].id = mnt[n].id
    BY <1>5, <2>1 DEF NameInstance, IInv, TypeOK, Instance
  <2>3. \A n \in MountPoints : pc'[n] = "readid" => pc[n] = "readid"
    BY <1>5 DEF NameInstance, Goto, IInv, TypeOK
  <2> QED
    BY <1>5, <2>2, <2>3, IdsUnchanged DEF NameInstance, histVars
<1>6. ASSUME NEW m \in MountPoints,
             CountInstance(m) \/ StructureInit(m) \/ StructureBuild(m) \/ MountEnd(m)
      PROVE  Ids'
  <2>1. UNCHANGED <<mountId, overtaken, mnt>>
    BY <1>6 DEF CountInstance, StructureInit, StructureBuild, MountEnd, histVars, mntVars
  <2>2. \A n \in MountPoints : pc'[n] = "readid" => pc[n] = "readid"
    BY <1>6 DEF CountInstance, StructureInit, StructureBuild, MountEnd, Goto, IInv, TypeOK
  <2> QED
    BY <2>1, <2>2, IdsUnchanged
<1>7. ASSUME NEW m \in MountPoints, Unmount(m) PROVE Ids'
  <2>1. UNCHANGED <<mountId, overtaken>>
    BY <1>7 DEF Unmount, UnmountBegin, Uncount, StructureFree, StructureRelease,
                StructureClear, histVars
  <2>2. \A n \in MountPoints : pc'[n] = "readid" => pc[n] = "readid"
    BY <1>7 DEF Unmount, UnmountBegin, Uncount, StructureFree, StructureRelease,
                StructureClear, Goto, IInv, TypeOK
  <2>3. \A n \in MountPoints : mnt'[n] # None => mnt[n] # None /\ mnt'[n].id = mnt[n].id
    BY <1>7 DEF Unmount, UnmountBegin, Uncount, StructureFree, StructureRelease,
                StructureClear, mntVars, IInv, TypeOK
  <2> QED
    BY <2>1, <2>2, <2>3, IdsUnchanged
<1>8. ASSUME NEW m \in MountPoints, Lookup(m) \/ Reclaim(m) PROVE Ids'
  BY <1>8, IdsUnchanged DEF Lookup, Reclaim, histVars
<1> QED
  BY <1>1, <1>2, <1>3, <1>4, <1>5, <1>6, <1>7, <1>8 DEF Next, Mount

\* The two OSAddAtomic steps move an instance into and out of Counted; no other
\* step does.
LEMMA CountsStep == IInv /\ [Next]_vars => Counts'
<1> SUFFICES ASSUME IInv, [Next]_vars PROVE Counts'
  OBVIOUS
<1> USE DEF Counts
<1>0. IsFiniteSet(Counted) /\ instances = Cardinality(Counted)
  <2>1. Counted \in SUBSET MountPoints
    BY DEF Counted
  <2> QED
    BY <2>1, PointsFinite DEF IInv
<1>1. CASE Start
  <2>1. Mounted = {} /\ Busy = {}
    BY <1>1, NothingMounted DEF Start
  <2>2. Counted' = {}
    BY <1>1, <2>1 DEF Start, Mounted, Busy, Counted, mntVars
  <2> QED
    BY <1>1, <2>2, FS_EmptySet DEF Start, FreshGlobals
<1>2. CASE StopRefused \/ Stop \/ UNCHANGED vars
  BY <1>2, <1>0 DEF StopRefused, Stop, vars, mntVars, Counted
<1>3. ASSUME NEW m \in MountPoints, CountInstance(m) PROVE Counts'
  <2>1. Counted' = Counted \union {m} /\ m \notin Counted
    BY <1>3 DEF CountInstance, Goto, mntVars, Counted, IInv, TypeOK
  <2> QED
    BY <1>0, <1>3, <2>1, FS_AddElement DEF CountInstance
<1>4. ASSUME NEW m \in MountPoints, Uncount(m) PROVE Counts'
  <2>1. Counted' = Counted \ {m} /\ m \in Counted
    BY <1>4 DEF Uncount, Goto, mntVars, Counted, IInv, TypeOK, Control
  <2> QED
    BY <1>0, <1>4, <2>1, FS_RemoveElement DEF Uncount
<1>5. ASSUME NEW m \in MountPoints, MountBegin(m) \/ ReadId(m) \/ NameInstance(m)
               \/ StructureInit(m) \/ StructureBuild(m) \/ MountEnd(m)
      PROVE  Counts'
  <2>1. instances' = instances
    BY <1>5 DEF MountBegin, ReadId, NameInstance, StructureInit, StructureBuild, MountEnd
  <2>2. CASE MountBegin(m)
    BY <1>0, <2>1, <2>2 DEF MountBegin, Goto, mntVars, Counted, IInv, TypeOK,
                            InUse, Mounted, Busy
  <2>3. CASE ReadId(m) \/ NameInstance(m)
    BY <1>0, <2>1, <2>3 DEF ReadId, NameInstance, Goto, Counted, IInv, TypeOK
  <2>4. CASE StructureInit(m) \/ StructureBuild(m) \/ MountEnd(m)
    BY <1>0, <2>1, <2>4 DEF StructureInit, StructureBuild, MountEnd, Goto, mntVars, Counted,
                            IInv, TypeOK, Control
  <2> QED
    BY <1>5, <2>2, <2>3, <2>4
<1>6. ASSUME NEW m \in MountPoints, UnmountBegin(m) \/ StructureFree(m)
               \/ StructureRelease(m) \/ StructureClear(m)
      PROVE  Counts'
  <2>1. instances' = instances
    BY <1>6 DEF UnmountBegin, StructureFree, StructureRelease, StructureClear
  <2>2. CASE UnmountBegin(m)
    BY <1>0, <2>1, <2>2 DEF UnmountBegin, Goto, Counted, IInv, TypeOK
  <2>3. CASE StructureFree(m) \/ StructureRelease(m) \/ StructureClear(m)
    BY <1>0, <2>1, <2>3 DEF StructureFree, StructureRelease, StructureClear, Goto, mntVars,
                            Counted, IInv, TypeOK, Control
  <2> QED
    BY <1>6, <2>2, <2>3
<1>7. ASSUME NEW m \in MountPoints, Lookup(m) \/ Reclaim(m) PROVE Counts'
  BY <1>0, <1>7 DEF Lookup, Reclaim, Counted
<1> QED
  BY <1>1, <1>2, <1>3, <1>4, <1>5, <1>6, <1>7 DEF Next, Mount, Unmount

\* procfs_stop removes the services only when nothing is in use; MountEnd is the
\* step after which an instance is used, and it made the buckets.
LEMMA ServicesStep == IInv /\ [Next]_vars => Services'
<1> SUFFICES ASSUME IInv, [Next]_vars PROVE Services'
  OBVIOUS
<1> USE DEF Services, ServicesWhileMounted, InUse
<1>1. CASE Start
  <2>1. Mounted = {} /\ Busy = {}
    BY <1>1, NothingMounted DEF Start
  <2>2. Mounted' = {} /\ Busy' = {}
    BY <1>1, <2>1 DEF Start, Mounted, Busy, mntVars
  <2> QED
    BY <1>1, <2>2 DEF Start
<1>2. CASE StopRefused \/ Stop \/ UNCHANGED vars
  <2>1. Mounted' = Mounted /\ Busy' = Busy
    BY <1>2 DEF StopRefused, Stop, vars, Mounted, Busy, mntVars
  <2> QED
    BY <1>2, <2>1 DEF StopRefused, Stop, vars, kextVars, IInv
<1>3. ASSUME NEW m \in MountPoints, Mount(m) PROVE Services'
  <2>1. /\ UNCHANGED <<loaded, tag, registered>>
        /\ (pc[m] = "idle" => registered)
        /\ (buckets => buckets')
        /\ Busy' \subseteq Busy \union {m}
        /\ Mounted' \subseteq Mounted \union {m}
    BY <1>3 DEF Mount, MountBegin, ReadId, CountInstance, NameInstance, StructureInit,
                StructureBuild, MountEnd, kextVars, mntVars, Goto, Mounted, Busy, IInv, TypeOK
  <2>2. loaded /\ tag /\ registered
    <3>1. pc[m] # "idle" => m \in Busy
      BY DEF Busy
    <3> QED
      BY <2>1, <3>1 DEF IInv
  <2>3. CASE MountEnd(m)
    BY <2>1, <2>2, <2>3 DEF MountEnd
  <2>4. CASE ~MountEnd(m)
    <3>1. pc'[m] # "idle"
      BY <1>3, <2>4 DEF Mount, MountBegin, ReadId, CountInstance, NameInstance,
                        StructureInit, StructureBuild, Goto, IInv, TypeOK
    <3>2. \A n \in MountPoints : n # m => pc'[n] = pc[n] /\ mnt'[n] = mnt[n]
      BY <1>3 DEF Mount, MountBegin, ReadId, CountInstance, NameInstance, StructureInit,
                  StructureBuild, MountEnd, Goto, mntVars, IInv, TypeOK
    <3>3. Mounted' \ Busy' \subseteq Mounted \ Busy
      BY <3>1, <3>2 DEF Mounted, Busy
    <3> QED
      BY <2>1, <2>2, <3>3 DEF IInv
  <2> QED
    BY <2>3, <2>4
<1>4. ASSUME NEW m \in MountPoints, Unmount(m) PROVE Services'
  <2>1. UNCHANGED <<kextVars, buckets>>
    BY <1>4 DEF Unmount, UnmountBegin, Uncount, StructureFree, StructureRelease,
                StructureClear
  <2>2. m \in Mounted \union Busy
    BY <1>4 DEF Unmount, UnmountBegin, Uncount, StructureFree, StructureRelease,
                StructureClear, Mounted, Busy
  <2>3. mnt'[m] = None
    BY <1>4 DEF Unmount, UnmountBegin, Uncount, StructureFree, StructureRelease,
                StructureClear, mntVars, IInv, TypeOK, Control
  <2>4. \A n \in MountPoints : n # m => pc'[n] = pc[n] /\ mnt'[n] = mnt[n]
    BY <1>4 DEF Unmount, UnmountBegin, Uncount, StructureFree, StructureRelease,
                StructureClear, Goto, mntVars, IInv, TypeOK
  <2>5. Mounted' \ Busy' \subseteq Mounted \ Busy
    BY <2>3, <2>4 DEF Mounted, Busy
  <2> QED
    BY <2>1, <2>2, <2>5 DEF kextVars, IInv
<1>5. ASSUME NEW m \in MountPoints, Lookup(m) \/ Reclaim(m) PROVE Services'
  <2>1. UNCHANGED <<kextVars, buckets, mnt, pc>>
    BY <1>5 DEF Lookup, Reclaim
  <2> QED
    BY <2>1 DEF kextVars, Mounted, Busy, IInv
<1> QED
  BY <1>1, <1>2, <1>3, <1>4, <1>5 DEF Next

\* A step outside the structure code: it takes no call into that code and leaves
\* every call to procfs_structure_free that is ahead.
LEMMA TreeUnchanged ==
    ASSUME IInv, met' # "structure" => met # "structure", UNCHANGED <<root, trees>>,
           \A n \in MountPoints : InStructure(n)' => pc[n] = pc'[n],
           \A n \in MountPoints :
               mnt[n] # None \/ pc[n] \in {"uncount", "free", "release"}
               => mnt'[n] # None \/ pc'[n] \in {"uncount", "free", "release"}
    PROVE  Tree'
<1>1. \A n \in MountPoints : InStructure(n)' => InStructure(n)
  BY DEF InStructure
<1> QED
  BY <1>1, Zenon DEF IInv, Tree, InStructure

\* procfs_structure_init and procfs_structure_free, one call at a time, keep
\* root_node and the allocated tree together.
LEMMA TreeStep == IInv /\ [Next]_vars => Tree'
<1> SUFFICES ASSUME IInv, [Next]_vars PROVE Tree'
  OBVIOUS
<1>0. trees \subseteq Nat /\ None \notin Nat
  BY NoneAssumption DEF IInv, TypeOK
<1>1. CASE Start
  <2>1. Mounted = {} /\ Busy = {}
    BY <1>1, NothingMounted DEF Start
  <2>2. met # "structure" => trees = {}
    BY <2>1 DEF Mounted, Busy, IInv, Tree
  <2>3. \A n \in MountPoints : pc'[n] = "idle"
    BY <1>1, <2>1 DEF Start, Busy
  <2> QED
    BY <1>1, <2>2, <2>3 DEF Start, histVars, Tree, InStructure
<1>2. CASE StopRefused \/ Stop \/ UNCHANGED vars
  BY <1>2, TreeUnchanged DEF StopRefused, Stop, vars, mntVars, histVars, treeVars
<1>3. ASSUME NEW m \in MountPoints, MountBegin(m) \/ ReadId(m) \/ CountInstance(m)
               \/ NameInstance(m) \/ MountEnd(m) \/ UnmountBegin(m) \/ Uncount(m)
      PROVE  Tree'
  <2>1. (met' # "structure" => met # "structure") /\ UNCHANGED <<root, trees>>
    BY <1>3 DEF MeetsCall, MountBegin, ReadId, CountInstance, NameInstance, MountEnd, UnmountBegin,
                Uncount, histVars, treeVars
  <2>2. /\ \A n \in MountPoints : n # m => pc'[n] = pc[n] /\ mnt'[n] = mnt[n]
        /\ ~InStructure(m)'
    BY <1>3 DEF MountBegin, ReadId, CountInstance, NameInstance, MountEnd, UnmountBegin,
                Uncount, Goto, mntVars, InStructure, IInv, TypeOK
  <2>3. mnt[m] # None \/ pc[m] \in {"uncount", "free", "release"}
        => mnt'[m] # None \/ pc'[m] \in {"uncount", "free", "release"}
    <3>1. CASE MountBegin(m) \/ ReadId(m)
      BY <3>1 DEF MountBegin, ReadId, Goto, mntVars, IInv, Control, InUse, Mounted, Busy
    <3>2. CASE CountInstance(m) \/ NameInstance(m) \/ MountEnd(m)
      <4>1. mnt'[m] # None
        BY <3>2, ControlStep DEF CountInstance, NameInstance, MountEnd, mntVars, Goto,
                                 Control, IInv, TypeOK
      <4> QED
        BY <4>1
    <3>3. CASE UnmountBegin(m) \/ Uncount(m)
      BY <3>3 DEF UnmountBegin, Uncount, Goto, IInv, TypeOK
    <3> QED
      BY <1>3, <3>1, <3>2, <3>3
  <2> QED
    BY <2>1, <2>2, <2>3, TreeUnchanged
<1>4. ASSUME NEW m \in MountPoints, StructureInit(m) \/ StructureFree(m) PROVE Tree'
  <2> SUFFICES ASSUME met' # "structure" PROVE Tree'
    BY DEF Tree
  <2>1. met # "structure" /\ \A n \in MountPoints : n # m => ~InStructure(n)
    BY <1>4 DEF StructureInit, StructureFree, Meets, IInv, TypeOK
  <2>2. UNCHANGED <<root, trees, mnt>>
    BY <1>4 DEF StructureInit, StructureFree, treeVars, mntVars
  <2>3. \A n \in MountPoints : n # m => pc'[n] = pc[n] /\ ~InStructure(n)'
    BY <1>4, <2>1 DEF StructureInit, StructureFree, Goto, InStructure, IInv, TypeOK
  <2>4. /\ (pc'[m] = "build" => root = None)
        /\ pc'[m] # "clear"
        /\ (trees # {} /\ mnt[m] = None => pc'[m] = "release")
    BY <1>0, <1>4, <2>1 DEF StructureInit, StructureFree, Goto, IInv, TypeOK, Tree, Control
  <2> QED
    BY <2>1, <2>2, <2>3, <2>4 DEF IInv, Tree, InStructure
<1>5. ASSUME NEW m \in MountPoints,
             StructureBuild(m) \/ StructureRelease(m) \/ StructureClear(m)
      PROVE  Tree'
  <2> SUFFICES ASSUME met' # "structure" PROVE Tree'
    BY DEF Tree
  <2>1. met # "structure" /\ mnt' = mnt /\ InStructure(m)
    BY <1>5 DEF StructureBuild, StructureRelease, StructureClear, InStructure, histVars, mntVars
  <2>2. \A n \in MountPoints : n # m => pc'[n] = pc[n] /\ ~InStructure(n) /\ ~InStructure(n)'
    BY <1>5, <2>1 DEF StructureBuild, StructureRelease, StructureClear, Goto, InStructure,
                      IInv, Tree, TypeOK
  <2>3. CASE StructureBuild(m)
    <3>1. trees' = {root'} /\ pc'[m] = "buckets" /\ mnt'[m] # None
      BY <1>0, <2>1, <2>3 DEF StructureBuild, Goto, IInv, TypeOK, Tree, Control
    <3> QED
      BY <2>2, <3>1 DEF Tree, InStructure
  <2>4. CASE StructureRelease(m)
    <3>1. trees' = {} /\ root' = root /\ pc'[m] = "clear"
      BY <2>1, <2>4 DEF StructureRelease, Goto, IInv, TypeOK, Tree
    <3> QED
      BY <2>2, <3>1 DEF Tree, InStructure
  <2>5. CASE StructureClear(m)
    <3>1. trees' = {} /\ pc'[m] = "idle"
      BY <2>1, <2>5 DEF StructureClear, Goto, IInv, TypeOK, Tree
    <3> QED
      BY <2>2, <3>1 DEF Tree, InStructure
  <2> QED
    BY <1>5, <2>3, <2>4, <2>5
<1>6. ASSUME NEW m \in MountPoints, Lookup(m) \/ Reclaim(m) PROVE Tree'
  BY <1>6, TreeUnchanged DEF Lookup, Reclaim, histVars, treeVars
<1> QED
  BY <1>1, <1>2, <1>3, <1>4, <1>5, <1>6 DEF Next, Mount, Unmount

\* Every step keeps the types; the range of the count follows from what it counts.
LEMMA TypeStep == IInv /\ [Next]_vars /\ Counts' => TypeOK'
<1> SUFFICES ASSUME IInv, [Next]_vars, Counts' PROVE TypeOK'
  OBVIOUS
<1>0. instances' \in 0 .. Cardinality(MountPoints)
  <2>1. Counted' \in SUBSET MountPoints
    BY DEF Counted
  <2> QED
    BY <2>1, PointsFinite DEF Counts
<1> DEFINE Steps == {"idle", "readid", "count", "name", "init", "build",
                     "buckets", "uncount", "free", "release", "clear"}
<1>1. CASE Start
  <2>1. mountId' \in Nat /\ root' \in {None} \union Nat
    BY <1>1 DEF Start, FreshGlobals
  <2> QED
    BY <1>0, <1>1, <2>1, Zenon DEF Start, FreshGlobals, mntVars, histVars, IInv, TypeOK
<1>2. CASE StopRefused \/ Stop \/ UNCHANGED vars
  BY <1>0, <1>2, Zenon
  DEF StopRefused, Stop, vars, kextVars, treeVars, mntVars, histVars, IInv, TypeOK
<1>3. ASSUME NEW m \in MountPoints, Mount(m) PROVE TypeOK'
  <2>1. pc' \in [MountPoints -> Steps]
    BY <1>3 DEF Mount, MountBegin, ReadId, CountInstance, NameInstance, StructureInit,
                StructureBuild, MountEnd, Goto, IInv, TypeOK
  <2>2. mnt' \in [MountPoints -> {None} \union Instance]
    <3>1. CASE ReadId(m)
      <4>1. [id |-> mountId, name |-> 0] \in Instance
        BY DEF Instance, IInv, TypeOK
      <4> QED
        BY <3>1, <4>1 DEF ReadId, IInv, TypeOK
    <3>2. CASE NameInstance(m)
      <4>1. mnt[m] \in Instance /\ instances \in Nat
        BY <3>2 DEF NameInstance, IInv, Control, TypeOK
      <4>2. [id |-> mnt[m].id, name |-> instances] \in Instance
        BY <4>1 DEF Instance
      <4> QED
        BY <3>2, <4>2 DEF NameInstance, IInv, TypeOK
    <3>3. CASE ~ReadId(m) /\ ~NameInstance(m)
      BY <1>3, <3>3 DEF Mount, MountBegin, CountInstance, StructureInit, StructureBuild,
                        MountEnd, mntVars, IInv, TypeOK
    <3> QED
      BY <3>1, <3>2, <3>3
  <2>3. mountId' \in Nat /\ nextTree' \in Nat /\ root' \in {None} \union Nat /\ trees' \subseteq Nat
    BY <1>3 DEF Mount, MountBegin, ReadId, CountInstance, NameInstance, StructureInit,
                StructureBuild, MountEnd, treeVars, IInv, TypeOK
  <2>4. /\ cached' \in [MountPoints -> SUBSET Nat]
        /\ overtaken' \subseteq MountPoints
        /\ UNCHANGED kextVars
    BY <1>3 DEF Mount, MountBegin, ReadId, CountInstance, NameInstance, StructureInit,
                StructureBuild, MountEnd, mntVars, histVars, IInv, TypeOK
  <2>5. buckets' \in BOOLEAN /\ met' \in {"none", "calls", "structure"}
    <3>1. (buckets' = buckets \/ buckets' = TRUE) /\ (met' = met \/ Meets(m) \/ MeetsCall)
      BY <1>3, Zenon DEF Mount, MountBegin, ReadId, CountInstance, NameInstance,
                         StructureInit, StructureBuild, MountEnd, histVars
    <3> QED
      BY <3>1 DEF Meets, MeetsCall, IInv, TypeOK
  <2> QED
    BY <1>0, <2>1, <2>2, <2>3, <2>4, <2>5, Zenon DEF kextVars, IInv, TypeOK
<1>4. ASSUME NEW m \in MountPoints, Unmount(m) PROVE TypeOK'
  <2>1. /\ pc' \in [MountPoints -> Steps]
        /\ mnt' \in [MountPoints -> {None} \union Instance]
        /\ cached' \in [MountPoints -> SUBSET Nat]
        /\ root' \in {None} \union Nat /\ trees' \subseteq Nat
        /\ UNCHANGED <<kextVars, buckets, mountId, nextTree, overtaken>>
    BY <1>4 DEF Unmount, UnmountBegin, Uncount, StructureFree, StructureRelease,
                StructureClear, Goto, treeVars, mntVars, histVars, IInv, TypeOK
  <2>2. met' \in {"none", "calls", "structure"}
    <3>1. met' = met \/ Meets(m) \/ MeetsCall
      BY <1>4, Zenon DEF Unmount, UnmountBegin, Uncount, StructureFree, StructureRelease,
                         StructureClear, histVars
    <3> QED
      BY <3>1 DEF Meets, MeetsCall, IInv, TypeOK
  <2> QED
    BY <1>0, <2>1, <2>2, Zenon DEF kextVars, IInv, TypeOK
<1>5. ASSUME NEW m \in MountPoints, Lookup(m) \/ Reclaim(m) PROVE TypeOK'
  <2>1. cached' \in [MountPoints -> SUBSET Nat]
    BY <1>5 DEF Lookup, Reclaim, IInv, TypeOK
  <2>2. UNCHANGED <<kextVars, buckets, mountId, instances, treeVars, mnt, pc, histVars>>
    BY <1>5 DEF Lookup, Reclaim
  <2> QED
    BY <1>0, <2>1, <2>2, Zenon DEF kextVars, treeVars, histVars, IInv, TypeOK
<1> QED
  BY <1>1, <1>2, <1>3, <1>4, <1>5 DEF Next

-----------------------------------------------------------------------------
(* The theorems.                                                           *)

\* The strengthened invariant holds in every reachable state, through any
\* sequence of loads, refused and successful unloads and overlapping mounts and
\* unmounts.
THEOREM IInvHolds == Spec => []IInv
<1>1. IInv /\ [Next]_vars => IInv'
  BY ControlStep, IdsStep, CountsStep, ServicesStep, TreeStep, TypeStep, Zenon DEF IInv
<1> QED
  BY <1>1, InitIInv, PTL DEF Spec

\* procfs_mount's increment and read of procfs_mount_id: instances mounted at the
\* same time share an id only if one of them was overtaken between the two,
\* whatever the number of mount points and the order of mounts and reloads.
THEOREM IdsAreSharedOnlyIfOvertaken == Spec => []SharedIdOnlyIfOvertaken
<1>1. IInv => SharedIdOnlyIfOvertaken
  BY DEF IInv, Ids
<1> QED
  BY <1>1, IInvHolds, PTL

\* The tables and counters of procfs_init, procfs_mount and procfs_structure_init
\* keep their types; mounted_instance_count stays in its range.
THEOREM TypesAreKept == Spec => []TypeOK
<1>1. IInv => TypeOK
  BY DEF IInv
<1> QED
  BY <1>1, IInvHolds, PTL

\* procfs_mount and procfs_unmount: whenever none of them runs,
\* mounted_instance_count is the number of mounted instances.
THEOREM InstancesAreExact == Spec => []InstancesExact
<1>1. IInv => InstancesExact
  <2> SUFFICES ASSUME IInv, Busy = {} PROVE instances = Cardinality(Mounted)
    BY DEF InstancesExact
  <2>1. Counted = Mounted
    BY DEF Counted, Mounted, Busy
  <2> QED
    BY <2>1 DEF IInv, Counts
<1> QED
  BY <1>1, IInvHolds, PTL

\* procfs_stop and procfs_fini: while an instance is in use, the tag, the lock and
\* the registration exist, and the hash buckets once its mount returned.
THEOREM ServicesLastWhileMounted == Spec => []ServicesWhileMounted
<1>1. IInv => ServicesWhileMounted
  BY DEF IInv, Services
<1> QED
  BY <1>1, IInvHolds, PTL

\* procfs_structure_init and procfs_structure_free: as long as no two calls meet
\* in them, at most one tree is allocated, and none once nothing is mounted.
THEOREM TreesDoNotLeak == Spec => []NoTreeLeak
<1>1. IInv => NoTreeLeak
  BY DEF IInv, Tree, NoTreeLeak, InUse, Mounted, Busy
<1> QED
  BY <1>1, IInvHolds, PTL
=============================================================================
