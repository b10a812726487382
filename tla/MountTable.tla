------------------------------ MODULE MountTable ------------------------------
(***************************************************************************)
(* Loading the kernel extension (kext/procfs.c), mounting and unmounting   *)
(* instances of the file system (kext/procfs_vfsops.c) and the shared tree *)
(* of structure nodes (kext/procfs_structure.c) that the pfsnodes of every *)
(* instance point into.                                                    *)
(*                                                                         *)
(* The lock that the comment on procfs_mount relies on, mnt_rwlock,        *)
(* belongs to one mount, so calls for different mount points run           *)
(* concurrently: each is a sequence of steps that ends where it reads or   *)
(* writes a global of the extension.  A failed mount (ENOMEM) and an       *)
(* update of a mounted instance change nothing.  The history variables     *)
(* overtaken and met record where two calls met; no guard reads them.      *)
(***************************************************************************)
EXTENDS Naturals, FiniteSets

CONSTANTS
    MountPoints,  \* directories procfs can be mounted on
    MaxTrees,     \* bound: trees of structure nodes ever built
    None

\* What a mount keeps: pmnt_id, and the number in f_mntfromname.
Instance == [id : Nat, name : Nat]

ASSUME MountPointsAssumption == IsFiniteSet(MountPoints)
ASSUME MaxTreesAssumption == MaxTrees \in Nat
ASSUME NoneAssumption == None \notin Nat /\ None \notin Instance

VARIABLES
    loaded,      \* the extension is in the kernel
    tag,         \* procfs_osmalloc_tag, the lock group and the hash mutex exist
    registered,  \* procfs_vfs_table_ref: the file system is known to the VFS
    bridge,      \* g_ctl_ref: the kernel control is registered
    sysctl,      \* the procfs.linux sysctl is registered
    buckets,     \* pfsnode_hash_buckets exists
    mountId,     \* procfs_mount_id
    instances,   \* mounted_instance_count
    root,        \* root_node: the number of the tree, or None
    trees,       \* the trees of structure nodes that are allocated
    nextTree,    \* number of the next tree
    mnt,         \* mount point: its pfsmount_t and statfs, or None
    cached,      \* mount point: the trees its cached pfsnodes point into
    pc,          \* mount point: the next step of its mount or unmount
    overtaken,   \* history: mounts whose id another mount incremented in between
    met          \* history: where two calls ran at once so far

kextVars == <<loaded, tag, registered, bridge, sysctl>>
treeVars == <<root, trees, nextTree>>
mntVars == <<mnt, cached>>
histVars == <<overtaken, met>>
vars == <<kextVars, buckets, mountId, instances, treeVars, mntVars, pc, histVars>>

Mounted == {m \in MountPoints : mnt[m] # None}

\* The mount points a mount or an unmount is under way on.
Busy == {m \in MountPoints : pc[m] # "idle"}

\* The VFS counts an instance from before procfs_mount to after procfs_unmount.
InUse == Mounted \union Busy

Goto(m, step) == pc' = [pc EXCEPT ![m] = step]

Init ==
    /\ loaded = FALSE
    /\ tag = FALSE
    /\ registered = FALSE
    /\ bridge = FALSE
    /\ sysctl = FALSE
    /\ buckets = FALSE
    /\ mountId = 0
    /\ instances = 0
    /\ root = None
    /\ trees = {}
    /\ nextTree = 1
    /\ mnt = [m \in MountPoints |-> None]
    /\ cached = [m \in MountPoints |-> {}]
    /\ pc = [m \in MountPoints |-> "idle"]
    /\ overtaken = {}
    /\ met = "none"

-----------------------------------------------------------------------------
(* procfs_start and procfs_stop.                                           *)

\* The globals of an extension that was unloaded are gone with it; what it
\* did not free stays allocated.
FreshGlobals ==
    /\ mountId' = 0
    /\ instances' = 0
    /\ root' = None
    /\ buckets' = FALSE

\* procfs_init, vfs_fsadd, procfs_ctl_register (a failure is not fatal) and
\* procfs_sysctl_register.
Start ==
    /\ ~loaded
    /\ loaded' = TRUE
    /\ tag' = TRUE
    /\ registered' = TRUE
    /\ bridge' \in BOOLEAN
    /\ sysctl' = TRUE
    /\ FreshGlobals
    /\ UNCHANGED <<trees, nextTree, mntVars, pc, histVars>>

\* procfs_stop: the sysctl and the bridge go first, then the registration,
\* which the VFS refuses while an instance is in use.
StopRefused ==
    /\ loaded
    /\ InUse # {}
    /\ sysctl' = FALSE
    /\ bridge' = FALSE
    /\ UNCHANGED <<loaded, tag, registered, buckets, mountId, instances, treeVars,
                   mntVars, pc, histVars>>

\* Mutant: the result of vfs_fsremove is not looked at.
StopAnyway ==
    /\ loaded
    /\ sysctl' = FALSE
    /\ bridge' = FALSE
    /\ registered' = FALSE
    /\ tag' = FALSE
    /\ loaded' = FALSE
    /\ UNCHANGED <<buckets, mountId, instances, treeVars, mntVars, pc, histVars>>

Stop ==
    /\ loaded
    /\ InUse = {}
    /\ sysctl' = FALSE
    /\ bridge' = FALSE
    /\ registered' = FALSE
    /\ tag' = FALSE
    /\ loaded' = FALSE
    /\ UNCHANGED <<buckets, mountId, instances, treeVars, mntVars, pc, histVars>>

-----------------------------------------------------------------------------
(* procfs_mount.                                                           *)

\* A call begins while another one runs.
MeetsCall == met' = IF met = "none" /\ Busy # {} THEN "calls" ELSE met

\* OSAddAtomic on procfs_mount_id.  The mounts that have incremented it and
\* not yet read it back are overtaken.
MountBegin(m) ==
    /\ registered
    /\ m \notin InUse
    /\ nextTree <= MaxTrees
    /\ mountId' = mountId + 1
    /\ overtaken' = (overtaken \ {m}) \union {n \in MountPoints : pc[n] = "readid"}
    /\ Goto(m, "readid")
    /\ MeetsCall
    /\ UNCHANGED <<kextVars, buckets, instances, treeVars, mntVars>>

\* Mutant: the id is made from the count of instances, as the name is.
ReadCountAsId(m) ==
    /\ pc[m] = "readid"
    /\ mnt' = [mnt EXCEPT ![m] = [id |-> instances + 1, name |-> 0]]
    /\ Goto(m, "count")
    /\ UNCHANGED <<kextVars, buckets, mountId, instances, treeVars, cached, histVars>>

\* pmnt_id is read from the global, and the private data is attached.
ReadId(m) ==
    /\ pc[m] = "readid"
    /\ mnt' = [mnt EXCEPT ![m] = [id |-> mountId, name |-> 0]]
    /\ Goto(m, "count")
    /\ UNCHANGED <<kextVars, buckets, mountId, instances, treeVars, cached, histVars>>

\* OSAddAtomic on mounted_instance_count.
CountInstance(m) ==
    /\ pc[m] = "count"
    /\ instances' = instances + 1
    /\ Goto(m, "name")
    /\ UNCHANGED <<kextVars, buckets, mountId, treeVars, mntVars, histVars>>

\* populate_statfs_info: the name is made from the count of instances.
NameInstance(m) ==
    /\ pc[m] = "name"
    /\ mnt' = [mnt EXCEPT ![m] = [id |-> mnt[m].id, name |-> instances]]
    /\ Goto(m, "init")
    /\ UNCHANGED <<kextVars, buckets, mountId, instances, treeVars, cached, histVars>>

\* A call tests root_node while another one is between its test of root_node and
\* its last write to it.
InStructure(n) == pc[n] \in {"build", "release", "clear"}

Meets(m) ==
    met' = IF \E n \in MountPoints : n # m /\ InStructure(n) THEN "structure" ELSE met

\* Mutant: the tree is built whether or not there is one.
StructureInitAlways(m) ==
    /\ pc[m] = "init"
    /\ Goto(m, "build")
    /\ Meets(m)
    /\ UNCHANGED <<kextVars, buckets, mountId, instances, treeVars, mntVars, overtaken>>

\* procfs_structure_init tests root_node without a lock...
StructureInit(m) ==
    /\ pc[m] = "init"
    /\ Goto(m, IF root = None THEN "build" ELSE "buckets")
    /\ Meets(m)
    /\ UNCHANGED <<kextVars, buckets, mountId, instances, treeVars, mntVars, overtaken>>

\* ... and then makes a tree of it.
StructureBuild(m) ==
    /\ pc[m] = "build"
    /\ root' = nextTree
    /\ trees' = trees \union {nextTree}
    /\ nextTree' = nextTree + 1
    /\ Goto(m, "buckets")
    /\ UNCHANGED <<kextVars, buckets, mountId, instances, mntVars, histVars>>

\* The hash buckets are made once, under pfsnode_hash_mutex; procfs_mount returns.
MountEnd(m) ==
    /\ pc[m] = "buckets"
    /\ buckets' = TRUE
    /\ Goto(m, "idle")
    /\ UNCHANGED <<kextVars, mountId, instances, treeVars, mntVars, histVars>>

-----------------------------------------------------------------------------
(* procfs_unmount.                                                         *)

\* vflush empties the cache of the instance; its private data is freed.
UnmountBegin(m) ==
    /\ pc[m] = "idle"
    /\ mnt[m] # None
    /\ cached' = [cached EXCEPT ![m] = {}]
    /\ mnt' = [mnt EXCEPT ![m] = None]
    /\ Goto(m, "uncount")
    /\ MeetsCall
    /\ UNCHANGED <<kextVars, buckets, mountId, instances, treeVars, overtaken>>

\* Mutant: the count is not decremented.
UncountNothing(m) ==
    /\ pc[m] = "uncount"
    /\ Goto(m, "free")
    /\ UNCHANGED <<kextVars, buckets, mountId, instances, treeVars, mntVars, histVars>>

\* OSAddAtomic on mounted_instance_count.
Uncount(m) ==
    /\ pc[m] = "uncount"
    /\ instances' = instances - 1
    /\ Goto(m, "free")
    /\ UNCHANGED <<kextVars, buckets, mountId, treeVars, mntVars, histVars>>

\* procfs_structure_free, whatever the count is: it tests root_node, ...
StructureFree(m) ==
    /\ pc[m] = "free"
    /\ Goto(m, IF root = None THEN "idle" ELSE "release")
    /\ Meets(m)
    /\ UNCHANGED <<kextVars, buckets, mountId, instances, treeVars, mntVars, overtaken>>

\* ... releases the tree that root_node now points to (a call that met another
\* may find it released or NULL by now: met says so, and what such a release
\* destroys is not followed) ...
StructureRelease(m) ==
    /\ pc[m] = "release"
    /\ trees' = trees \ {root}
    /\ Goto(m, "clear")
    /\ UNCHANGED <<kextVars, buckets, mountId, instances, root, nextTree, mntVars, histVars>>

\* ... and clears root_node; procfs_unmount returns.
StructureClear(m) ==
    /\ pc[m] = "clear"
    /\ root' = None
    /\ Goto(m, "idle")
    /\ UNCHANGED <<kextVars, buckets, mountId, instances, trees, nextTree, mntVars, histVars>>

-----------------------------------------------------------------------------
(* The nodes of a mounted instance.                                        *)

\* procfs_root, and every lookup below it: a pfsnode that points into the
\* current tree enters the table.
Lookup(m) ==
    /\ m \in Mounted \ Busy
    /\ root # None
    /\ cached' = [cached EXCEPT ![m] = @ \union {root}]
    /\ UNCHANGED <<kextVars, buckets, mountId, instances, treeVars, mnt, pc, histVars>>

\* The kernel reclaims vnodes of the instance.
Reclaim(m) ==
    /\ cached[m] # {}
    /\ cached' = [cached EXCEPT ![m] = {}]
    /\ UNCHANGED <<kextVars, buckets, mountId, instances, treeVars, mnt, pc, histVars>>

Mount(m) ==
    \/ MountBegin(m) \/ ReadId(m) \/ CountInstance(m) \/ NameInstance(m)
    \/ StructureInit(m) \/ StructureBuild(m) \/ MountEnd(m)

Unmount(m) ==
    \/ UnmountBegin(m) \/ Uncount(m)
    \/ StructureFree(m) \/ StructureRelease(m) \/ StructureClear(m)

Next ==
    \/ Start \/ StopRefused \/ Stop
    \/ \E m \in MountPoints :
         Mount(m) \/ Unmount(m) \/ Lookup(m) \/ Reclaim(m)

Spec == Init /\ [][Next]_vars

-----------------------------------------------------------------------------
(* Properties.                                                             *)

\* The globals of the extension and the private data of each mount have their
\* types; the count of instances never leaves the range of real counts.
TypeOK ==
    /\ loaded \in BOOLEAN /\ tag \in BOOLEAN /\ registered \in BOOLEAN
    /\ bridge \in BOOLEAN /\ sysctl \in BOOLEAN /\ buckets \in BOOLEAN
    /\ mountId \in Nat
    /\ instances \in 0 .. Cardinality(MountPoints)
    /\ nextTree \in Nat
    /\ root \in {None} \union Nat
    /\ trees \subseteq Nat
    /\ mnt \in [MountPoints -> {None} \union Instance]
    /\ cached \in [MountPoints -> SUBSET Nat]
    /\ pc \in [MountPoints -> {"idle", "readid", "count", "name", "init", "build",
                               "buckets", "uncount", "free", "release", "clear"}]
    /\ overtaken \subseteq MountPoints
    /\ met \in {"none", "calls", "structure"}

\* The comment on procfs_mount_id: "Each separate mount of the file system
\* requires a unique id", from which populate_statfs_info composes the fsid: no
\* two instances whose mounts have returned share one.
FsidUnique ==
    \A m, n \in Mounted \ Busy : m # n => mnt[m].id # mnt[n].id

\* procfs_mount increments procfs_mount_id atomically and reads it back in a
\* second step: two instances that are mounted at once share an id only when
\* one of the two was overtaken between those steps; otherwise ids are unique,
\* through any sequence of mounts, unmounts and reloads of the extension and
\* however the rest of the calls overlap.
SharedIdOnlyIfOvertaken ==
    \A m, n \in Mounted :
        m # n /\ mnt[m].id = mnt[n].id => {m, n} \cap overtaken # {}

\* Whenever no mount or unmount is under way, mounted_instance_count is the
\* number of mounted instances: calls that overlap and refused and successful
\* unloads lose no update of it.
InstancesExact == Busy = {} => instances = Cardinality(Mounted)

\* What the operations of a mounted instance use is there: the allocation tag
\* and the hash mutex (procfs_fini frees them) and the registration with the
\* VFS, also while a mount or unmount runs, and the hash buckets
\* (procfs_mount makes them) once the mount returned.
ServicesWhileMounted ==
    /\ InUse # {} => loaded /\ tag /\ registered
    /\ Mounted \ Busy # {} => buckets

\* procfs_structure_init and procfs_structure_free pair up as long as no two
\* calls meet in them, as their comments take for granted: at most one tree of
\* structure nodes is allocated, root_node points to it, and none is left once
\* the last instance is unmounted.
NoTreeLeak ==
    met # "structure" => /\ trees \subseteq {root}
                         /\ InUse = {} => trees = {}

\* The comment on procfs_structure_free: it is only called while the last
\* instance is being unmounted, so the nodes of a mounted instance never point
\* into a tree that was freed, at least if no two calls ever ran at once.
StructureOutlivesMounts ==
    met = "none" => \A m \in Mounted \ Busy : root # None /\ cached[m] \subseteq trees

=============================================================================
