------------------------------ MODULE Directory ------------------------------
(***************************************************************************)
(* Names and directories (kext/procfs_vnops.c): procfs_vnop_lookup,        *)
(* procfs_vnop_readdir and procfs_sysctl_readdir over the structure tree   *)
(* (kext/procfs_structure.c), the sysctl mirror (kext/procfs_sysctl.c) and *)
(* the lists of processes, threads and descriptors (kext/procfs_subr.c).   *)
(*                                                                         *)
(* One process scans one directory, call after call, while processes,      *)
(* threads, descriptors, sysctls and the settings change between any two   *)
(* of its steps.  A scan changes nothing the others see, so one scan at a  *)
(* time is general.                                                        *)
(***************************************************************************)
EXTENDS Integers, Sequences, FiniteSets

CONSTANTS
    Pids,        \* process ids; the code walks 0..PROCFS_MAX_PID
    Running,     \* the processes at the start
    MaxProcs,    \* PROCFS_MAX_PROCS
    Comms,       \* command names
    Hardened,    \* the commands task_for_pid is denied for
    Fds, Tids,   \* descriptors and thread ids of a process
    MaxObjects,  \* PROCFS_CTL_MAXPAYLOAD / 8: what one answer of the daemon holds
    IntMax,      \* the largest int, 2^31 - 1; a thread id has 64 bits
    Oids,        \* leaves of "kern" a kext can register and unregister
    OidNames,    \* their names
    LongNames,   \* words whose directory entry is one unit longer
    Bufs,        \* sizes of the buffer of getdirentries
    MaxChanges   \* bound: changes of the system during the scan

ASSUME PidsAssumption ==
    /\ Running \subseteq Pids /\ Pids \subseteq Nat /\ IsFiniteSet(Pids)
    /\ MaxProcs \in Nat \ {0} /\ Comms # {}
ASSUME ObjectsAssumption ==
    /\ Fds \subseteq Nat /\ IsFiniteSet(Fds)
    /\ Tids \subseteq Nat \ {0} /\ IsFiniteSet(Tids)
    /\ MaxObjects \in Nat
\* Process ids and descriptors are ints.
ASSUME IntAssumption == IntMax \in Nat /\ Pids \cup Fds \subseteq 0 .. IntMax
\* The oids of "kern" have names of their own, and are not one of the three
\* oids written as numbers below.
ASSUME OidsAssumption ==
    /\ Oids \subseteq 1 .. 99
    /\ \A o, q \in Oids : OidNames[o] = OidNames[q] => o = q
    /\ \A o \in Oids : OidNames[o] \notin {".", "..", "random"}
\* A buffer has room for the largest entry.
ASSUME BufsAssumption == Bufs \subseteq Nat \ (0 .. 4) /\ MaxChanges \in Nat

VARIABLES
    live,      \* the processes
    denied,    \* the processes of other users (when access is checked)
    comm,      \* process: its command name
    fds,       \* process: its open descriptors
    tids,      \* process: its threads
    release,   \* the spoofed release: "off", "2.4" (ksyms) or "2.6" (kallsyms)
    daemon,    \* procfsd answers
    oids,      \* the registered oids below "kern"
    checked,   \* the caller is not root and the mount checks access
    changes,   \* changes so far
    pc,        \* the scan: "idle", "walk", "scan", "emit", "done"
    dir,       \* node id of the directory
    trusts,    \* the caller stops at eofflag, not only at an empty answer
    buf,       \* size of its buffer
    startpos,  \* uio_offset at the start of the call
    nextpos,
    resid,     \* uio_resid
    child,     \* index of snode (of the oid in /proc/sys)
    probe,     \* procfs_get_pids: the pids not tried yet
    list,      \* the pids, threads or descriptors still to be copied
    count,     \* numdirent
    error,
    listed,    \* the entries the scan has returned, in order
    steady,    \* history: entries there since the start with nothing before
               \* them gone
    pushed     \* history: entries that came, or that something came before

systemVars == <<live, denied, comm, fds, tids, release, daemon, oids, checked>>
historyVars == <<steady, pushed>>
callVars == <<startpos, nextpos, resid, child, probe, list, count, listed>>
scanVars == <<pc, dir, trusts, buf, callVars, error>>
vars == <<systemVars, changes, scanVars, historyVars>>

-----------------------------------------------------------------------------
(* The structure tree.  A structure node's base id is written as its name. *)

Releases == {"off", "2.4", "2.6"}
NoPid == -1
NoObject == 0
Node(base, pid, object) == [base |-> base, pid |-> pid, object |-> object]

\* A name: the number it starts with (-1 when none) and the rest.
Word(w) == [num |-> -1, word |-> w]
Number(n) == [num |-> n, word |-> ""]
DirName(p) == [num |-> p, word |-> comm[p]]

\* procfs_atoi: the number of a name as an int, which wraps around.
Atoi(num) ==
    IF num <= IntMax THEN num
    ELSE LET low == num % (2 * IntMax + 2)
         IN  IF low <= IntMax THEN low ELSE low - (2 * IntMax + 2)

\* The children of a directory in the order procfs_structure_init adds them;
\* the entry that stands for processes, threads or descriptors is the last.
Children(base) ==
    CASE base = "root" -> <<".", "..", "byname", "ksyms", "kallsyms", "sys", "__Process__">>
      [] base = "byname" -> <<".", "..", "__Process_N__">>
      [] base = "__Process__" -> <<".", "..", "fd", "threads", "status">>
      [] base = "fd" -> <<".", "..", "__File__">>
      [] base = "threads" -> <<".", "..", "__Thread__">>
      [] base = "__Thread__" -> <<".", "..", "info">>
DirBases == {"root", "byname", "__Process__", "fd", "threads", "__Thread__"}
StructureParent(base) ==
    CASE base \in {"fd", "threads"} -> "__Process__"
      [] base = "__Thread__" -> "threads"
      [] OTHER -> "root"
ProcessNodes == {"__Process__", "fd", "threads", "__Thread__"}
ThreadNodes == {"__Thread__"}
ProcessLists == {"__Process__", "__Process_N__"}
Dynamic == ProcessLists \cup {"__File__", "__Thread__"}

\* Node id of the parent, from the flags of its structure node.
ParentId(d) ==
    LET base == StructureParent(d.base)
    IN  Node(base, IF base \in ProcessNodes THEN d.pid ELSE NoPid,
                   IF base \in ThreadNodes THEN d.object ELSE NoObject)

Hidden(w) ==
    \/ release = "2.4" /\ w = "kallsyms"
    \/ release = "2.6" /\ w = "ksyms"

\* procfs_check_can_access_proc_pid: a process that is gone is not accessible.
CanAccess(p) == p \in live \ denied

MayShow(p) == p = NoPid \/ ~checked \/ CanAccess(p)

\* In units of 8 bytes: 24 and the name with its NUL, rounded up.
DirentSize(name) == IF name.word \in LongNames THEN 5 ELSE 4

-----------------------------------------------------------------------------
(* The sysctl mirror.  Object 0 is /proc/sys, Kern the oid "kern", Random  *)
(* the synthetic directory grafted below it with its leaf Uuid.            *)

Kern == 100
Random == 101
Uuid == 102
OidName(o) ==
    CASE o = Kern -> "kern" [] o = Random -> "random" [] o = Uuid -> "uuid" [] OTHER -> OidNames[o]
SysDirs == {NoObject, Kern, Random}

SysChildren(object) ==
    CASE object = NoObject -> {Kern}
      [] object = Kern -> oids \cup {Random}
      [] object = Random -> {Uuid}
      [] OTHER -> {}

\* procfs_sysctl_child_at: the child with this many before it, none past the end.
SysChildAt(object, index) ==
    {o \in SysChildren(object) : Cardinality({q \in SysChildren(object) : q < o}) = index}

\* Mutant: the grafted directory is listed but not found.
SysFindNoGraft(object, word) ==
    LET found == {o \in SysChildren(object) \ {Random} : OidName(o) = word}
    IN  IF found = {} THEN NoObject ELSE CHOOSE o \in found : TRUE

\* procfs_sysctl_find; 0 when there is no such child.
SysFind(object, word) ==
    LET w == IF object = NoObject /\ word = "kernel" THEN "kern" ELSE word
        found == {o \in SysChildren(object) : OidName(o) = w}
    IN  IF found = {} THEN NoObject ELSE CHOOSE o \in found : TRUE

SysParent(object) ==
    CASE object = Random -> Kern
      [] object = Uuid -> Random
      [] object \in oids -> Kern
      [] OTHER -> NoObject

-----------------------------------------------------------------------------
(* procfs_vnop_lookup: the node id the name stands for in directory d, or  *)
(* NoNode for ENOENT.                                                      *)

NoNode == Node("none", NoPid, NoObject)

\* procfs_get_fd_list and procfs_get_thread_ids_for_task ask the daemon; its
\* answer has room for the first MaxObjects.
AllObjects(d, c) ==
    IF ~daemon \/ d.pid \notin live THEN {}
    ELSE IF c = "__File__" THEN fds[d.pid]
    ELSE IF comm[d.pid] \in Hardened THEN {} ELSE tids[d.pid]
Objects(d, c) ==
    LET all == AllObjects(d, c)
    IN  {n \in all : Cardinality({k \in all : k < n}) < MaxObjects}

\* The entry that stands for processes, threads or descriptors.
LookupDynamic(d, c, name) ==
    LET id == Atoi(name.num)
    IN  CASE c = "__File__"
               -> IF id \in Objects(d, c) THEN Node(c, d.pid, id) ELSE NoNode
          [] c = "__Process__"
               -> IF name.word = "" /\ id \in live /\ (checked => CanAccess(id))
                  THEN Node(c, id, d.object) ELSE NoNode
          [] c = "__Process_N__"
               -> IF id \in live /\ name = DirName(id) /\ (checked => CanAccess(id))
                  THEN Node(c, id, d.object) ELSE NoNode
          [] c = "__Thread__"
               -> IF /\ name.word = ""
                     /\ checked => CanAccess(d.pid)
                     /\ id \in Objects(d, c)
                  THEN Node(c, d.pid, id) ELSE NoNode

LookupSys(d, name) ==
    CASE name = Word(".") -> d
      [] name = Word("..") -> IF d.object = NoObject THEN ParentId(d)
                              ELSE Node("sys", NoPid, SysParent(d.object))
      [] OTHER -> LET o == SysFind(d.object, name.word)
                  IN  IF o = NoObject THEN NoNode ELSE Node("sys", NoPid, o)

Lookup(d, name) ==
    LET children == Children(d.base)
        last == children[Len(children)]
    IN  CASE d.base = "sys" -> LookupSys(d, name)
          [] d.base # "sys" /\ name = Word(".") -> d
          [] d.base # "sys" /\ name = Word("..") -> ParentId(d)
          [] OTHER -> IF \E i \in DOMAIN children : name = Word(children[i]) /\ ~Hidden(children[i])
                      THEN Node(name.word, d.pid, d.object)
                      ELSE IF last \in Dynamic THEN LookupDynamic(d, last, name) ELSE NoNode

-----------------------------------------------------------------------------
(* What a directory holds at an instant: what a scan would return if       *)
(* nothing changed.  An entry also has its place: the child it is, or      *)
(* stands below, and its number there.                                     *)

StaticId(d, c) ==
    CASE c = "." -> d
      [] c = ".." -> ParentId(d)
      [] OTHER -> Node(c, d.pid, d.object)

StaticEntry(d, i) ==
    LET c == Children(d.base)[i]
    IN  [slot |-> i, key |-> 0, name |-> Word(c), id |-> StaticId(d, c)]

DynamicEntry(d, i, n) ==
    LET c == Children(d.base)[i]
    IN  [slot |-> i, key |-> n,
         name |-> IF c = "__Process_N__" THEN DirName(n) ELSE Number(n),
         id |-> IF c \in ProcessLists THEN Node(c, n, NoObject) ELSE Node(c, d.pid, n)]

\* Both dots of /proc/sys carry the id of the directory itself.
SysDot(d, i) == [slot |-> i, key |-> 0, name |-> Word(IF i = 1 THEN "." ELSE ".."), id |-> d]
SysEntry(d, o) == [slot |-> 3, key |-> o, name |-> Word(OidName(o)), id |-> Node("sys", NoPid, o)]

VisiblePids == {p \in live : checked => CanAccess(p)}

\* What the child c stands for.
Members(d, c) == IF c \in ProcessLists THEN VisiblePids ELSE Objects(d, c)

SlotEntries(d, i) ==
    IF Children(d.base)[i] \in Dynamic
    THEN {DynamicEntry(d, i, n) : n \in Members(d, Children(d.base)[i])}
    ELSE {StaticEntry(d, i)}

Entries(d) ==
    IF d.base = "sys"
    THEN {SysDot(d, i) : i \in 1 .. 2} \cup {SysEntry(d, o) : o \in SysChildren(d.object)}
    ELSE UNION {SlotEntries(d, i) :
                   i \in {k \in DOMAIN Children(d.base) :
                             ~Hidden(Children(d.base)[k]) /\ MayShow(d.pid)}}

-----------------------------------------------------------------------------
(* The rest of the system.                                                 *)

OnSys == dir.base = "sys"
SNode == Children(dir.base)[child]

\* The entries before e.
Before(x, e) == x.slot < e.slot \/ (x.slot = e.slot /\ x.key < e.key)
Preceding(S, e) == {x \in S : Before(x, e)}

\* The entries the list of processes has room for.
Within(d) ==
    {e \in Entries(d) : d.base # "sys" /\ Children(d.base)[e.slot] \in ProcessLists
                           => Cardinality({p \in VisiblePids : p < e.key}) < MaxProcs}

\* What the call under way has in its list, as it would be copied now, and what
\* the directory holds.
Pending ==
    IF pc \notin {"scan", "emit"} THEN {}
    ELSE {DynamicEntry(dir, child, n) : n \in {k \in list : SNode = "__Process_N__" => k \in live}}
InView == Entries(dir) \cup Pending

Returned == {listed[i] : i \in DOMAIN listed}

\* What a change does to the history.  The children of an oid are found again by
\* their index in every step, so there whatever comes or goes moves those behind
\* it.
Observe ==
    IF pc \in {"idle", "done"} THEN UNCHANGED historyVars
    ELSE \E was \in {Entries(dir)}, is \in {Entries(dir)'}, saw \in {InView}, sees \in {InView'} :
             LET gone(e) == Preceding(was, e) \ is
                 new(e) == Preceding(sees, e) \ saw
             IN  /\ steady' = {e \in steady \cap Within(dir)' :
                                  gone(e) = {} /\ (OnSys => new(e) = {})}
                 /\ pushed' = pushed \cup (sees \ saw) \cup
                        {e \in sees \cup Returned :
                            new(e) # {} \/ (OnSys /\ gone(e) # {})}

\* A change of process p (or of none) that directories with these bases show.
\* What happens after the scan, or out of sight of the directory that is
\* scanned, makes no difference to the scan and is left out.
Change(bases, p) ==
    /\ pc # "done"
    /\ pc = "idle" \/ (dir.base \in bases /\ dir.pid \in {NoPid, p})
    /\ changes < MaxChanges
    /\ changes' = changes + 1
    /\ UNCHANGED <<scanVars, checked>>

Fork(p) ==
    /\ Change(DirBases, p)
    /\ p \notin live
    /\ live' = live \cup {p}
    /\ \E c \in Comms, t \in Tids, other \in {FALSE, checked} :
          /\ comm' = [comm EXCEPT ![p] = c]
          /\ tids' = [tids EXCEPT ![p] = {t}]
          /\ denied' = IF other THEN denied \cup {p} ELSE denied \ {p}
    /\ fds' = [fds EXCEPT ![p] = {}]
    /\ UNCHANGED <<release, daemon, oids>>
    /\ Observe

Exit(p) ==
    /\ Change(DirBases, p)
    /\ p \in live
    /\ live' = live \ {p}
    /\ UNCHANGED <<denied, comm, fds, tids, release, daemon, oids>>
    /\ Observe

\* execve, of a set-user-id program or not.
Exec(p) ==
    /\ Change(DirBases, p)
    /\ p \in live
    /\ \E c \in Comms \ {comm[p]} : comm' = [comm EXCEPT ![p] = c]
    /\ \E other \in {FALSE, checked} : denied' = IF other THEN denied \cup {p} ELSE denied
    /\ UNCHANGED <<live, fds, tids, release, daemon, oids>>
    /\ Observe

\* A descriptor is opened or closed.
ChangeFd(p, fd) ==
    /\ Change({"fd"}, p)
    /\ p \in live
    /\ fds' = [fds EXCEPT ![p] = IF fd \in @ THEN @ \ {fd} ELSE @ \cup {fd}]
    /\ UNCHANGED <<live, denied, comm, tids, release, daemon, oids>>
    /\ Observe

\* A thread starts or ends; the last one ends with the process.
ChangeThread(p, t) ==
    /\ Change({"threads"}, p)
    /\ p \in live
    /\ tids[p] # {t}
    /\ tids' = [tids EXCEPT ![p] = IF t \in @ THEN @ \ {t} ELSE @ \cup {t}]
    /\ UNCHANGED <<live, denied, comm, fds, release, daemon, oids>>
    /\ Observe

ChangeRelease(r) ==
    /\ Change({"root"}, NoPid)
    /\ r # release
    /\ release' = r
    /\ UNCHANGED <<live, denied, comm, fds, tids, daemon, oids>>
    /\ Observe

ChangeDaemon ==
    /\ Change({"fd", "threads"}, dir.pid)
    /\ daemon' = ~daemon
    /\ UNCHANGED <<live, denied, comm, fds, tids, release, oids>>
    /\ Observe

\* Another kext registers or unregisters an oid.
ChangeOid(o) ==
    /\ Change({"sys"}, NoPid)
    /\ oids' = IF o \in oids THEN oids \ {o} ELSE oids \cup {o}
    /\ UNCHANGED <<live, denied, comm, fds, tids, release, daemon>>
    /\ Observe

-----------------------------------------------------------------------------
(* procfs_vnop_readdir, and the caller's loop over it.                     *)

\* The directories a path leads to now; no path leads to a thread whose id is not
\* an int.
OpenDirs ==
    {Node("root", NoPid, NoObject), Node("byname", NoPid, NoObject)} \cup
    {Node("sys", NoPid, o) : o \in SysDirs} \cup
    {Node(b, p, NoObject) : b \in {"__Process__", "fd", "threads"}, p \in VisiblePids} \cup
    UNION {{Node("__Thread__", p, t) :
               t \in {n \in Objects(Node("threads", p, NoObject), "__Thread__") : n <= IntMax}} :
              p \in VisiblePids}

Open(d, b, t) ==
    /\ pc' = "walk"
    /\ dir' = d
    /\ buf' = b
    /\ trusts' = t
    /\ resid' = b
    /\ child' = 1
    /\ steady' = Within(d)
    /\ UNCHANGED <<systemVars, changes, startpos, nextpos, probe, list, count, error,
                   listed, pushed>>

\* Mutant: the offset is not set for the next call.
ReturnStuck(eofflag, err) ==
    /\ error' = err
    /\ pc' = IF err # "none" \/ count = 0 \/ (trusts /\ eofflag) THEN "done" ELSE "walk"
    /\ nextpos' = 0
    /\ resid' = buf
    /\ child' = 1
    /\ probe' = {}
    /\ list' = {}
    /\ count' = 0
    /\ UNCHANGED <<systemVars, changes, historyVars, dir, trusts, buf, startpos, listed>>

\* The end of a call.  The caller goes on until a call returns no entry.
Return(eofflag, err) ==
    /\ error' = err
    /\ pc' = IF err # "none" \/ count = 0 \/ (trusts /\ eofflag) THEN "done" ELSE "walk"
    /\ startpos' = nextpos
    /\ nextpos' = 0
    /\ resid' = buf
    /\ child' = 1
    /\ probe' = {}
    /\ list' = {}
    /\ count' = 0
    /\ UNCHANGED <<systemVars, changes, historyVars, dir, trusts, buf, listed>>

BeforeStart == nextpos < startpos

\* Mutant: no check that the entry fits.
CopyOutUnchecked(e) ==
    /\ nextpos' = nextpos + DirentSize(e.name)
    /\ IF BeforeStart THEN UNCHANGED <<resid, count, listed>>
       ELSE /\ resid' = resid - DirentSize(e.name)
            /\ count' = count + 1
            /\ listed' = Append(listed, e)
    /\ UNCHANGED <<systemVars, changes, historyVars, dir, trusts, buf, startpos, probe, error>>

\* procfs_copyout_dirent when the entry fits or is before the start position.
CopyOut(e) ==
    /\ BeforeStart \/ DirentSize(e.name) <= resid
    /\ nextpos' = nextpos + DirentSize(e.name)
    /\ IF BeforeStart THEN UNCHANGED <<resid, count, listed>>
       ELSE /\ resid' = resid - DirentSize(e.name)
            /\ count' = count + 1
            /\ listed' = Append(listed, e)
    /\ UNCHANGED <<systemVars, changes, historyVars, dir, trusts, buf, startpos, probe, error>>

\* Mutant: snode moves on although the buffer is full, so eofflag is set.
NoRoomEof(e) ==
    /\ ~BeforeStart
    /\ DirentSize(e.name) > resid
    /\ Return(TRUE, "none")

NoRoom(e) ==
    /\ ~BeforeStart
    /\ DirentSize(e.name) > resid
    /\ Return(FALSE, "none")

AtEnd ==
    child > (IF OnSys THEN 2 + Cardinality(SysChildren(dir.object)) ELSE Len(Children(dir.base)))

\* The loop ends after the last child, or when the buffer is full.
EndOfWalk ==
    /\ pc = "walk"
    /\ AtEnd \/ (resid = 0 /\ (OnSys => child > 2))
    /\ Return(AtEnd /\ (OnSys => resid > 0), "none")

\* Mutant: continue without moving to the next child.
SkipChildStuck ==
    /\ pc = "walk" /\ ~OnSys /\ ~AtEnd /\ resid > 0
    /\ Hidden(SNode) \/ ~MayShow(dir.pid)
    /\ UNCHANGED vars

SkipChild ==
    /\ pc = "walk" /\ ~OnSys /\ ~AtEnd /\ resid > 0
    /\ Hidden(SNode) \/ ~MayShow(dir.pid)
    /\ child' = child + 1
    /\ UNCHANGED <<systemVars, changes, historyVars, pc, dir, trusts, buf, startpos,
                   nextpos, resid, probe, list, count, error, listed>>

\* A child that stands for itself.
CopyChild ==
    /\ pc = "walk" /\ ~OnSys /\ ~AtEnd /\ resid > 0
    /\ ~Hidden(SNode) /\ MayShow(dir.pid) /\ SNode \notin Dynamic
    /\ \/ /\ CopyOut(StaticEntry(dir, child))
          /\ child' = child + 1
          /\ UNCHANGED <<pc, list>>
       \/ NoRoom(StaticEntry(dir, child))

CopySysDot ==
    /\ pc = "walk" /\ OnSys /\ child <= 2
    /\ \/ /\ CopyOut(SysDot(dir, child))
          /\ child' = child + 1
          /\ UNCHANGED <<pc, list>>
       \/ NoRoom(SysDot(dir, child))

CopySysChild ==
    /\ pc = "walk" /\ OnSys /\ child > 2 /\ resid > 0
    /\ \E o \in SysChildAt(dir.object, child - 3) :
          \/ /\ CopyOut(SysEntry(dir, o))
             /\ child' = child + 1
             /\ UNCHANGED <<pc, list>>
          \/ NoRoom(SysEntry(dir, o))

AtDynamic ==
    /\ pc = "walk" /\ ~OnSys /\ ~AtEnd /\ resid > 0
    /\ MayShow(dir.pid) /\ SNode \in Dynamic

\* A list is gone through in ascending order.
First(S) == {n \in S : \A m \in S : n <= m}

\* procfs_get_pids: pid by pid, while there is room in the list.
ListProcesses ==
    /\ AtDynamic
    /\ SNode \in ProcessLists
    /\ pc' = "scan"
    /\ probe' = Pids
    /\ UNCHANGED <<systemVars, changes, historyVars, dir, trusts, buf, startpos, nextpos,
                   resid, child, list, count, error, listed>>

ProbePid ==
    /\ pc = "scan"
    /\ Cardinality(list) < MaxProcs
    /\ \E pid \in First(probe) :
          /\ probe' = probe \ {pid}
          /\ list' = IF pid \in VisiblePids THEN list \cup {pid} ELSE list
    /\ UNCHANGED <<systemVars, changes, historyVars, pc, dir, trusts, buf, startpos,
                   nextpos, resid, child, count, error, listed>>

EndOfProbe ==
    /\ pc = "scan"
    /\ probe = {} \/ Cardinality(list) = MaxProcs
    /\ pc' = "emit"
    /\ UNCHANGED <<systemVars, changes, historyVars, dir, trusts, buf, callVars, error>>

\* The threads or the descriptors of the process of the directory, as the
\* daemon tells them; without an answer there are no descriptors, but the
\* thread list is an error, EPERM when the daemon is denied the task.
ListObjects ==
    /\ AtDynamic
    /\ SNode \notin ProcessLists
    /\ IF dir.pid \notin live THEN Return(FALSE, "ENOENT")
       ELSE IF SNode = "__Thread__" /\ ~daemon THEN Return(FALSE, "ENOTSUP")
       ELSE IF SNode = "__Thread__" /\ comm[dir.pid] \in Hardened THEN Return(FALSE, "EPERM")
       ELSE /\ pc' = "emit"
            /\ list' = Objects(dir, SNode)
            /\ UNCHANGED <<systemVars, changes, historyVars, dir, trusts, buf, startpos,
                           nextpos, resid, child, probe, count, error, listed>>

\* proc_find fails for a process of the list that is gone: byname leaves it
\* out, and nextpos does not move.
DropGone ==
    /\ pc = "emit" /\ SNode = "__Process_N__"
    /\ \E n \in First(list) : n \notin live /\ list' = list \ {n}
    /\ UNCHANGED <<systemVars, changes, historyVars, pc, dir, trusts, buf, startpos,
                   nextpos, resid, child, probe, count, error, listed>>

CopyDynamic ==
    /\ pc = "emit"
    /\ \E n \in First(list) :
          /\ SNode = "__Process_N__" => n \in live
          /\ \/ /\ CopyOut(DynamicEntry(dir, child, n))
                /\ list' = list \ {n}
                /\ UNCHANGED <<pc, child>>
             \/ NoRoom(DynamicEntry(dir, child, n))

\* snode moves past the last child for processes only.
EndOfList ==
    /\ pc = "emit" /\ list = {}
    /\ Return(SNode \in ProcessLists, "none")

Scan ==
    \/ EndOfWalk \/ SkipChild \/ CopyChild \/ CopySysDot \/ CopySysChild
    \/ ListProcesses \/ ProbePid \/ EndOfProbe \/ ListObjects \/ DropGone \/ CopyDynamic \/ EndOfList

Init ==
    /\ live = Running
    /\ denied = {}
    /\ comm = [p \in Pids |-> CHOOSE c \in Comms : TRUE]
    /\ fds = [p \in Pids |-> Fds]
    /\ tids = [p \in Pids |-> Tids]
    /\ release = "off"
    /\ daemon = TRUE
    /\ oids = Oids
    /\ checked \in BOOLEAN
    /\ changes = 0
    /\ pc = "idle"
    /\ dir = NoNode
    /\ trusts = FALSE
    /\ buf = 0 /\ startpos = 0 /\ nextpos = 0 /\ resid = 0 /\ child = 1
    /\ probe = {} /\ list = {} /\ count = 0
    /\ error = "none"
    /\ listed = << >>
    /\ steady = {} /\ pushed = {}

System ==
    \/ \E p \in Pids : Fork(p) \/ Exit(p) \/ Exec(p)
    \/ \E p \in Pids, fd \in Fds : ChangeFd(p, fd)
    \/ \E p \in Pids, t \in Tids : ChangeThread(p, t)
    \/ \E r \in Releases : ChangeRelease(r)
    \/ ChangeDaemon
    \/ \E o \in Oids : ChangeOid(o)

Next ==
    \/ pc = "idle" /\ \E d \in OpenDirs, b \in Bufs, t \in BOOLEAN : Open(d, b, t)
    \/ Scan
    \/ System

\* A thread inside readdir, and the caller's loop, go on.
Spec == Init /\ [][Next]_vars /\ WF_vars(Scan)

-----------------------------------------------------------------------------
(* Properties.                                                             *)

\* The system, and the position, the buffer and the lists of a call have their
\* types; what is left of the buffer never leaves its range.
TypeOK ==
    /\ live \subseteq Pids /\ denied \subseteq Pids /\ comm \in [Pids -> Comms]
    /\ fds \in [Pids -> SUBSET Fds] /\ tids \in [Pids -> SUBSET Tids]
    /\ release \in Releases /\ daemon \in BOOLEAN /\ oids \subseteq Oids
    /\ checked \in BOOLEAN /\ changes \in 0 .. MaxChanges
    /\ pc \in {"idle", "walk", "scan", "emit", "done"} /\ trusts \in BOOLEAN
    /\ buf \in Bufs \cup {0} /\ resid \in 0 .. buf
    /\ startpos \in Nat /\ nextpos \in Nat /\ child \in Nat /\ count \in Nat
    /\ probe \subseteq Pids /\ list \subseteq Pids \cup Fds \cup Tids
    /\ error \in {"none", "ENOENT", "ENOTSUP", "EPERM"}

Finished == pc = "done" /\ error = "none"

\* A scan that ends without an error has returned every entry that the lists of
\* processes, threads and descriptors had room for the whole time and before
\* which nothing went away: processes that start, and anything that happens
\* behind an entry, hide nothing.  (procfs_vnop_readdir walks from the first
\* child and copies from the start position on.)
NoneMissed == Finished => steady \subseteq Returned

\* An entry returned twice is one that something new came before, or that went
\* away and came back: processes that exit make no entry show up twice.
NoneTwice ==
    \A i, j \in DOMAIN listed : i < j /\ listed[i] = listed[j] => listed[i] \in pushed

\* What readdir lists, lookup finds, and under the same node id (hence file
\* id): the two walk the tree and the lists independently.  Two kinds of entry
\* are left out: ".." of /proc/sys, which readdir gives the id of the directory,
\* and a thread whose id is larger than an int, whose name lookup takes for
\* another number.  (The system goes through the same states whether a scan is
\* under way or not.)
ListedResolves ==
    pc = "idle" => \A d \in OpenDirs :
        \A e \in Entries(d) :
            \/ d.base = "sys" /\ e.name = Word("..")
            \/ e.name.num > IntMax
            \/ Lookup(d, e.name) = e.id

\* Every scan ends, however the directory grows or shrinks under it.
ScanEnds == (pc = "walk") ~> (pc = "done")
=============================================================================
