# Verification of mSL-ProcFS

mSL-ProcFS is a `/proc` file system for macOS: a kernel extension (`kext/`), a
user-space daemon that supplies what the kernel will not give an extension
(`tools/procfsd.c`), a mount helper (`fs/`) and a menu-bar program (`gui/`).
This directory holds TLA+ models of its stateful parts, TLC configurations that
check them on small instances, and TLAPS proofs. `PROJECT.json` says for each
definition which source lines it models.

## The system

| part | source | state it keeps | here |
|---|---|---|---|
| pfsnode table and vnodes | `procfs_node.c`, reclaim in `procfs_vnops.c` | hash table, attach flags, vnode links | `NodeCache`, `NodeTable`, `NodeCacheProofs` |
| kernel-control bridge | `procfs_ctl.c` | request slots, sequence number, connected unit | `CtlBridge`, `CtlBridgeProofs` |
| listings in chunks | `procfs_ctl_request_blob`, its callers, the daemon's `g_*_blob` | per-kind cached text | `Listing`, `ListingProofs` |
| load, mount, unmount | `procfs.c`, `procfs_vfsops.c`, life of the tree in `procfs_structure.c` | mount id, instance count, `root_node` | `MountTable`, `MountTableProofs`, `Service` |
| lookup, readdir, node ids, `/proc/sys` | `procfs_vnops.c`, `procfs_structure.c`, `procfs_subr.c`, `procfs_sysctl.c` | structure tree, the kernel's lists | `Directory`, `DirectoryProofs` |
| maps, memory, arguments of a process | `procfs_map.c`, `procfs_mem.c`, `procfs_cmdline.c`, `procfs_auxv.c`, handlers of `procfsd.c` | none; the process changes under them | `ProcessReads`, `ProcessReadsProofs`, `ProcessReadsExact` |
| daemon loop, bootstrap, automount, settings | `procfsd.c`, `ProcFSMenu.swift`, `ProcFSPref.swift` | socket, files under `/var/db` | `Service`, `ServiceProofs` |
| uninstaller | `installer/uninstall.sh` | none | `Service` |
| text generators, kernel symbols, notes | `procfs_linux.c`, `procfs_status.c`, `procfs_kern.c`, `procfs_note.c`, ... | none | not modelled |
| mount helper, updater, bundled libraries | `fs/`, `gui/Updater.swift`, `lib/` | none of interest | not modelled |

The parts meet in three places. Every lookup and every `procfs_root` goes
through `procfsnode_find`. Every node the kernel cannot fill goes through the
bridge; the long ones go through it once per chunk. The structure tree is
shared by all mounted instances, and mount and unmount create and free it.
`Service` puts the extension, the daemon, the application and the uninstaller
side by side: they share `/proc`, the control, the sysctls and the files, and
nothing orders them.

## Modules

**NodeCache.** One action per critical section of `procfsnode_find` and
`procfs_vnop_reclaim`; a thread stops wherever the code drops
`pfsnode_hash_mutex` (allocation, sleep, `vnode_getwithvid`, create callback,
clean-up). The vnode layer is external: iocounts, recycling, identities (vids).
`NodeTable` is what the table promises: one vnode per id, not taken away while
held; `NodeCache` is checked to implement it.

**CtlBridge.** `procfs_ctl_request_impl` with one action per critical section
of `g_ctl_lock`, the connect, disconnect and send callbacks, and a daemon that
answers in order, late, wrongly, or not at all, and may die and come back under
another unit. `SeqMod` stands for 2^32; `SeqFresh` states the one assumption on
it, that no message outlives a full turn of the counter. A reply is whole: the
branch of `procfs_ctl_send` for one shorter than its header says
(`procfs_ctl.c:116`) is left out, as `procfsd` sends header and payload in one
call.

**Listing.** The loop of `procfs_ctl_request_blob` over requests that behave as
`CtlBridge` shows, and the daemon's cache. A byte is the triple of its kind,
the number of the build and its position, so texts can be compared.

**MountTable.** `procfs_start`, `procfs_stop`, `procfs_mount`,
`procfs_unmount`, with the tree as a numbered object that is allocated and
freed. The NOTE at `procfs_vfsops.c:127` takes mounts and unmounts for serialised
by `mnt_rwlock`, but there is one such lock per mount, so calls for different
mount points overlap: each is a sequence of steps that ends where the code reads
or writes a global without a lock (the mount id, the count, `root_node`). The
history variables `overtaken` and `met` record which mount lost its id to another
one, and whether two calls ran at once or met around `root_node`; no guard reads
them. The build of a tree is one step, and what a second release of one tree
destroys is not followed.

**Directory.** `procfs_vnop_lookup` and the two readdir routines over one entry
of each kind of the structure tree: a plain directory, the two symbol files of
which the spoofed release hides one, the process lists by number and by name,
descriptors, threads (`task` is the same shape as `threads`), `/proc/sys` with
its grafted directory. A caller with a small buffer scans one directory call
after call, stopping at `eofflag` or at an empty answer; between any two steps,
also between two probes of `procfs_get_pids`, anything the directory shows may
change, and before the scan anything at all. `Entries` is what the directory
holds at an instant. `steady` and `pushed` follow how changes move an entry:
offsets are sums of entry sizes, so an entry that goes away shifts those behind
it towards the start, where a scan may pass over them, and one that comes shifts
them away from it, where a scan may return them again. `steady` are the entries
that were there all the time with nothing going away before them, `pushed` those
that something came before or that came themselves. What comes counts from when
a call has it in its list, as that list is what it copies. Under `/proc/sys` a
call finds the next child by its index each time, so there every change before
an entry excuses it. The daemon's answer holds `MaxObjects` descriptors or
threads (256 in the code), which readdir and lookup both see, and none of the
threads of a process whose task the daemon is denied (`Hardened`, EPERM). A name
is parsed as `procfs_atoi` does, into an int that wraps (`Atoi`, `IntMax`; the
overflow is taken as the wrap-around the compiled code has), while thread ids
have 64 bits. The allocation of the pid list succeeds, and a buffer has
room for the largest entry (`BufsAssumption`): with a smaller one
`procfs_vnop_readdir` returns nothing, which a caller takes for the end.

**ProcessReads.** The read handlers that fetch a process's data piece by piece,
with the daemon's answer to each piece computed from the process as it is at
that moment. A caller reads until the end with a small buffer; the process maps
and unmaps, pages, executes, exits, is reaped, its pid is reused, and requests
and allocations fail. Every item carries the process it came from. The caller's
own buffer is valid: `uiomove` does not fail.

**Service.** The steps of `procfs_start` and `procfs_stop`, `main` of the daemon
up to its receive loop with `apply_persisted_int` split into reading the file
and setting the sysctl, the automount thread split into its check and its
mount, the commands of the menu (a file is truncated before it is written),
`kmutil` by hand, deaths, reboots, mounts that fail for a while, and the uninstall
script command by command. What the kernel does with a connected client when its
control is deregistered is external and nondeterministic: `recv` fails (`dead`),
`recv` returns 0 (`eof`), or the control stays because `ctl_deregister`, whose
result the code ignores, refused (`stale`). In the second case the receive loop
goes round for ever (`procfsd.c:3689`); in the third no new control can be
registered, and the end of the daemon calls back into an extension that was
stopped (`Panic`).

Each `MC` module only adds what its configurations need for constants and
symmetry. The
operators whose comment begins with "Mutant:" are faulty variants of the
definition that follows: each property is known to fail for one of them.

## Runs

| run | instance | result |
|---|---|---|
| `node_cache` | 2 threads, 2 ids, 2 pfsnodes, 1 vnode recycled once, fairness | all invariants, `FindReturns`, `ImplementsNodeTable` hold |
| `node_cache_leak` | 2 threads, 1 id | `NoLeak` fails: the allocation forgotten at `procfs_node.c:245` |
| `ctl_bridge` | 2 readers, 1 slot, 2 units, 2 calls each, counter wrapping, fairness | safety holds; every request returns; accepted replies are returned |
| `listing` | 2 readers, 2 kinds, payload 2, texts of 0 to 3 bytes, 3 builds | holds |
| `listing_torn` | 1 kind | `SelfConsistent` fails: rebuild or restart between chunks |
| `mount_table` | 2 mount points, 4 trees | holds |
| `mount_table_fsid` | 2 mount points, 2 trees | `FsidUnique` fails: two mounts increment `procfs_mount_id` before either reads it (`procfs_vfsops.c:160-161`) |
| `mount_table_free` | 2 mount points | `StructureOutlivesMounts` fails: unconditional free at `procfs_vfsops.c:244`, with no two calls at once |
| `directory` | 3 pids, one running at first, a list of at most 2, 3 descriptors and 2 threads with room for 2 in an answer, ints up to 7, 2 oids, a buffer of 2 entries, 2 changes | holds |
| `process_reads` | 3 pages, 2 regions or bytes a payload, arguments of 0 to 7 bytes with a limit of 6, a buffer of 3, 3 changes, 1 failure | holds |
| `service` | 2 versions, 4 commands, deaths, reboots or failing mounts | holds |
| `service_uninstall` | no other command | `UninstallComplete` fails: `/proc` is mounted again after the script unmounted it and before it stopped the daemon, and the unload is refused |

Bounds. The node cache needs two threads to race, a second id for a recycled
vnode to reappear under, and fewer vnodes than ids so that it does; its safety
properties are also proved for all sizes. The bridge needs more readers than
slots (EBUSY, a slot with a new owner), two calls (a reply to the first that comes
during the second) and two units (a request on its way to a daemon that is gone);
with several slots its safety is proved. Listings of 0 to 3 bytes with a payload of 2 include the
empty text, one that fills its chunk exactly and one that spans two chunks.
Two mount points give every overlap of two calls, four trees every order of mounting
and unmounting around an instance that stays; the invariants were also checked once
with three mount points and two trees (6.3 million states). A directory buffer of 9 units holds two entries of 4, or a long one of 5
and a short one, so calls end within every list and at its end; two changes are
enough for an entry to leave and return, and three pids and descriptors for the
limits of two to cut. Of the threads 7 and 23 the second is not an int and wraps
onto the first. The argument lengths are none, less than two slices, two slices exactly and
more than the limit; three pages give every map with adjacent regions and holes
that takes two answers. Four changes let the daemon die during a reload that the
user's choice preceded.

Fairness. A thread inside `procfsnode_find` and a reclaim that has begun keep
running; a reader of the bridge keeps running and its `msleep` ends after
`PROCFS_CTL_TIMEO_S`. Nothing is assumed of the daemon, of callers, or of the
kernel's wish to recycle vnodes. A scan or a read, once begun, goes on
(`ScanEnds`, `ReadEnds` in `Directory` and `ProcessReads`): the caller loops, and
the bridge answers or times out. In `Service` the kernel finishes a start or a
stop, launchd restarts the daemon while its job is enabled (`KeepAlive`), and the
daemon's two threads run; nothing is assumed of the user. A mount fails only finitely
often while the file system is registered (failures count as changes).
`Reconnected` has three exceptions: a disabled job, no registered control (also
after a refused unload, which removes it), and a socket that ended with a return
of 0, on which the code waits for ever. The daemon's 50 tries to
connect, one second, are taken to outlast `procfs_start`. `FindReturns` excludes
one behaviour the code really has: if `vnode_create` fails again and again, a
sleeper can be overtaken by the next attaching thread each time.

## Proofs

`NodeCacheProofs` proves, for any sets of threads, ids, pfsnodes and vnodes and
any bound on recycling, that every invariant of `node_cache` holds. The only
assumption is that NULL is not a pfsnode or a vnode (`NullAssumption`); the
refinement also needs that it is not a pair of an id and a vnode
(`PairAssumption`). None of
the invariants is inductive alone. `IInv` adds what ties them together:

- `LinkInv`: a pfsnode and its vnode point at each other, and a live vnode
  without that link is in the hands of the thread attaching it;
- `AttachInv`, `NewInv`: the attach phase belongs to the thread that allocated
  the pfsnode, and an allocation belongs to one call;
- `OwnerInv`: a thread with an iocount has a live vnode, of its id;
- `VidInv`: while the vnode still has the sampled vid and is alive, it is the
  vnode that was found under the mutex. This is what makes
  `vnode_getwithvid` after the unlock safe;
- `LocalInv`: what the locals of a call hold at each place.

There is one lemma per action, one step per conjunct. Two conjuncts needed an
argument of their own (`CreateOkLink`, `AttachFailLink`).

Its theorem `Refinement` says that `NodeCache` implements `NodeTable`. Four
actions are visible: `AttachOk` is a `Create`, `GetVidOk` a `Find`, `Put` a
`Release`, `Terminate` a `Reclaim`. `BoundFacts` replaces the CHOOSE in the
mapping by the one pfsnode of the id; `BoundUnchanged` then shows that every
other step leaves the mapped state alone. The argument uses `IInv` before and
after the step.

`CtlBridgeProofs` proves `ReplyMatchesCall`, `SlotOwnership` and `NoLostWakeup`
for any readers, slots, units and sequence width. The invariant follows a call
through the bridge: its slot is owned by it alone and an idle reader has none;
sequence numbers of pending slots differ; a request or an answer under way with
the number of a pending slot is of that slot's call; and the buffer of a slot
that is done holds the answer to its call. The assumption that no message
outlives a turn of the counter (`SeqFresh`) enters in one step, `TakeSlot`.

`MountTableProofs` proves the invariants of `mount_table` for any finite set of
mount points. The strengthening says what holds at each step of a call: `Ids`, an
id in use is at most `mountId`, and a mount that is about to read the counter is
overtaken, or the only one that is not and ahead of every id but those of mounts
that were; `Counts`, the count is the number of instances between their two
`OSAddAtomic` (`Counted`); `Services`, what is registered is loaded with its
allocation tag; `Tree`, as long as no two calls met there, one call at a time is
between its test of `root_node` and its last write, what it tested still holds,
and a tree that is allocated has a call of `procfs_structure_free` ahead.

`ServiceProofs` proves `SettingsRestored` for any versions and any number of
changes. The invariant says which settings the daemon has already passed in this
connection (`PassedRestored`) and that the value it is about to write is the
saved one unless the user touched it (`ReadFresh`); `LinkOK` ties a live socket
to the control it belongs to, so that a reload is always noticed before the
daemon is back in its loop.

`ListingProofs` proves `TypeOK`, `ChunksInOrder` and `QuietReadIsWhole` for any
readers, kinds, chunk size and lengths. `QuietReadIsWhole` speaks of reads that
have ended; the invariant adds what a read under way has, a prefix of the listing
the daemon still keeps (`QuietReadIsPrefix`), that no byte a reader has is newer
than the cached listing of its kind (`NoneNewer`), and that a request somebody
waits for is at its reader's offset (`RequestsCurrent`).

`ProcessReadsProofs` and `ProcessReadsExact` prove every safety property of
`process_reads` for any address space, sizes and numbers of changes and failures.
`ArgsFit`: a slice fits because buffer and contents are whole numbers of payloads
as long as the loop goes on (`ArgsBuffer`): when the next slice may not fit the
buffer is full, and growing it at all makes room for one. This needs the payload
to divide `PROCFS_CMDLINE_MAX` (`CmdlineAssumption`). `PartialKept` is an action
property. `OneProcess` holds because a call keeps the process it found from being
reaped, so its pid is not given away. `StableRegionsOnce` rests on `Walk`: what
the walk has is in order, ends at its address, and lacks no region up to there
that stayed. `QuietReadExact` compares what the caller has with what a walk
started anew collects; they agree because both have each region in its place
(`Enumerates`), and at the first place where two such sequences differ there would
be two regions that both come next. That argument takes the least place of a set
of numbers and so avoids induction over sequences.

`DirectoryProofs` proves the four invariants of `directory` for any processes,
descriptors, threads, oids, names, limits of the lists, buffers and number of
changes. The assumptions are those of the model: these sets are finite sets of
numbers, process ids and descriptors are ints, oids of one directory have different
names, a buffer has room for an entry. `Shape` says how far a call is and what its lists hold there; it makes
`TypeOK` inductive. `ListedResolves` is a case for each kind of child; it leaves out `..` of
`/proc/sys` and threads whose id is larger than an int.

The two properties of the scan need an invariant that relates the position of the
call to the directory as it is now. `Due` is what the call has still to come to,
and `Size` what a set of entries takes of the position. For every entry:

- `Missing`: what was there all the time was returned, or is due and will be
  copied (`Coming`): the call has moved no further than what it left behind before
  the entry, and what is due before it brings the call to the start position;
- `Repeat`: what was returned and is due again ends before the start position;
- `Reached`: the call has moved at least as far as what it left behind. Without it
  `Repeat` would not hold when the next entry is passed over;
- `Passed`: what was returned and left behind is behind the position as well, so
  that the call after this one starts beyond it;
- `Fits`, `Probed`: the limit of the process list does not cut off what an earlier
  call returned, and no process appeared among the pids already tried. Without
  them a cut list would shift the entries behind it.

Except for `Missing` they speak of the entries that are not `pushed`. A change of
the system keeps the invariant because `Observe` takes from `steady`, or adds to
`pushed`, just what the change moves (`ScanInvSystem`); copying an entry moves it
from one side of every comparison to the other (`Visit`); the end of the list and
of the call exchange one set of entries for another of the same size
(`EndOfProbeStep`, `ReturnStep`). TLC checked the whole invariant, on instances of
some 900,000 states, before it was proved. The facts about finite sets that the
lemmas assume (`FiniteFacts`) are proved from the library at the end of the module.

In every module the type invariant is proved too (`TypesAreKept`, and
`TypeCorrect` for the node cache).

Only model-checked: the liveness properties (`FindReturns`, `ScanEnds`, `ReadEnds`
and those of `ctl_bridge` and `service`), which are out of the prover's reach.

## Not modelled

- The text of the files (`procfs_linux.c`, `procfs_status.c`, `procfs_regs.c` and
  the like) and the daemon's handlers that fill one structure: single snapshots
  without state that outlives the call. With the bundled kernel headers
  (`include/xnu`), libraries (`lib/`) and symbol table (`tools/kallsyms_extra.h`)
  they are most of the lines of the repository, so the lines `PROJECT.json` maps
  are a small share of it.
- The packing of a node id into a 64-bit file id. `next_node_id` is not reset
  when a tree is freed, so ids pass the eight bits `procfs_get_fileid` leaves
  for them.
- That everything is listed: `procfs_get_pids` stops at 1024 processes and an
  answer of the daemon at 256 descriptors or threads. `Directory` keeps the limits,
  and `NoneMissed` is about what the limited lists hold.
- That every thread is found: a thread whose id is above 2^31 - 1 is listed by a
  name that lookup reads as another number.
- That instance names differ: `MountTable` names an instance as the code does,
  from the current count, and a mount after an unmount can repeat a name.
- The race between a user's change of a setting and the daemon restoring the old
  one is a behaviour of `Service`; `SettingsRestored` leaves out settings changed
  since the load.
- The bridge's lock freed at unload under a reader: the order in which the
  kernel's control layer ends callbacks is not visible here.
- What happens after two calls met around `root_node` (a tree released twice, a
  release of NULL): `NoTreeLeak` says nothing from there on.
- Scans of kernel structures (`procfs_kern.c`), which depend on layouts outside
  the repository; notes, which are one signal; the updater and the windows.
