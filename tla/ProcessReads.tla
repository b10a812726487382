---------------------------- MODULE ProcessReads ----------------------------
(***************************************************************************)
(* The files of a process whose data the daemon fetches piece by piece     *)
(* while the process runs: map and maps (kext/procfs_map.c), cmdline,      *)
(* environ and auxv (kext/procfs_cmdline.c, procfs_auxv.c), mem and        *)
(* pagemap (kext/procfs_mem.c), with the handlers of tools/procfsd.c.      *)
(*                                                                         *)
(* A caller reads one file in several read(2) calls.  Each call looks the  *)
(* process up by its pid and asks the daemon for one piece after another;  *)
(* between any two requests the process may map and unmap memory, execute  *)
(* another program, exit, be reaped, and its pid be given to another one.  *)
(* A request is answered or fails as CtlBridge shows.                      *)
(***************************************************************************)
EXTENDS Naturals, Sequences, FiniteSetsExt

CONSTANTS
    Top,         \* addresses are 0..Top-1, one unit a page
    MaxFit,      \* regions in one payload
    Payload,     \* PROCFS_CTL_MAXPAYLOAD, in bytes of arguments or memory
    Entries,     \* pagemap entries in one payload; an entry is 2 bytes here
    CmdlineMax,  \* PROCFS_CMDLINE_MAX
    ArgLens,     \* lengths of an argument area
    UserBuf,     \* size of the caller's buffer
    MaxChanges,  \* bound: changes of the process
    MaxFaults    \* bound: requests that fail

ASSUME SizesAssumption ==
    /\ Top \in Nat /\ ArgLens \subseteq Nat /\ UserBuf \in Nat \ {0}
    /\ MaxFit \in Nat \ {0} /\ Payload \in Nat \ {0} /\ Entries \in Nat \ {0}
ASSUME BoundsAssumption == MaxChanges \in Nat /\ MaxFaults \in Nat
\* 256 KB, and a payload that divides it.
ASSUME CmdlineAssumption == CmdlineMax \in Nat /\ CmdlineMax % Payload = 0 /\ CmdlineMax >= Payload

VARIABLES
    state,      \* the process with the pid: "running", "zombie" or "gone"
    who,        \* which process that is
    image,      \* the program it executes
    argLen,     \* length of its argument area
    regions,    \* its map: disjoint <<start, end>>
    resident,   \* the addresses of resident pages
    changes,    \* changes so far
    faults,     \* failed requests so far
    pinned,     \* the call holds the reference of proc_find
    pc,         \* "call", "ask", "copy", "done"
    file,       \* "maps", "args", "mem", "pagemap"
    start,      \* offset of the caller's first read
    offset,     \* uio_offset: the caller's file offset
    found,      \* the process the call found
    addr,       \* resume address of the walk
    cap,        \* size of the argument buffer
    out,        \* what the call has so far: records [who, item]
    text,       \* what the caller has so far
    status,     \* how the last call ended
    quiet,      \* history: nothing changed and no request failed
    stable      \* history: the regions there unchanged since the call began

processVars == <<state, who, image, argLen, regions, resident>>
readVars == <<pc, file, start, offset, found, addr, cap, out, text, status, pinned>>
vars == <<processVars, changes, faults, readVars, quiet, stable>>

Addresses == 0 .. Top - 1
Files == {"maps", "args", "mem", "pagemap"}

Prefix(s, n) == SubSeq(s, 1, IF n < Len(s) THEN n ELSE Len(s))

\* The maps: sets of disjoint, possibly adjacent, regions.
Regions == {r \in Addresses \X (1 .. Top) : r[1] < r[2]}
Disjoint(r, s) == r[2] <= s[1] \/ s[2] <= r[1]
Layouts == {m \in SUBSET Regions : \A r, s \in m : r = s \/ Disjoint(r, s)}
Mapped(m) == UNION {r[1] .. r[2] - 1 : r \in m}
Ascending(s) == \A i, j \in DOMAIN s : i < j => s[i][2] <= s[j][1]

\* What a process can be like, as far as the file that is read shows it: mem and
\* pagemap do not tell adjacent regions from one.
Maps ==
    CASE file = "args" -> {{}}
      [] file = "maps" -> Layouts
      [] OTHER -> {{<<a, a + 1>> : a \in S} : S \in SUBSET Addresses}
Loaded(m) == IF file \in {"mem", "pagemap"} THEN Mapped(m) ELSE {}
Lengths == IF file = "args" THEN ArgLens ELSE {0}

-----------------------------------------------------------------------------
(* The daemon's answers for the process as it is now.                      *)

\* mach_vm_region, again and again from the end of the region before: the region
\* that holds a or the first one after it, and so on, as many as fit.
MapsReplies(a) ==
    {chunk \in UNION {[1 .. n -> {r \in regions : r[2] > a}] : n \in 0 .. MaxFit} :
        /\ Ascending(chunk)
        /\ \A r \in regions : r[2] > a =>
              \/ \E i \in DOMAIN chunk : chunk[i] = r
              \/ Len(chunk) = MaxFit /\ \A i \in DOMAIN chunk : chunk[i][2] <= r[1]}

\* The slice of KERN_PROCARGS2 at total; the region is fetched anew each time.
ArgsReply(total) ==
    [i \in 1 .. Min({Payload, argLen - Min({total, argLen})}) |-> <<image, total + i>>]

\* The resident bytes from va up to the first hole.
MemReplies(va) ==
    {[i \in 1 .. n |-> <<image, va + i - 1>>] :
        n \in {k \in 0 .. Payload : /\ va .. va + k - 1 \subseteq resident
                                    /\ k = Payload \/ va + k \notin resident}}

\* A run of entries, two bytes each, or nothing above the last region.
PagemapReply(va) ==
    IF \E r \in regions : r[2] > va
    THEN [i \in 1 .. 2 * Entries |->
            <<va + (i - 1) \div 2, (i - 1) % 2,
              IF va + (i - 1) \div 2 \in resident THEN 1 ELSE 0>>]
    ELSE << >>

-----------------------------------------------------------------------------
(* The process.                                                            *)

\* What happens after the read makes no difference to it.
Change ==
    /\ pc # "done"
    /\ changes < MaxChanges
    /\ changes' = changes + 1
    /\ quiet' = FALSE
    /\ UNCHANGED <<faults, readVars>>

\* mmap, munmap, mprotect: regions come, go, split and merge.
Remap(m) ==
    /\ Change
    /\ state = "running" /\ m # regions
    /\ regions' = m
    /\ resident' = resident \cap Mapped(m)
    /\ stable' = stable \cap m
    /\ UNCHANGED <<state, who, image, argLen>>

\* A page of a region is brought in or paged out.
Page(a) ==
    /\ Change
    /\ state = "running" /\ file \in {"mem", "pagemap"} /\ a \in Mapped(regions)
    /\ resident' = IF a \in resident THEN resident \ {a} ELSE resident \cup {a}
    /\ UNCHANGED <<state, who, image, argLen, regions, stable>>

Exec(l) ==
    /\ Change
    /\ state = "running"
    /\ image' = image + 1
    /\ argLen' = l
    /\ \E m \in Maps : regions' = m /\ resident' = Loaded(m)
    /\ stable' = {}
    /\ UNCHANGED <<state, who>>

Exit ==
    /\ Change
    /\ state = "running"
    /\ state' = "zombie"
    /\ regions' = {} /\ resident' = {} /\ stable' = {}
    /\ UNCHANGED <<who, image, argLen>>

\* A process is not reaped while a reference of proc_find is held.
Reap ==
    /\ Change
    /\ state = "zombie" /\ ~pinned
    /\ state' = "gone"
    /\ UNCHANGED <<who, image, argLen, regions, resident, stable>>

\* Another process gets the pid.
Reuse(l) ==
    /\ Change
    /\ state = "gone"
    /\ state' = "running"
    /\ who' = who + 1
    /\ image' = image + 1
    /\ argLen' = l
    /\ \E m \in Maps : regions' = m /\ resident' = Loaded(m)
    /\ UNCHANGED stable

-----------------------------------------------------------------------------
(* The caller and the read handlers.                                       *)

\* The call returns an error, or data the caller takes for the end.
Finish(st) ==
    /\ pc' = "done"
    /\ status' = st
    /\ pinned' = FALSE
    /\ UNCHANGED <<processVars, changes, file, start, offset, found, addr, cap, out, text, stable>>

\* proc_find finds no process, or one without arguments to read.
EnterGone ==
    /\ pc = "call"
    /\ state = "gone" \/ (file = "args" /\ state = "zombie")
    /\ Finish(IF state = "gone" THEN "ESRCH" ELSE "fallback")
    /\ UNCHANGED <<faults, quiet>>

\* The access check or an allocation fails; the argument files then fall back.
EnterRefused ==
    /\ pc = "call"
    /\ state = "running" \/ (state = "zombie" /\ file # "args")
    /\ faults < MaxFaults
    /\ faults' = faults + 1
    /\ quiet' = FALSE
    /\ Finish(IF file = "args" THEN "fallback" ELSE "error")

\* Mutant: the reference is dropped before the walk.
EnterUnpinned ==
    /\ pc = "call"
    /\ state = "running" \/ (state = "zombie" /\ file # "args")
    /\ pc' = "ask"
    /\ found' = who
    /\ addr' = 0
    /\ cap' = Payload
    /\ out' = << >>
    /\ stable' = regions
    /\ UNCHANGED <<processVars, changes, faults, file, start, offset, text, status, pinned, quiet>>

Enter ==
    /\ pc = "call"
    /\ state = "running" \/ (state = "zombie" /\ file # "args")
    /\ pinned' = TRUE
    /\ pc' = "ask"
    /\ found' = who
    /\ addr' = 0
    /\ cap' = Payload
    /\ out' = << >>
    /\ stable' = regions
    /\ UNCHANGED <<processVars, changes, faults, file, start, offset, text, status, quiet>>

Goto(l) == pc' = l

\* procfs_fetch_procargs: the buffer is doubled up to PROCFS_CMDLINE_MAX when
\* the next slice may not fit, before the slice is asked for.
Grown == IF Len(out) + Payload > cap THEN Min({2 * cap, CmdlineMax}) ELSE cap
CapReached == Len(out) + Payload > cap /\ Grown <= Len(out)

\* Mutant: a failed request discards what is there.
FailDiscards ==
    /\ pc = "ask"
    /\ state # "running" \/ faults < MaxFaults
    /\ faults' = IF state = "running" THEN faults + 1 ELSE faults
    /\ quiet' = (quiet /\ state # "running")
    /\ Finish(IF file = "args" THEN "fallback" ELSE "error")

\* A request fails: the bridge's ENOTCONN, ETIMEDOUT or EBUSY, or the daemon's
\* EPERM, EINVAL or ESRCH for a process that is no longer running.
\* What is there already is kept; a call with nothing fails.
Fail ==
    /\ pc = "ask"
    /\ file = "args" => ~CapReached
    /\ \/ /\ state = "running"
          /\ faults < MaxFaults
          /\ faults' = faults + 1
          /\ quiet' = FALSE
       \/ /\ state # "running"
          /\ UNCHANGED <<faults, quiet>>
    /\ \/ /\ out = << >>
          /\ Finish(IF file = "args" THEN "fallback" ELSE "error")
       \/ /\ out # << >>
          /\ Goto("copy")
          /\ UNCHANGED <<processVars, changes, file, start, offset, found, addr, cap, out,
                         text, status, pinned, stable>>

Add(items) == out' = out \o [i \in 1 .. Len(items) |-> [who |-> who, item |-> items[i]]]

Answered == pc = "ask" /\ state = "running"

Answer == UNCHANGED <<processVars, changes, faults, file, start, offset, found, text,
                      status, pinned, quiet, stable>>

\* Mutant: the walk resumes one past the end of the last region.
WalkMapsPast ==
    /\ Answered /\ file = "maps"
    /\ \E chunk \in MapsReplies(addr) :
          IF chunk = << >> THEN Goto("copy") /\ UNCHANGED <<addr, out>>
          ELSE /\ Add(chunk)
               /\ addr' = chunk[Len(chunk)][2] + 1
               /\ Goto(IF chunk[Len(chunk)][2] <= addr THEN "copy" ELSE "ask")
    /\ UNCHANGED cap
    /\ Answer

\* procfs_map_walk: one answer of the daemon.
WalkMaps ==
    /\ Answered /\ file = "maps"
    /\ \E chunk \in MapsReplies(addr) :
          IF chunk = << >> THEN Goto("copy") /\ UNCHANGED <<addr, out>>
          ELSE /\ Add(chunk)
               /\ addr' = chunk[Len(chunk)][2]
               /\ Goto(IF chunk[Len(chunk)][2] <= addr THEN "copy" ELSE "ask")
    /\ UNCHANGED cap
    /\ Answer

\* Mutant: the buffer is not grown.
FetchArgsNoGrow ==
    /\ Answered /\ file = "args" /\ ~CapReached
    /\ LET slice == ArgsReply(Len(out))
       IN  /\ Add(slice)
           /\ Goto(IF Len(slice) < Payload THEN "copy" ELSE "ask")
    /\ UNCHANGED <<cap, addr>>
    /\ Answer

FetchArgs ==
    /\ Answered /\ file = "args" /\ ~CapReached
    /\ cap' = Grown
    /\ LET slice == ArgsReply(Len(out))
       IN  /\ Add(slice)
           /\ Goto(IF Len(slice) < Payload THEN "copy" ELSE "ask")
    /\ UNCHANGED addr
    /\ Answer

\* The larger buffer cannot be allocated: what is there is given up.
GrowFails ==
    /\ pc = "ask" /\ file = "args" /\ ~CapReached /\ Grown > cap
    /\ faults < MaxFaults
    /\ faults' = faults + 1
    /\ quiet' = FALSE
    /\ Finish("fallback")

FetchArgsCapped ==
    /\ pc = "ask" /\ file = "args" /\ CapReached
    /\ Goto("copy")
    /\ UNCHANGED <<cap, addr, out>>
    /\ Answer

\* procfs_domem and procfs_dopagemap move each answer to the caller's buffer
\* at once, and go on at the offset that follows.
Position == offset + Len(out)
Room == UserBuf - Len(out)

ReadMem ==
    /\ Answered /\ file = "mem"
    /\ \E got \in MemReplies(Position) :
           /\ got # << >>
           /\ Add(Prefix(got, Room))
           /\ Goto(IF Len(got) < Payload \/ Len(got) >= Room THEN "copy" ELSE "ask")
    /\ UNCHANGED <<cap, addr>>
    /\ Answer

\* Nothing resident at the address: EIO, unless bytes were moved already.
ReadMemHole ==
    /\ Answered /\ file = "mem"
    /\ << >> \in MemReplies(Position)
    /\ \/ /\ out = << >>
          /\ Finish("EIO")
          /\ UNCHANGED <<faults, quiet>>
       \/ /\ out # << >>
          /\ Goto("copy")
          /\ UNCHANGED <<cap, addr, out>>
          /\ Answer

\* Mutant: the offset within the first entry is ignored.
ReadPagemapAligned ==
    /\ Answered /\ file = "pagemap"
    /\ LET got == PagemapReply(Position \div 2)
       IN  IF got = << >> THEN Goto("copy") /\ UNCHANGED out
           ELSE /\ Add(Prefix(got, Room))
                /\ Goto(IF Len(got) >= Room THEN "copy" ELSE "ask")
    /\ UNCHANGED <<cap, addr>>
    /\ Answer

ReadPagemap ==
    /\ Answered /\ file = "pagemap"
    /\ LET byteIn == Position % 2
           got == PagemapReply(Position \div 2)
           avail == SubSeq(got, byteIn + 1, Len(got))
       IN  IF Len(got) <= byteIn THEN Goto("copy") /\ UNCHANGED out
           ELSE /\ Add(Prefix(avail, Room))
                /\ Goto(IF Len(avail) >= Room THEN "copy" ELSE "ask")
    /\ UNCHANGED <<cap, addr>>
    /\ Answer

\* What the call hands to the caller: procfs_copy_data takes the text from the
\* offset on; mem and pagemap have moved everything already.
Moved ==
    IF file \in {"maps", "args"}
    THEN SubSeq(out, offset + 1, Min({offset + UserBuf, Len(out)}))
    ELSE out

\* The text is now shorter than the caller's offset: EIO.  No argument at all:
\* procfs_fetch_procargs returns EIO, and the caller gets the name of the
\* command or nothing.
CopyShort ==
    /\ pc = "copy"
    /\ file \in {"maps", "args"}
    /\ Len(out) < offset \/ (file = "args" /\ out = << >>)
    /\ Finish(IF file = "args" /\ out = << >> THEN "fallback" ELSE "EIO")
    /\ UNCHANGED <<faults, quiet>>

CopyEnd ==
    /\ pc = "copy"
    /\ file \in {"maps", "args"} => Len(out) >= offset
    /\ file = "args" => out # << >>
    /\ Moved = << >>
    /\ Finish("eof")
    /\ UNCHANGED <<faults, quiet>>

\* Mutant: the offset does not move.
CopyAgain ==
    /\ pc = "copy"
    /\ Moved # << >>
    /\ text' = Moved
    /\ pinned' = FALSE
    /\ Goto("call")
    /\ UNCHANGED <<processVars, changes, faults, file, start, offset, found, addr, cap, out, status,
                   quiet, stable>>

\* Data: the caller calls again.
Copy ==
    /\ pc = "copy"
    /\ Moved # << >>
    /\ text' = text \o Moved
    /\ offset' = offset + Len(Moved)
    /\ pinned' = FALSE
    /\ Goto("call")
    /\ UNCHANGED <<processVars, changes, faults, file, start, found, addr, cap, out, status,
                   quiet, stable>>

Offsets(f) ==
    IF f \in {"mem", "pagemap"} THEN {0, 1} ELSE {0}

\* The caller is about to read the file.
Init ==
    /\ file \in Files
    /\ start \in Offsets(file) /\ offset = start
    /\ state = "running" /\ who = 1 /\ image = 1
    /\ argLen \in Lengths
    /\ regions \in Maps /\ resident \in {Loaded(regions)} \cup {Loaded(regions) \ {a} : a \in Addresses}
    /\ changes = 0 /\ faults = 0
    /\ pinned = FALSE
    /\ pc = "call" /\ found = 0 /\ addr = 0 /\ cap = 0
    /\ out = << >> /\ text = << >> /\ status = "none"
    /\ quiet = TRUE /\ stable = {}

Process ==
    \/ \E m \in Maps : Remap(m)
    \/ \E a \in Addresses : Page(a)
    \/ \E l \in Lengths : Exec(l) \/ Reuse(l)
    \/ Exit \/ Reap

Reader ==
    \/ EnterGone \/ EnterRefused \/ Enter \/ Fail
    \/ WalkMaps \/ FetchArgs \/ GrowFails \/ FetchArgsCapped \/ ReadMem \/ ReadMemHole \/ ReadPagemap
    \/ CopyShort \/ CopyEnd \/ Copy

Next ==
    \/ Reader
    \/ Process

\* The daemon answers or the request times out, and the caller goes on.
Spec == Init /\ [][Next]_vars /\ WF_vars(Reader)

-----------------------------------------------------------------------------
(* Properties.                                                             *)

\* The process, the walk and the buffer of a call have their types: the resume
\* address stays in the address space and the buffer within its limit.
TypeOK ==
    /\ state \in {"running", "zombie", "gone"} /\ who \in Nat /\ image \in Nat
    /\ argLen \in ArgLens \cup {0} /\ regions \in Layouts /\ resident \subseteq Mapped(regions)
    /\ changes \in 0 .. MaxChanges /\ faults \in 0 .. MaxFaults
    /\ pinned \in BOOLEAN /\ quiet \in BOOLEAN /\ stable \subseteq Regions
    /\ pc \in {"call", "ask", "copy", "done"} /\ file \in Files
    /\ start \in Nat /\ offset \in Nat /\ found \in Nat
    /\ addr \in 0 .. Top /\ cap \in 0 .. CmdlineMax
    /\ status \in {"none", "ESRCH", "EIO", "error", "fallback", "eof"}

Items(s) == [i \in DOMAIN s |-> s[i].item]

\* A read during which the process does nothing and no request fails gives
\* exactly the map, the argument area up to the limit, the resident bytes up
\* to the first hole, or the page table from the offset to past the last
\* region, however the pieces and the caller's buffer divide it.
QuietReadExact ==
    (pc = "done" /\ quiet) =>
        CASE file = "maps" ->
               /\ status = "eof"
               /\ Ascending(Items(text))
               /\ Range(Items(text)) = regions
          [] file = "args" ->
               /\ status = IF argLen = 0 THEN "fallback" ELSE "eof"
               /\ Items(text) = [i \in 1 .. Min({argLen, CmdlineMax}) |-> <<image, i>>]
          [] file = "mem" ->
               /\ status = "EIO"
               /\ Items(text) = [i \in DOMAIN text |-> <<image, start + i - 1>>]
               /\ \A i \in DOMAIN text : start + i - 1 \in resident
               /\ start + Len(text) \notin resident
          [] file = "pagemap" ->
               /\ status = "eof"
               /\ \A i \in DOMAIN text :
                     LET page == (start + i - 1) \div 2
                     IN  text[i].item = <<page, (start + i - 1) % 2,
                                          IF page \in resident THEN 1 ELSE 0>>
               /\ \A r \in regions : r[2] <= (start + Len(text)) \div 2

\* Everything one call returns is of the process it found and checked: the
\* reference it holds keeps the pid from being given to another process.
OneProcess == pc \in {"ask", "copy"} => \A i \in DOMAIN out : out[i].who = found

\* A region that stays as it is during a walk is reported once and only once,
\* whatever happens to the others: it is in the result as soon as the walk has
\* passed it.
StableRegionsOnce ==
    (file = "maps" /\ pc \in {"ask", "copy"}) =>
        \A r \in stable :
            LET reported == {i \in DOMAIN out : out[i].item = r}
            IN  IF r[2] <= addr THEN \E i \in DOMAIN out : reported = {i} ELSE reported = {}

\* The argument bytes never pass the end of the buffer, nor the limit.
ArgsFit == (file = "args") => Len(out) <= cap /\ cap <= CmdlineMax

\* "A failure partway through a walk truncates the result rather than discarding
\* it" (procfs_map_walk; the other loops do the same): a call only ends with
\* nothing when it had nothing, or when the argument buffer could not grow.
PartialKept ==
    [][(pc = "ask" /\ pc' = "done" /\ out # << >>) => (file = "args" /\ Grown > cap)]_vars

\* Every read ends.
ReadEnds == (pc = "call") ~> (pc = "done")
=============================================================================
