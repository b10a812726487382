------------------------------- MODULE Listing -------------------------------
(***************************************************************************)
(* Listings the kext cannot make itself (the loaded kexts, the devices,    *)
(* the interrupts...): procfs_ctl_request_blob (kext/procfs_ctl.c) fetches *)
(* the text from the daemon chunk by chunk, by offset; the daemon          *)
(* (tools/procfsd.c) builds it for offset 0 and keeps it for the other     *)
(* chunks, in one variable per kind of listing.                            *)
(*                                                                         *)
(* One request goes through the bridge as CtlBridge shows: the reader gets *)
(* the answer to this very request, a timeout or ENOTCONN.  The daemon     *)
(* works on one request at a time, in order, and a request whose reader    *)
(* has given up is still served.                                           *)
(***************************************************************************)
EXTENDS Naturals, Sequences

CONSTANTS
    Readers,     \* threads in read(2) on a listing
    Kinds,       \* the kinds of listing (PROCFS_REQ_DEVICES and so on)
    Partial,     \* kinds whose node keeps what it has on ENOTCONN
    Payload,     \* PROCFS_CTL_MAXPAYLOAD
    MaxLen,      \* bound: length of a listing
    MaxBuilds,   \* bound: listings built
    MaxReads,    \* bound: read(2) calls per reader
    QueueMax,    \* bound: requests in the socket of the daemon
    NULL

ASSUME PayloadAssumption == Payload \in Nat \ {0}
ASSUME KindsAssumption == Partial \subseteq Kinds
ASSUME BoundsAssumption ==
    MaxLen \in Nat /\ MaxBuilds \in Nat /\ MaxReads \in Nat /\ QueueMax \in Nat

VARIABLES
    up,       \* the daemon runs and is connected
    blob,     \* kind: the daemon's g_*_blob
    builds,   \* number of listings built
    queue,    \* the requests the daemon has not served
    pc,       \* reader: "idle", "ask", "wait"
    kind,     \* reader: type
    offset,   \* reader: offset
    sb,       \* reader: the text so far
    status,   \* reader: how the last read(2) ended: "ok" and "partial" copy sb
              \* out, "empty" and "error" drop it
    reads,    \* reader: its read(2) calls so far
    asked,    \* history, reader: the listing built for its offset 0
    upset     \* history, reader: since its offset 0 the listing was built
              \* again for someone else, or the daemon died

daemonVars == <<up, blob, builds, queue>>
readerVars == <<pc, kind, offset, sb, status, reads, asked, upset>>
vars       == <<daemonVars, readerVars>>

\* The n-th listing built, one of kind k that is l bytes long.
Text(k, n, l) == [i \in 1 .. l |-> <<k, n, i>>]

Init ==
    /\ up = TRUE
    /\ blob = [k \in Kinds |-> NULL]
    /\ builds = 0
    /\ queue = << >>
    /\ pc = [r \in Readers |-> "idle"]
    /\ kind = [r \in Readers |-> NULL]
    /\ offset = [r \in Readers |-> 0]
    /\ sb = [r \in Readers |-> << >>]
    /\ status = [r \in Readers |-> "none"]
    /\ reads = [r \in Readers |-> 0]
    /\ asked = [r \in Readers |-> NULL]
    /\ upset = [r \in Readers |-> FALSE]

-----------------------------------------------------------------------------
(* The reader: the read handler of the node and procfs_ctl_request_blob.   *)

Read(r, k) ==
    /\ pc[r] = "idle"
    /\ reads[r] < MaxReads
    /\ reads' = [reads EXCEPT ![r] = @ + 1]
    /\ kind' = [kind EXCEPT ![r] = k]
    /\ offset' = [offset EXCEPT ![r] = 0]
    /\ sb' = [sb EXCEPT ![r] = << >>]
    /\ status' = [status EXCEPT ![r] = "none"]
    /\ asked' = [asked EXCEPT ![r] = NULL]
    /\ upset' = [upset EXCEPT ![r] = FALSE]
    /\ pc' = [pc EXCEPT ![r] = "ask"]
    /\ UNCHANGED daemonVars

\* One procfs_ctl_request.
Ask(r) ==
    /\ pc[r] = "ask"
    /\ up
    /\ Len(queue) < QueueMax
    /\ queue' = Append(queue, [reader |-> r, kind |-> kind[r], off |-> offset[r],
                               live |-> TRUE])
    /\ pc' = [pc EXCEPT ![r] = "wait"]
    /\ UNCHANGED <<up, blob, builds, kind, offset, sb, status, reads, asked, upset>>

\* EBUSY from a bridge without a free slot, or an error of ctl_enqueuedata.
AskFail(r) ==
    /\ pc[r] = "ask"
    /\ up
    /\ pc' = [pc EXCEPT ![r] = "idle"]
    /\ status' = [status EXCEPT ![r] = "error"]
    /\ UNCHANGED <<daemonVars, kind, offset, sb, reads, asked, upset>>

\* The handlers answer ENOTCONN with an empty node (or its header line), but
\* the one of /proc/interrupts goes on with what it has; any other error is
\* returned.
NotConnected(r) ==
    IF kind[r] \in Partial THEN "partial" ELSE "empty"

AskUnconnected(r) ==
    /\ pc[r] = "ask"
    /\ ~up
    /\ pc' = [pc EXCEPT ![r] = "idle"]
    /\ status' = [status EXCEPT ![r] = NotConnected(r)]
    /\ UNCHANGED <<daemonVars, kind, offset, sb, reads, asked, upset>>

\* Mutant: the wait for the answer has no timeout.
TimeoutNever(r) ==
    /\ pc[r] = "wait"
    /\ ~up
    /\ pc' = [pc EXCEPT ![r] = "idle"]
    /\ status' = [status EXCEPT ![r] = "error"]
    /\ UNCHANGED <<daemonVars, kind, offset, sb, reads, asked, upset>>

\* The reader gives up; its request stays in the socket of the daemon.
Timeout(r) ==
    /\ pc[r] = "wait"
    /\ pc' = [pc EXCEPT ![r] = "idle"]
    /\ status' = [status EXCEPT ![r] = "error"]
    /\ queue' = [i \in DOMAIN queue |->
                   [queue[i] EXCEPT !.live = @ /\ queue[i].reader # r]]
    /\ UNCHANGED <<up, blob, builds, kind, offset, sb, reads, asked, upset>>

\* Mutant: the offset does not advance.
ReceiveAgain(r, chunk) ==
    /\ sb' = [sb EXCEPT ![r] = @ \o chunk]
    /\ pc' = [pc EXCEPT ![r] = IF Len(chunk) < Payload THEN "idle" ELSE "ask"]
    /\ status' = [status EXCEPT ![r] = IF Len(chunk) < Payload THEN "ok" ELSE @]
    /\ UNCHANGED offset

\* Mutant: a full chunk ends the listing too.
ReceiveOne(r, chunk) ==
    /\ sb' = [sb EXCEPT ![r] = @ \o chunk]
    /\ offset' = [offset EXCEPT ![r] = @ + Len(chunk)]
    /\ pc' = [pc EXCEPT ![r] = "idle"]
    /\ status' = [status EXCEPT ![r] = "ok"]

\* The answer arrives: a short chunk ends the listing.
Receive(r, chunk) ==
    /\ sb' = [sb EXCEPT ![r] = @ \o chunk]
    /\ offset' = [offset EXCEPT ![r] = @ + Len(chunk)]
    /\ IF Len(chunk) < Payload
       THEN /\ pc' = [pc EXCEPT ![r] = "idle"]
            /\ status' = [status EXCEPT ![r] = "ok"]
       ELSE /\ pc' = [pc EXCEPT ![r] = "ask"]
            /\ UNCHANGED status

-----------------------------------------------------------------------------
(* The daemon.                                                             *)

\* Mutant: every slice but the first starts one byte early.
SliceEarly(b, off) ==
    IF b # NULL /\ off < Len(b)
    THEN SubSeq(b, IF off = 0 THEN 1 ELSE off,
                   IF Len(b) - off < Payload THEN Len(b) ELSE off + Payload)
    ELSE << >>

\* blob_slice.
Slice(b, off) ==
    IF b # NULL /\ off < Len(b)
    THEN SubSeq(b, off + 1, IF Len(b) - off < Payload THEN Len(b) ELSE off + Payload)
    ELSE << >>

\* build_blob and its siblings: the old listing is freed first, and nothing
\* replaces it when the data cannot be collected.
Build(k) ==
    /\ builds < MaxBuilds
    /\ builds' = builds + 1
    /\ \E b \in {NULL} \union {Text(k, builds + 1, l) : l \in 0 .. MaxLen} :
         blob' = [blob EXCEPT ![k] = b]

\* History: what a rebuild of kind k for the request q means to the readers.
NoteBuild(q) ==
    /\ asked' = [r \in Readers |->
                   IF q.live /\ r = q.reader
                   THEN IF blob'[q.kind] = NULL THEN << >> ELSE blob'[q.kind]
                   ELSE asked[r]]
    /\ upset' = [r \in Readers |->
                   /\ ~(q.live /\ r = q.reader)
                   /\ upset[r] \/ kind[r] = q.kind]

\* One turn of the receive loop in main, for a blob request.
Serve ==
    /\ up
    /\ queue # << >>
    /\ LET q == Head(queue) IN
         /\ IF q.off = 0
            THEN Build(q.kind) /\ NoteBuild(q)
            ELSE UNCHANGED <<blob, builds, asked, upset>>
         /\ IF q.live
            THEN Receive(q.reader, Slice(blob'[q.kind], q.off))
            ELSE UNCHANGED <<sb, offset, pc, status>>
    /\ queue' = Tail(queue)
    /\ UNCHANGED <<up, kind, reads>>

\* The daemon dies: the waiters get ENOTCONN, the listings are lost.
Die ==
    /\ up
    /\ up' = FALSE
    /\ queue' = << >>
    /\ blob' = [k \in Kinds |-> NULL]
    /\ pc' = [r \in Readers |-> IF pc[r] = "wait" THEN "idle" ELSE pc[r]]
    /\ status' = [r \in Readers |-> IF pc[r] = "wait" THEN NotConnected(r) ELSE status[r]]
    /\ upset' = [r \in Readers |-> TRUE]
    /\ UNCHANGED <<builds, kind, offset, sb, reads, asked>>

Restart ==
    /\ ~up
    /\ up' = TRUE
    /\ UNCHANGED <<blob, builds, queue, readerVars>>

ReaderStep(r) == Ask(r) \/ AskFail(r) \/ AskUnconnected(r) \/ Timeout(r)

Next ==
    \/ \E r \in Readers : (\E k \in Kinds : Read(r, k)) \/ ReaderStep(r)
    \/ Serve \/ Die \/ Restart

Spec == Init /\ [][Next]_vars

\* A reader keeps running and gives up after the timeout of the bridge.
FairSpec == Spec /\ \A r \in Readers : WF_vars(ReaderStep(r))

-----------------------------------------------------------------------------
(* Properties.                                                             *)

Bytes == Kinds \X (1 .. MaxBuilds) \X (1 .. MaxLen)

TextOK(s) == /\ DOMAIN s = 1 .. Len(s)
             /\ \A i \in DOMAIN s : s[i] \in Bytes

\* Every variable of the kext's loop and of the daemon's cache has its type.
TypeOK ==
    /\ up \in BOOLEAN
    /\ builds \in 0 .. MaxBuilds
    /\ \A k \in Kinds : blob[k] # NULL => TextOK(blob[k])
    /\ \A i \in DOMAIN queue :
         queue[i] \in [reader : Readers, kind : Kinds, off : 0 .. MaxLen, live : BOOLEAN]
    /\ pc \in [Readers -> {"idle", "ask", "wait"}]
    /\ kind \in [Readers -> Kinds \union {NULL}]
    /\ status \in [Readers -> {"none", "ok", "partial", "empty", "error"}]
    /\ reads \in [Readers -> 0 .. MaxReads]
    /\ upset \in [Readers -> BOOLEAN]
    /\ \A r \in Readers : TextOK(sb[r]) /\ offset[r] = Len(sb[r])

\* A read that procfs_ctl_request_blob ends with success, and during which
\* nobody made the daemon build that listing again and the daemon did not die,
\* returns the whole listing built for its offset 0 and nothing else, whatever
\* its length is: also when it is empty or fills its last chunk exactly.
QuietReadIsWhole ==
    \A r \in Readers :
      status[r] = "ok" /\ ~upset[r] => sb[r] = asked[r]

\* Whatever the other readers and the daemon do, the text a reader collects
\* has at each position the byte that belongs there in some listing of the
\* kind it reads: the chunks neither overlap nor leave a gap, and no chunk is
\* of an older listing than the chunk before it.
ChunksInOrder ==
    \A r \in Readers : \A i \in DOMAIN sb[r] :
      /\ sb[r][i][1] = kind[r]
      /\ sb[r][i][3] = i
      /\ i > 1 => sb[r][i - 1][2] <= sb[r][i][2]

\* The loop of procfs_ctl_request_blob ends, whether or not the daemon answers.
ReadEnds == \A r \in Readers : pc[r] # "idle" ~> pc[r] = "idle"

\* What tools/procfsd.c says of the cached listing: a read that succeeds
\* returns the listing as it was built when the read started.
SelfConsistent == \A r \in Readers : status[r] = "ok" => sb[r] = asked[r]

=============================================================================
