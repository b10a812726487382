---------------------------- MODULE ListingProofs ----------------------------
(***************************************************************************)
(* The safety of listings in chunks for any readers, kinds, chunk size and *)
(* length of the listings.                                                 *)
(*                                                                         *)
(* QuietReadIsWhole speaks of a read that has ended, so the invariant has  *)
(* to say what a read that goes on has so far: a prefix of the listing the *)
(* daemon still keeps (QuietReadIsPrefix).  ChunksInOrder needs the bytes  *)
(* a reader has to be no newer than the listing the next chunk is cut from *)
(* (NoneNewer), and both need a request in the daemon's socket to carry    *)
(* the offset its reader is at (RequestsCurrent).                          *)
(***************************************************************************)
EXTENDS Listing, SequenceTheorems, TLAPS

Requests == [reader : Readers, kind : Kinds, off : 0 .. MaxLen, live : BOOLEAN]

\* TypeOK, with what it leaves open: the containers of the texts and requests.
Shapes ==
    /\ blob \in [Kinds -> Seq(Bytes) \union {NULL}]
    /\ builds \in 0 .. MaxBuilds
    /\ queue \in Seq(Requests)
    /\ pc \in [Readers -> {"idle", "ask", "wait"}]
    /\ kind \in [Readers -> Kinds \union {NULL}]
    /\ offset \in [Readers -> Nat]
    /\ sb \in [Readers -> Seq(Bytes)]
    /\ status \in [Readers -> {"none", "ok", "partial", "empty", "error"}]
    /\ reads \in [Readers -> 0 .. MaxReads]
    /\ asked \in [Readers -> Seq(Bytes) \union {NULL}]
    /\ \A r \in Readers : offset[r] = Len(sb[r])
Flags == up \in BOOLEAN /\ upset \in [Readers -> BOOLEAN]

\* A cached listing is of its kind and was built in one go.
BlobsWhole ==
    \A k \in Kinds : blob[k] # NULL =>
        \A i \in 1 .. Len(blob[k]) :
          /\ blob[k][i][1] = k
          /\ blob[k][i][3] = i
          /\ blob[k][i][2] <= builds
          /\ \A j \in 1 .. Len(blob[k]) : blob[k][j][2] = blob[k][i][2]

\* No byte a reader has is newer than the listing cached for its kind.
NoneNewer ==
    \A r \in Readers : \A i \in 1 .. Len(sb[r]) :
        /\ sb[r][i][2] <= builds
        /\ \A k \in Kinds : kind[r] = k /\ blob[k] # NULL =>
             \A j \in 1 .. Len(blob[k]) : sb[r][i][2] <= blob[k][j][2]

\* A request somebody waits for is of the reader's kind, at its offset.
Current(q) ==
    q.live => /\ pc[q.reader] = "wait"
              /\ kind[q.reader] = q.kind
              /\ offset[q.reader] = q.off

\* Requests in the socket are up to date, and a reader waits for one at most.
RequestsCurrent ==
    /\ \A i \in 1 .. Len(queue) : Current(queue[i])
    /\ \A i, j \in 1 .. Len(queue) :
         /\ queue[i].live
         /\ queue[j].live
         /\ queue[i].reader = queue[j].reader
         => i = j

\* A read under way has a kind and no status yet.
UnderWay ==
    \A r \in Readers : pc[r] # "idle" => kind[r] \in Kinds /\ status[r] = "none"

\* What an undisturbed read has so far is a prefix of the cached listing.
QuietReadIsPrefix ==
    \A r \in Readers : pc[r] # "idle" /\ ~upset[r] /\ offset[r] > 0 =>
        /\ asked[r] # NULL
        /\ asked[r] = blob[kind[r]]
        /\ offset[r] <= Len(asked[r])
        /\ \A i \in 1 .. offset[r] : sb[r][i] = asked[r][i]

IInv ==
    /\ Shapes
    /\ Flags
    /\ BlobsWhole
    /\ NoneNewer
    /\ RequestsCurrent
    /\ UnderWay
    /\ QuietReadIsPrefix
    /\ ChunksInOrder
    /\ QuietReadIsWhole

-----------------------------------------------------------------------------
(* Facts about the operators.                                              *)

\* A byte names its kind, its listing and its position.
LEMMA ByteParts ==
    \A x \in Bytes : /\ x[1] \in Kinds
                     /\ x[2] \in 1 .. MaxBuilds /\ x[2] \in Nat
                     /\ x[3] \in 1 .. MaxLen /\ x[3] \in Nat
BY BoundsAssumption DEF Bytes

\* What build_blob makes is a listing, and its bytes are the ones asked for.
LEMMA TextIsListing ==
    ASSUME NEW k \in Kinds, NEW n \in 1 .. MaxBuilds, NEW l \in 0 .. MaxLen
    PROVE  /\ Text(k, n, l) \in Seq(Bytes)
           /\ Len(Text(k, n, l)) = l
           /\ \A i \in 1 .. l : /\ Text(k, n, l)[i][1] = k
                                /\ Text(k, n, l)[i][2] = n
                                /\ Text(k, n, l)[i][3] = i
<1>1. \A i \in 1 .. l : <<k, n, i>> \in Bytes
  BY BoundsAssumption DEF Bytes
<1>2. l \in Nat
  BY BoundsAssumption
<1>3. Text(k, n, l) \in [1 .. l -> Bytes]
  BY <1>1 DEF Text
<1>4. Text(k, n, l) \in Seq(Bytes) /\ Len(Text(k, n, l)) = l
  BY <1>2, <1>3
<1> QED
  BY <1>4 DEF Text

\* blob_slice returns at most a payload, of the bytes that stand at the offset,
\* and less than a payload only at the end of the listing.
LEMMA SliceCuts ==
    ASSUME NEW b \in Seq(Bytes) \union {NULL}, NEW off \in Nat
    PROVE  /\ Slice(b, off) \in Seq(Bytes)
           /\ \A i \in 1 .. Len(Slice(b, off)) :
                b # NULL /\ off + i <= Len(b) /\ Slice(b, off)[i] = b[off + i]
           /\ b # NULL /\ off <= Len(b) /\ Len(Slice(b, off)) < Payload
                => off + Len(Slice(b, off)) = Len(b)
           /\ b = NULL => Slice(b, off) = << >>
           /\ Len(Slice(b, off)) >= Payload => b # NULL /\ off + Len(Slice(b, off)) <= Len(b)
<1>1. CASE b # NULL /\ off < Len(b)
  <2>1. b \in Seq(Bytes) /\ Len(b) \in Nat /\ \A i \in 1 .. Len(b) : b[i] \in Bytes
    BY <1>1
  <2> DEFINE n == IF Len(b) - off < Payload THEN Len(b) ELSE off + Payload
  <2>2. n \in Nat /\ off + 1 <= n /\ n <= Len(b)
    BY <1>1, <2>1, PayloadAssumption
  <2>3. Slice(b, off) = SubSeq(b, off + 1, n)
    BY <1>1, Zenon DEF Slice
  <2>4. \A i \in off + 1 .. n : b[i] \in Bytes
    BY <2>1, <2>2
  <2>5. /\ SubSeq(b, off + 1, n) \in Seq(Bytes)
        /\ Len(SubSeq(b, off + 1, n)) = n - off
        /\ \A i \in 1 .. n - off : SubSeq(b, off + 1, n)[i] = b[off + i]
    <3> HIDE DEF n
    <3>1. off + 1 \in Int /\ n \in Int
      BY <2>2
    <3>2. /\ SubSeq(b, off + 1, n) \in Seq(Bytes)
          /\ Len(SubSeq(b, off + 1, n)) = IF off + 1 <= n THEN n - (off + 1) + 1 ELSE 0
          /\ \A i \in 1 .. n - (off + 1) + 1 :
               SubSeq(b, off + 1, n)[i] = b[(off + 1) + i - 1]
      BY <2>4, <3>1, SubSeqProperties
    <3>3. \A i \in 1 .. n - off : (off + 1) + i - 1 = off + i
      OBVIOUS
    <3> QED
      BY <2>2, <3>2, <3>3
  <2>6. n - off < Payload => n = Len(b)
    BY <2>1, PayloadAssumption
  <2> HIDE DEF n
  <2> QED
    BY <1>1, <2>1, <2>2, <2>3, <2>5, <2>6, SMTT(30)
<1>2. CASE ~(b # NULL /\ off < Len(b))
  <2>1. Slice(b, off) = << >>
    BY <1>2 DEF Slice
  <2>2. b # NULL => Len(b) \in Nat
    OBVIOUS
  <2> QED
    BY <1>2, <2>1, <2>2, PayloadAssumption
<1> QED
  BY <1>1, <1>2

\* The shapes imply the type invariant.
LEMMA ShapesGiveTypes == Shapes /\ Flags => TypeOK
<1> SUFFICES ASSUME Shapes, Flags PROVE TypeOK
  OBVIOUS
<1>1. \A s \in Seq(Bytes) : TextOK(s)
  BY DEF TextOK
<1>2. \A i \in DOMAIN queue : queue[i] \in Requests
  BY DEF Shapes
<1> QED
  BY <1>1, <1>2 DEF Shapes, Flags, TypeOK, Requests

\* The text a reader has is no longer than a listing can be.
LEMMA OffsetBound ==
    ASSUME IInv, NEW r \in Readers
    PROVE  offset[r] \in 0 .. MaxLen
<1>1. /\ sb[r] \in Seq(Bytes)
      /\ offset[r] = Len(sb[r])
      /\ \A i \in DOMAIN sb[r] : sb[r][i][3] = i
  BY DEF IInv, Shapes, ChunksInOrder
<1>2. CASE Len(sb[r]) = 0
  BY <1>1, <1>2, BoundsAssumption
<1>3. CASE Len(sb[r]) > 0
  <2>1. Len(sb[r]) \in DOMAIN sb[r] /\ sb[r][Len(sb[r])] \in Bytes
    BY <1>1, <1>3
  <2> QED
    BY <1>1, <1>3, <2>1, ByteParts
<1> QED
  BY <1>1, <1>2, <1>3

-----------------------------------------------------------------------------
(* The invariant holds at the start and every step preserves it.           *)

LEMMA InitIInv == Init => IInv
<1> SUFFICES ASSUME Init PROVE IInv
  OBVIOUS
<1>1. \A r \in Readers : sb[r] = << >> /\ Len(sb[r]) = 0
  BY DEF Init
<1>2. Shapes
  BY <1>1, BoundsAssumption DEF Init, Shapes
<1>3. Flags
  BY DEF Init, Flags
<1>4. NoneNewer /\ ChunksInOrder
  BY <1>1 DEF Init, NoneNewer, ChunksInOrder
<1>5. BlobsWhole /\ RequestsCurrent /\ UnderWay /\ QuietReadIsPrefix /\ QuietReadIsWhole
  BY DEF Init, BlobsWhole, RequestsCurrent, UnderWay, QuietReadIsPrefix, QuietReadIsWhole
<1> QED
  BY <1>2, <1>3, <1>4, <1>5 DEF IInv

LEMMA ReadKeeps ==
    ASSUME IInv, NEW r \in Readers, NEW k \in Kinds, Read(r, k)
    PROVE  IInv'
<1> USE DEF IInv
<1>1. Shapes'
  BY BoundsAssumption DEF Shapes, Read, daemonVars
<1>2. /\ UNCHANGED daemonVars /\ pc[r] = "idle"
      /\ \A s \in Readers \ {r} : /\ pc'[s] = pc[s] /\ kind'[s] = kind[s]
                                   /\ offset'[s] = offset[s] /\ sb'[s] = sb[s]
                                   /\ status'[s] = status[s] /\ asked'[s] = asked[s]
                                   /\ upset'[s] = upset[s]
      /\ kind'[r] = k /\ pc'[r] = "ask" /\ offset'[r] = 0 /\ sb'[r] = << >>
      /\ status'[r] = "none"
  BY DEF Read, Shapes, Flags
<1>3. Flags'
  BY DEF Flags, Read, daemonVars
<1>4. BlobsWhole'
  BY <1>2 DEF BlobsWhole, daemonVars
<1>5. NoneNewer' /\ ChunksInOrder'
  <2>1. Len(sb'[r]) = 0 /\ DOMAIN sb'[r] = {}
    BY <1>2
  <2>2. NoneNewer'
    BY <1>2, <2>1, SMTT(30) DEF NoneNewer, daemonVars
  <2>3. ChunksInOrder'
    BY <1>2, <2>1, SMTT(30) DEF ChunksInOrder
  <2> QED
    BY <2>2, <2>3
<1>6. RequestsCurrent'
  <2>1. \A i \in 1 .. Len(queue) : queue[i] \in Requests
    BY DEF Shapes
  <2>2. ASSUME NEW i \in 1 .. Len(queue), queue[i].live
        PROVE  /\ pc'[queue[i].reader] = "wait"
               /\ kind'[queue[i].reader] = queue[i].kind
               /\ offset'[queue[i].reader] = queue[i].off
    <3>1. /\ pc[queue[i].reader] = "wait"
          /\ kind[queue[i].reader] = queue[i].kind
          /\ offset[queue[i].reader] = queue[i].off
      BY <2>2 DEF RequestsCurrent, Current
    <3>2. queue[i].reader \in Readers \ {r}
      BY <1>2, <2>1, <3>1 DEF Requests
    <3> QED
      BY <1>2, <3>1, <3>2
  <2>3. queue' = queue
    BY <1>2 DEF daemonVars
  <2> QED
    BY <2>2, <2>3 DEF RequestsCurrent, Current
<1>7. UnderWay'
  BY <1>2 DEF UnderWay
<1>8. QuietReadIsPrefix'
  BY <1>2 DEF QuietReadIsPrefix, daemonVars
<1>9. QuietReadIsWhole'
  BY <1>2 DEF QuietReadIsWhole
<1> QED
  BY <1>1, <1>3, <1>4, <1>5, <1>6, <1>7, <1>8, <1>9

LEMMA AskKeeps ==
    ASSUME IInv, NEW r \in Readers, Ask(r)
    PROVE  IInv'
<1> USE DEF IInv
<1> DEFINE q == [reader |-> r, kind |-> kind[r], off |-> offset[r], live |-> TRUE]
<1>1. /\ pc[r] = "ask" /\ pc'[r] = "wait"
      /\ \A s \in Readers \ {r} : pc'[s] = pc[s]
      /\ queue' = Append(queue, q)
      /\ UNCHANGED <<up, blob, builds, kind, offset, sb, status, reads, asked, upset>>
  BY DEF Ask, Shapes
<1>2. q \in Requests
  BY <1>1, OffsetBound DEF UnderWay, Requests, Shapes
<1> HIDE DEF q
<1>3. /\ queue' \in Seq(Requests)
      /\ Len(queue') = Len(queue) + 1 /\ Len(queue) \in Nat
      /\ \A i \in 1 .. Len(queue) : queue'[i] = queue[i] /\ queue[i] \in Requests
      /\ queue'[Len(queue) + 1] = q
  BY <1>1, <1>2, AppendProperties DEF Shapes
<1>4. Shapes'
  BY <1>1, <1>3 DEF Shapes, Ask
<1>5. Flags'
  BY <1>1, Zenon DEF Flags
<1>6. BlobsWhole' /\ NoneNewer' /\ ChunksInOrder'
  BY <1>1 DEF BlobsWhole, NoneNewer, ChunksInOrder
<1>7. RequestsCurrent'
  <2>1. q.reader = r /\ q.kind = kind[r] /\ q.off = offset[r] /\ q.live
    BY DEF q
  <2>2. \A i \in 1 .. Len(queue) : queue[i].live => queue[i].reader # r
    BY <1>1 DEF RequestsCurrent, Current
  <2>3. \A i \in 1 .. Len(queue') : i \in 1 .. Len(queue) \/ i = Len(queue) + 1
    BY <1>3
  <2>4. \A i \in 1 .. Len(queue') : Current(queue[i])'
    <3>1. \A i \in 1 .. Len(queue) : Current(queue[i])'
      BY <1>1, <1>3, <2>2 DEF RequestsCurrent, Current, Requests
    <3>2. ASSUME NEW i, i = Len(queue) + 1 PROVE Current(queue[i])'
      BY <1>1, <1>3, <2>1, <3>2 DEF Current
    <3> QED
      BY <2>3, <3>1, <3>2
  <2>5. \A i, j \in 1 .. Len(queue') :
          queue'[i].live /\ queue'[j].live /\ queue'[i].reader = queue'[j].reader => i = j
    BY <1>3, <2>1, <2>2, <2>3 DEF RequestsCurrent
  <2> QED
    BY <2>4, <2>5 DEF RequestsCurrent
<1>8. UnderWay' /\ QuietReadIsPrefix' /\ QuietReadIsWhole'
  BY <1>1 DEF UnderWay, QuietReadIsPrefix, QuietReadIsWhole
<1> QED
  BY <1>4, <1>5, <1>6, <1>7, <1>8

\* The ways a read ends without an answer: the queue keeps its requests, and
\* none of those somebody waits for is of this reader any more.
LEMMA EndKeeps ==
    ASSUME IInv, NEW r \in Readers, NEW st \in {"partial", "empty", "error"},
           pc[r] # "idle",
           pc' = [pc EXCEPT ![r] = "idle"],
           status' = [status EXCEPT ![r] = st],
           UNCHANGED <<up, blob, builds, kind, offset, sb, reads, asked, upset>>,
           queue' \in Seq(Requests),
           Len(queue') = Len(queue),
           \A i \in 1 .. Len(queue) :
              /\ queue'[i].reader = queue[i].reader
              /\ queue'[i].kind = queue[i].kind
              /\ queue'[i].off = queue[i].off
              /\ queue'[i].live => queue[i].live /\ queue[i].reader # r
    PROVE  IInv'
<1> USE DEF IInv
<1>1. Shapes'
  BY DEF Shapes
<1>2. Flags'
  BY Zenon DEF Flags
<1>3. /\ pc'[r] = "idle" /\ status'[r] = st
      /\ \A s \in Readers \ {r} : pc'[s] = pc[s] /\ status'[s] = status[s]
  BY DEF Shapes
<1>4. BlobsWhole' /\ NoneNewer' /\ ChunksInOrder'
  BY DEF BlobsWhole, NoneNewer, ChunksInOrder
<1>5. RequestsCurrent'
  <2>1. \A i \in 1 .. Len(queue) : queue[i] \in Requests
    BY DEF Shapes
  <2>2. \A i \in 1 .. Len(queue') : Current(queue[i])'
    BY <1>3, <2>1 DEF RequestsCurrent, Current, Requests
  <2>3. \A i, j \in 1 .. Len(queue') :
          queue'[i].live /\ queue'[j].live /\ queue'[i].reader = queue'[j].reader => i = j
    BY DEF RequestsCurrent
  <2> QED
    BY <2>2, <2>3 DEF RequestsCurrent
<1>6. UnderWay' /\ QuietReadIsPrefix' /\ QuietReadIsWhole'
  BY <1>3 DEF UnderWay, QuietReadIsPrefix, QuietReadIsWhole
<1> QED
  BY <1>1, <1>2, <1>4, <1>5, <1>6

LEMMA AskEndsKeeps ==
    ASSUME IInv, NEW r \in Readers, AskFail(r) \/ AskUnconnected(r)
    PROVE  IInv'
<1>1. PICK st \in {"partial", "empty", "error"} : status' = [status EXCEPT ![r] = st]
  BY DEF AskFail, AskUnconnected, NotConnected
<1>2. /\ pc[r] = "ask" /\ pc' = [pc EXCEPT ![r] = "idle"]
      /\ UNCHANGED <<daemonVars, kind, offset, sb, reads, asked, upset>>
  BY DEF AskFail, AskUnconnected
<1>3. \A i \in 1 .. Len(queue) : queue[i].live => queue[i].reader # r
  BY <1>2 DEF IInv, RequestsCurrent, Current
<1>4. queue \in Seq(Requests)
  BY DEF IInv, Shapes
<1> QED
  BY <1>1, <1>2, <1>3, <1>4, EndKeeps, Zenon DEF daemonVars

LEMMA TimeoutKeeps ==
    ASSUME IInv, NEW r \in Readers, Timeout(r)
    PROVE  IInv'
<1>1. queue \in Seq(Requests) /\ DOMAIN queue = 1 .. Len(queue) /\ Len(queue) \in Nat
  BY DEF IInv, Shapes
<1>2. \A i \in 1 .. Len(queue) : queue[i] \in Requests
  BY <1>1
<1>3. \A i \in 1 .. Len(queue) :
        queue'[i] = [queue[i] EXCEPT !.live = queue[i].live /\ queue[i].reader # r]
  BY <1>1 DEF Timeout
<1>4. \A i \in 1 .. Len(queue) :
        /\ queue'[i].reader = queue[i].reader
        /\ queue'[i].kind = queue[i].kind
        /\ queue'[i].off = queue[i].off
        /\ queue'[i].live = (queue[i].live /\ queue[i].reader # r)
  BY <1>2, <1>3 DEF Requests
<1>5. \A i \in 1 .. Len(queue) : queue'[i] \in Requests
  BY <1>2, <1>3 DEF Requests
<1>6. queue' \in [1 .. Len(queue) -> Requests]
  BY <1>1, <1>5 DEF Timeout
<1>7. queue' \in Seq(Requests) /\ Len(queue') = Len(queue)
  BY <1>1, <1>6
<1>8. \A i \in 1 .. Len(queue) : queue'[i].live => queue[i].live /\ queue[i].reader # r
  BY <1>4
<1> QED
  BY <1>4, <1>7, <1>8, EndKeeps, Zenon DEF Timeout

LEMMA DieKeeps == IInv /\ Die => IInv'
<1> SUFFICES ASSUME IInv, Die PROVE IInv'
  OBVIOUS
<1> USE DEF IInv
<1>1. /\ queue' = << >> /\ blob' = [k \in Kinds |-> NULL]
      /\ \A r \in Readers : upset'[r]
      /\ \A r \in Readers : pc'[r] = IF pc[r] = "wait" THEN "idle" ELSE pc[r]
      /\ \A r \in Readers :
           status'[r] = IF pc[r] = "wait" THEN NotConnected(r) ELSE status[r]
      /\ \A r \in Readers : NotConnected(r) \in {"partial", "empty"}
      /\ UNCHANGED <<builds, kind, offset, sb, reads, asked>>
  BY DEF Die, NotConnected
<1>2. Shapes'
  BY <1>1 DEF Shapes, Die
<1>3. Flags'
  BY DEF Flags, Die
<1>4. BlobsWhole' /\ NoneNewer' /\ ChunksInOrder'
  BY <1>1 DEF BlobsWhole, NoneNewer, ChunksInOrder
<1>5. RequestsCurrent'
  BY <1>1 DEF RequestsCurrent
<1>6. UnderWay' /\ QuietReadIsPrefix' /\ QuietReadIsWhole'
  BY <1>1 DEF UnderWay, QuietReadIsPrefix, QuietReadIsWhole
<1> QED
  BY <1>2, <1>3, <1>4, <1>5, <1>6

LEMMA RestartKeeps == IInv /\ (Restart \/ UNCHANGED vars) => IInv'
<1> SUFFICES ASSUME IInv, Restart \/ UNCHANGED vars PROVE IInv'
  OBVIOUS
<1> USE DEF IInv
<1>1. /\ up' \in BOOLEAN
      /\ UNCHANGED <<blob, builds, queue, readerVars>>
  BY DEF Restart, vars, daemonVars, Flags
<1>2. Shapes'
  BY <1>1 DEF Shapes, readerVars
<1>3. Flags'
  BY <1>1, Zenon DEF Flags, readerVars
<1>4. BlobsWhole' /\ NoneNewer' /\ ChunksInOrder'
  BY <1>1 DEF BlobsWhole, NoneNewer, ChunksInOrder, readerVars
<1>5. RequestsCurrent'
  BY <1>1, Zenon DEF RequestsCurrent, Current, readerVars
<1>6. UnderWay' /\ QuietReadIsPrefix' /\ QuietReadIsWhole'
  BY <1>1 DEF UnderWay, QuietReadIsPrefix, QuietReadIsWhole, readerVars
<1> QED
  BY <1>2, <1>3, <1>4, <1>5, <1>6

-----------------------------------------------------------------------------
(* Serve: the daemon builds or keeps the listing, then the reader takes    *)
(* its chunk.                                                              *)

Served == Head(queue)
Taker == Served.reader
Chunk == Slice(blob'[Served.kind], Served.off)

\* The daemon's part: only the listing of the kind asked for changes, and only
\* at offset 0; the new one is newer than all before.
LEMMA ServeBuilds ==
    ASSUME IInv, Serve
    PROVE  /\ Served \in Requests /\ Served = queue[1] /\ Len(queue) \in Nat /\ Len(queue) >= 1
           /\ blob' \in [Kinds -> Seq(Bytes) \union {NULL}]
           /\ builds' \in 0 .. MaxBuilds /\ builds <= builds'
           /\ \A k \in Kinds : k # Served.kind => blob'[k] = blob[k]
           /\ Served.off # 0 => UNCHANGED <<blob, builds, asked, upset>>
           /\ Served.off = 0 =>
                /\ builds' = builds + 1
                /\ blob'[Served.kind] # NULL =>
                     \A i \in 1 .. Len(blob'[Served.kind]) :
                       /\ blob'[Served.kind][i][1] = Served.kind
                       /\ blob'[Served.kind][i][2] = builds + 1
                       /\ blob'[Served.kind][i][3] = i
<1> USE DEF IInv
<1>1. Served \in Requests /\ Served = queue[1] /\ Len(queue) \in Nat /\ Len(queue) >= 1
  <2>1. queue \in Seq(Requests) /\ queue # << >>
    BY DEF Shapes, Serve
  <2> QED
    BY <2>1, EmptySeq, ElementOfSeq DEF Served
<1>2. CASE Served.off # 0
  <2>1. UNCHANGED <<blob, builds, asked, upset>>
    BY <1>2 DEF Serve, Served
  <2> QED
    BY <1>1, <1>2, <2>1, BoundsAssumption DEF Shapes
<1>3. CASE Served.off = 0
  <2> DEFINE k == Served.kind
  <2>1. k \in Kinds
    BY <1>1 DEF Requests
  <2>2. Build(k)
    BY <1>3 DEF Serve, Served
  <2>3. PICK b \in {NULL} \union {Text(k, builds + 1, l) : l \in 0 .. MaxLen} :
          blob' = [blob EXCEPT ![k] = b]
    BY <2>2, Zenon DEF Build
  <2>4. builds' = builds + 1 /\ builds + 1 \in 1 .. MaxBuilds /\ builds \in Nat
    BY <2>2, BoundsAssumption DEF Build, Shapes
  <2>5. b # NULL => /\ b \in Seq(Bytes)
                    /\ \A i \in 1 .. Len(b) :
                         b[i][1] = k /\ b[i][2] = builds + 1 /\ b[i][3] = i
    <3> SUFFICES ASSUME b # NULL
                 PROVE  /\ b \in Seq(Bytes)
                        /\ \A i \in 1 .. Len(b) :
                             b[i][1] = k /\ b[i][2] = builds + 1 /\ b[i][3] = i
      OBVIOUS
    <3> HIDE DEF k
    <3>1. PICK l \in 0 .. MaxLen : b = Text(k, builds + 1, l)
      BY <2>3
    <3> QED
      BY <2>1, <2>4, <3>1, TextIsListing
  <2>6. blob'[k] = b /\ \A m \in Kinds : m # k => blob'[m] = blob[m]
    BY <2>1, <2>3 DEF Shapes
  <2>7. blob' \in [Kinds -> Seq(Bytes) \union {NULL}]
    BY <2>1, <2>3, <2>5 DEF Shapes
  <2> QED
    BY <1>1, <1>3, <2>4, <2>5, <2>6, <2>7, BoundsAssumption
<1> QED
  BY <1>2, <1>3

\* The reader's part: the chunk continues what the reader has with the bytes
\* of the cached listing at those positions.
LEMMA ServeDelivers ==
    ASSUME IInv, Serve
    PROVE  /\ kind' = kind /\ reads' = reads
           /\ Chunk \in Seq(Bytes)
           /\ \A s \in Readers : ~(Served.live /\ s = Taker) =>
                /\ pc'[s] = pc[s] /\ status'[s] = status[s]
                /\ sb'[s] = sb[s] /\ offset'[s] = offset[s]
           /\ Served.live =>
                /\ Taker \in Readers
                /\ pc[Taker] = "wait" /\ kind[Taker] = Served.kind
                /\ Len(sb[Taker]) = Served.off /\ offset[Taker] = Served.off
                /\ sb'[Taker] \in Seq(Bytes)
                /\ Len(sb'[Taker]) = Served.off + Len(Chunk) /\ offset'[Taker] = Len(sb'[Taker])
                /\ \A i \in 1 .. Len(sb'[Taker]) :
                     IF i <= Served.off THEN sb'[Taker][i] = sb[Taker][i]
                     ELSE /\ blob'[Served.kind] # NULL
                          /\ i <= Len(blob'[Served.kind])
                          /\ sb'[Taker][i] = blob'[Served.kind][i]
                /\ IF Len(Chunk) < Payload
                   THEN pc'[Taker] = "idle" /\ status'[Taker] = "ok"
                   ELSE pc'[Taker] = "ask" /\ status'[Taker] = status[Taker]
<1> USE DEF IInv
<1> DEFINE b == blob'[Served.kind]
<1>1. /\ Served \in Requests /\ Served = queue[1] /\ 1 \in 1 .. Len(queue)
      /\ b \in Seq(Bytes) \union {NULL} /\ Served.off \in Nat
  BY ServeBuilds, BoundsAssumption DEF Requests
<1>2. /\ Chunk \in Seq(Bytes)
      /\ \A i \in 1 .. Len(Chunk) : b # NULL /\ Served.off + i <= Len(b) /\ Chunk[i] = b[Served.off + i]
  BY <1>1, SliceCuts, ZenonT(30) DEF Chunk
<1>3. kind' = kind /\ reads' = reads
  BY DEF Serve
<1>4. CASE ~Served.live
  <2>1. UNCHANGED <<sb, offset, pc, status>>
    BY <1>4 DEF Serve, Served
  <2> QED
    BY <1>2, <1>3, <1>4, <2>1
<1>5. CASE Served.live
  <2>1. Taker \in Readers
    BY <1>1 DEF Requests, Taker
  <2>2. Receive(Taker, Chunk)
    BY <1>5 DEF Serve, Served, Taker, Chunk
  <2>3. pc[Taker] = "wait" /\ kind[Taker] = Served.kind /\ offset[Taker] = Served.off /\ Len(sb[Taker]) = Served.off
    BY <1>1, <1>5, <2>1 DEF RequestsCurrent, Current, Shapes, Taker
  <2>4. /\ sb'[Taker] = sb[Taker] \o Chunk /\ offset'[Taker] = offset[Taker] + Len(Chunk)
        /\ \A s \in Readers : s # Taker => sb'[s] = sb[s] /\ offset'[s] = offset[s]
    BY <2>1, <2>2 DEF Receive, Shapes
  <2>5. /\ IF Len(Chunk) < Payload
           THEN pc'[Taker] = "idle" /\ status'[Taker] = "ok"
           ELSE pc'[Taker] = "ask" /\ status'[Taker] = status[Taker]
        /\ \A s \in Readers : s # Taker => pc'[s] = pc[s] /\ status'[s] = status[s]
    BY <2>1, <2>2 DEF Receive, Shapes
  <2>6. sb[Taker] \in Seq(Bytes)
    BY <2>1 DEF Shapes
  <2>7. /\ sb'[Taker] \in Seq(Bytes)
        /\ Len(sb'[Taker]) = Served.off + Len(Chunk)
        /\ \A i \in 1 .. Served.off + Len(Chunk) :
             sb'[Taker][i] = IF i <= Served.off THEN sb[Taker][i] ELSE Chunk[i - Served.off]
    BY <1>2, <2>3, <2>4, <2>6, ConcatProperties
  <2>8. \A i \in 1 .. Len(sb'[Taker]) :
          IF i <= Served.off THEN sb'[Taker][i] = sb[Taker][i]
          ELSE b # NULL /\ i <= Len(b) /\ sb'[Taker][i] = b[i]
    <3> SUFFICES ASSUME NEW i \in 1 .. Len(sb'[Taker]), ~(i <= Served.off)
                 PROVE  b # NULL /\ i <= Len(b) /\ sb'[Taker][i] = b[i]
      BY <1>1, <1>2, <2>7
    <3> HIDE DEF b
    <3>1. Len(Chunk) \in Nat
      BY <1>2
    <3>2. i - Served.off \in 1 .. Len(Chunk) /\ Served.off + (i - Served.off) = i /\ i \in 1 .. Served.off + Len(Chunk)
      BY <1>1, <2>7, <3>1
    <3> QED
      BY <1>2, <2>7, <3>2
  <2>9. \A s \in Readers : ~(Served.live /\ s = Taker) => s # Taker
    BY <1>5
  <2>10. offset'[Taker] = Len(sb'[Taker])
    BY <2>3, <2>4, <2>7
  <2> QED
    BY <1>2, <1>3, <2>1, <2>3, <2>4, <2>5, <2>7, <2>8, <2>9, <2>10, Zenon
<1> QED
  BY <1>4, <1>5

LEMMA ServeShapes ==
    ASSUME IInv, Serve
    PROVE  Shapes' /\ Flags'
<1> USE DEF IInv
<1>1. sb' \in [Readers -> Seq(Bytes)] /\ \A s \in Readers : offset'[s] = Len(sb'[s])
  <2>1. DOMAIN sb' = Readers /\ sb' = [s \in Readers |-> sb'[s]]
    BY Zenon DEF Serve, Receive, Shapes
  <2>2. \A s \in Readers : sb'[s] \in Seq(Bytes) /\ offset'[s] = Len(sb'[s])
    BY ServeDelivers DEF Shapes
  <2> QED
    BY <2>1, <2>2
<1>2. offset' \in [Readers -> Nat]
  <2>1. offset' = [s \in Readers |-> offset'[s]]
    BY Zenon DEF Serve, Receive, Shapes
  <2>2. \A s \in Readers : offset'[s] \in Nat
    BY <1>1
  <2> QED
    BY <2>1, <2>2
<1>3. /\ pc' \in [Readers -> {"idle", "ask", "wait"}]
      /\ status' \in [Readers -> {"none", "ok", "partial", "empty", "error"}]
  BY ZenonT(30) DEF Serve, Receive, Shapes
<1>4. queue' \in Seq(Requests)
  BY HeadTailProperties DEF Serve, Shapes
<1>5. asked' \in [Readers -> Seq(Bytes) \union {NULL}]
  <2>1. CASE Served.off # 0
    BY <2>1, ServeBuilds DEF Shapes
  <2>2. CASE Served.off = 0
    <3>1. NoteBuild(Served)
      BY <2>2 DEF Serve, Served
    <3>2. blob'[Served.kind] \in Seq(Bytes) \union {NULL}
      BY ServeBuilds DEF Requests
    <3>3. << >> \in Seq(Bytes)
      OBVIOUS
    <3> QED
      BY <3>1, <3>2, <3>3 DEF NoteBuild, Shapes
  <2> QED
    BY <2>1, <2>2
<1>6. Shapes'
  BY <1>1, <1>2, <1>3, <1>4, <1>5, ServeBuilds, ServeDelivers, ZenonT(30) DEF Shapes
<1>7. Flags'
  <2>1. CASE Served.off # 0
    BY <2>1, ServeBuilds DEF Flags, Serve
  <2>2. CASE Served.off = 0
    <3>1. NoteBuild(Served)
      BY <2>2 DEF Serve, Served
    <3>2. upset' \in [Readers -> BOOLEAN]
      BY <3>1 DEF NoteBuild
    <3>3. up' = up
      BY DEF Serve
    <3> QED
      BY <3>2, <3>3, Zenon DEF Flags
  <2> QED
    BY <2>1, <2>2
<1> QED
  BY <1>6, <1>7

\* Chunks stay in order: a new byte is of the listing that is cached now.
LEMMA ServeOrder ==
    ASSUME IInv, Serve
    PROVE  BlobsWhole' /\ NoneNewer' /\ ChunksInOrder'
<1> USE DEF IInv
<1>1. /\ builds \in Nat /\ builds' \in Nat /\ builds <= builds'
      /\ Served.kind \in Kinds /\ Served.off \in Nat
  <2>1. builds \in 0 .. MaxBuilds
    BY DEF Shapes
  <2>2. Served \in Requests /\ builds' \in 0 .. MaxBuilds /\ builds <= builds'
    BY ServeBuilds
  <2>3. Served.kind \in Kinds /\ Served.off \in 0 .. MaxLen
    BY <2>2 DEF Requests
  <2> QED
    BY <2>1, <2>2, <2>3, BoundsAssumption
<1>2. \A k \in Kinds : blob'[k] # NULL =>
        \A i \in 1 .. Len(blob'[k]) : blob'[k][i] \in Bytes /\ blob'[k][i][2] \in Nat
  BY ServeBuilds, ByteParts, ElementOfSeq
<1>3. \A s \in Readers : \A i \in 1 .. Len(sb[s]) : sb[s][i][2] \in Nat
  BY ByteParts, ElementOfSeq DEF Shapes
<1>4. BlobsWhole'
  <2> SUFFICES ASSUME NEW k \in Kinds, blob'[k] # NULL, NEW i \in 1 .. Len(blob'[k])
               PROVE  /\ blob'[k][i][1] = k
                      /\ blob'[k][i][3] = i
                      /\ blob'[k][i][2] <= builds'
                      /\ \A j \in 1 .. Len(blob'[k]) : blob'[k][j][2] = blob'[k][i][2]
    BY DEF BlobsWhole
  <2>1. CASE Served.off = 0 /\ k = Served.kind
    BY <1>1, <2>1, ServeBuilds
  <2>2. CASE ~(Served.off = 0 /\ k = Served.kind)
    <3>1. blob'[k] = blob[k]
      BY <2>2, ServeBuilds
    <3>2. /\ blob[k][i][1] = k
          /\ blob[k][i][3] = i
          /\ blob[k][i][2] <= builds
          /\ \A j \in 1 .. Len(blob[k]) : blob[k][j][2] = blob[k][i][2]
      BY <3>1 DEF BlobsWhole
    <3>3. blob[k][i][2] \in Nat
      BY <1>2, <3>1
    <3> QED
      BY <1>1, <3>1, <3>2, <3>3
  <2> QED
    BY <2>1, <2>2
<1>5. \A s \in Readers : \A i \in 1 .. Len(sb[s]) :
        /\ sb[s][i][2] <= builds'
        /\ \A k \in Kinds : kind[s] = k /\ blob'[k] # NULL =>
             \A j \in 1 .. Len(blob'[k]) : sb[s][i][2] <= blob'[k][j][2]
  <2> SUFFICES ASSUME NEW s \in Readers, NEW i \in 1 .. Len(sb[s])
               PROVE  /\ sb[s][i][2] <= builds'
                      /\ \A k \in Kinds : kind[s] = k /\ blob'[k] # NULL =>
                           \A j \in 1 .. Len(blob'[k]) : sb[s][i][2] <= blob'[k][j][2]
    OBVIOUS
  <2>1. sb[s][i][2] <= builds /\ sb[s][i][2] \in Nat
    BY <1>3 DEF NoneNewer
  <2>2. ASSUME NEW k \in Kinds, kind[s] = k, blob'[k] # NULL, NEW j \in 1 .. Len(blob'[k])
        PROVE  sb[s][i][2] <= blob'[k][j][2]
    <3>1. CASE Served.off = 0 /\ k = Served.kind
      BY <1>1, <2>1, <2>2, <3>1, ServeBuilds
    <3>2. CASE ~(Served.off = 0 /\ k = Served.kind)
      <4>1. blob'[k] = blob[k]
        BY <3>2, ServeBuilds
      <4> QED
        BY <2>2, <4>1 DEF NoneNewer
    <3> QED
      BY <3>1, <3>2
  <2> QED
    BY <1>1, <2>1, <2>2
<1>6. ASSUME NEW s \in Readers, ~(Served.live /\ s = Taker)
      PROVE  sb'[s] = sb[s] /\ kind'[s] = kind[s]
  BY <1>6, ServeDelivers
<1> DEFINE b == blob'[Served.kind]
<1>7. ASSUME Served.live
      PROVE  /\ Taker \in Readers /\ kind'[Taker] = Served.kind /\ kind[Taker] = Served.kind
             /\ Len(sb[Taker]) = Served.off /\ Len(sb'[Taker]) \in Nat
             /\ \A i \in 1 .. Len(sb'[Taker]) :
                  IF i <= Served.off THEN sb'[Taker][i] = sb[Taker][i] /\ i \in 1 .. Len(sb[Taker])
                  ELSE b # NULL /\ i \in 1 .. Len(b) /\ sb'[Taker][i] = b[i]
  <2>1. Len(b) \in Nat \/ b = NULL
    BY <1>1, ServeBuilds
  <2> HIDE DEF b
  <2>2. /\ Taker \in Readers /\ kind'[Taker] = Served.kind /\ kind[Taker] = Served.kind
        /\ Len(sb[Taker]) = Served.off /\ Len(sb'[Taker]) \in Nat
        /\ \A i \in 1 .. Len(sb'[Taker]) :
             IF i <= Served.off THEN sb'[Taker][i] = sb[Taker][i]
             ELSE b # NULL /\ i <= Len(b) /\ sb'[Taker][i] = b[i]
    BY <1>7, ServeDelivers DEF b
  <2> QED
    BY <1>1, <2>1, <2>2
<1>8. NoneNewer'
  <2> SUFFICES ASSUME NEW s \in Readers, NEW i \in 1 .. Len(sb'[s])
               PROVE  /\ sb'[s][i][2] <= builds'
                      /\ \A k \in Kinds : kind'[s] = k /\ blob'[k] # NULL =>
                           \A j \in 1 .. Len(blob'[k]) : sb'[s][i][2] <= blob'[k][j][2]
    BY DEF NoneNewer
  <2>1. CASE ~(Served.live /\ s = Taker)
    BY <1>5, <1>6, <2>1
  <2>2. CASE Served.live /\ s = Taker /\ i <= Served.off
    BY <1>5, <1>7, <2>2, SMTT(30)
  <2>3. CASE Served.live /\ s = Taker /\ ~(i <= Served.off)
    <3>1. b # NULL /\ i \in 1 .. Len(b) /\ sb'[s][i] = b[i] /\ kind'[s] = Served.kind
      BY <1>7, <2>3
    <3>2. /\ b[i][2] <= builds' /\ b[i][2] \in Nat
          /\ \A j \in 1 .. Len(b) : b[j][2] = b[i][2]
      BY <1>1, <1>2, <1>4, <3>1 DEF BlobsWhole
    <3> QED
      BY <3>1, <3>2
  <2> QED
    BY <2>1, <2>2, <2>3
<1>9. ChunksInOrder'
  <2> SUFFICES ASSUME NEW s \in Readers, NEW i \in DOMAIN sb'[s]
               PROVE  /\ sb'[s][i][1] = kind'[s]
                      /\ sb'[s][i][3] = i
                      /\ i > 1 => sb'[s][i - 1][2] <= sb'[s][i][2]
    BY DEF ChunksInOrder
  <2>1. DOMAIN sb'[s] = 1 .. Len(sb'[s]) /\ DOMAIN sb[s] = 1 .. Len(sb[s])
    BY ServeShapes DEF Shapes
  <2>2. CASE ~(Served.live /\ s = Taker)
    BY <1>6, <2>2 DEF ChunksInOrder
  <2>3. CASE Served.live /\ s = Taker /\ i <= Served.off
    <3>1. i \in 1 .. Len(sb[s]) /\ sb'[s][i] = sb[s][i] /\ kind'[s] = kind[s]
      BY <1>7, <2>1, <2>3
    <3>2. i > 1 => sb'[s][i - 1] = sb[s][i - 1]
      <4>1. i > 1 => i - 1 \in 1 .. Len(sb'[s]) /\ i - 1 <= Served.off
        BY <1>1, <1>7, <2>1, <2>3
      <4> QED
        BY <1>7, <2>3, <4>1
    <3> QED
      BY <2>1, <3>1, <3>2 DEF ChunksInOrder
  <2>4. CASE Served.live /\ s = Taker /\ ~(i <= Served.off)
    <3>1. b # NULL /\ i \in 1 .. Len(b) /\ sb'[s][i] = b[i] /\ kind'[s] = Served.kind
      BY <1>7, <2>1, <2>4
    <3>2. /\ b[i][1] = Served.kind /\ b[i][3] = i /\ b[i][2] \in Nat
          /\ \A j \in 1 .. Len(b) : b[j][2] = b[i][2]
      BY <1>1, <1>2, <1>4, <3>1 DEF BlobsWhole
    <3>3. ASSUME i > 1 PROVE sb'[s][i - 1][2] <= sb'[s][i][2]
      <4>1. i - 1 \in 1 .. Len(sb'[s])
        BY <1>7, <2>1, <2>4, <3>3
      <4>2. CASE i - 1 <= Served.off
        <5>1. sb'[s][i - 1] = sb[s][i - 1] /\ i - 1 \in 1 .. Len(sb[s]) /\ kind[s] = Served.kind
          BY <1>7, <2>4, <4>1, <4>2
        <5> QED
          BY <1>1, <1>5, <3>1, <5>1
      <4>3. CASE ~(i - 1 <= Served.off)
        <5>1. i - 1 \in 1 .. Len(b) /\ sb'[s][i - 1] = b[i - 1]
          BY <1>7, <2>4, <4>1, <4>3
        <5> QED
          BY <3>1, <3>2, <5>1
      <4> QED
        BY <4>2, <4>3
    <3> QED
      BY <3>1, <3>2, <3>3
  <2> QED
    BY <2>2, <2>3, <2>4
<1> QED
  BY <1>4, <1>8, <1>9

LEMMA ServeRequests ==
    ASSUME IInv, Serve
    PROVE  RequestsCurrent' /\ UnderWay'
<1> USE DEF IInv
<1>1. /\ queue \in Seq(Requests) /\ queue # << >> /\ queue' = Tail(queue)
      /\ Len(queue) \in Nat /\ Served = queue[1] /\ Len(queue) >= 1
  BY ServeBuilds DEF Shapes, Serve
<1>2. /\ Len(queue') = Len(queue) - 1
      /\ \A i \in 1 .. Len(queue') : queue'[i] = queue[i + 1]
  BY <1>1, HeadTailProperties
<1>3. \A i \in 1 .. Len(queue') : i + 1 \in 1 .. Len(queue) /\ i + 1 # 1
  BY <1>1, <1>2
<1>4. \A i \in 1 .. Len(queue') : queue'[i] \in Requests
  BY <1>1, <1>2, <1>3
<1>5. \A i \in 1 .. Len(queue') :
        queue'[i].live => ~(Served.live /\ queue'[i].reader = Taker)
  BY <1>1, <1>2, <1>3 DEF RequestsCurrent, Taker
<1>6. ASSUME NEW i \in 1 .. Len(queue'), queue'[i].live
      PROVE  /\ pc'[queue'[i].reader] = "wait"
             /\ kind'[queue'[i].reader] = queue'[i].kind
             /\ offset'[queue'[i].reader] = queue'[i].off
  <2>1. queue'[i].reader \in Readers
    BY <1>4 DEF Requests
  <2>2. /\ pc[queue'[i].reader] = "wait"
        /\ kind[queue'[i].reader] = queue'[i].kind
        /\ offset[queue'[i].reader] = queue'[i].off
    BY <1>2, <1>3, <1>6 DEF RequestsCurrent, Current
  <2> QED
    BY <1>5, <1>6, <2>1, <2>2, ServeDelivers
<1>7. \A i, j \in 1 .. Len(queue') :
        queue'[i].live /\ queue'[j].live /\ queue'[i].reader = queue'[j].reader => i = j
  <2> SUFFICES ASSUME NEW i \in 1 .. Len(queue'), NEW j \in 1 .. Len(queue'),
                      queue'[i].live, queue'[j].live, queue'[i].reader = queue'[j].reader
               PROVE  i = j
    OBVIOUS
  <2>1. i + 1 = j + 1
    BY <1>2, <1>3 DEF RequestsCurrent
  <2> QED
    BY <2>1
<1>8. RequestsCurrent'
  BY <1>6, <1>7 DEF RequestsCurrent, Current
<1>9. UnderWay'
  <2> SUFFICES ASSUME NEW s \in Readers, pc'[s] # "idle"
               PROVE  kind'[s] \in Kinds /\ status'[s] = "none"
    BY DEF UnderWay
  <2>1. pc[s] # "idle" /\ status'[s] = status[s] /\ kind'[s] = kind[s]
    BY ServeDelivers
  <2> QED
    BY <2>1 DEF UnderWay
<1> QED
  BY <1>8, <1>9

\* A read nothing disturbs goes on in the listing it began with, and ends with
\* the whole of it.
LEMMA ServeQuiet ==
    ASSUME IInv, Serve
    PROVE  QuietReadIsPrefix' /\ QuietReadIsWhole'
<1> USE DEF IInv
<1> DEFINE b == blob'[Served.kind]
<1>1. Served.kind \in Kinds /\ Served.off \in Nat /\ b \in Seq(Bytes) \union {NULL}
  BY ServeBuilds, BoundsAssumption DEF Requests
\* Another reader is as it was, and its listing too unless it is upset.
<1>2. ASSUME NEW s \in Readers, ~(Served.live /\ s = Taker), ~upset'[s]
      PROVE  /\ pc'[s] = pc[s] /\ status'[s] = status[s] /\ sb'[s] = sb[s]
             /\ offset'[s] = offset[s] /\ kind'[s] = kind[s]
             /\ ~upset[s] /\ asked'[s] = asked[s]
             /\ kind[s] \in Kinds => blob'[kind[s]] = blob[kind[s]]
  <2>1. CASE Served.off # 0
    BY <1>2, <2>1, ServeBuilds, ServeDelivers
  <2>2. CASE Served.off = 0
    <3>1. NoteBuild(Served)
      BY <2>2 DEF Serve, Served
    <3>2. ~upset[s] /\ kind[s] # Served.kind /\ asked'[s] = asked[s]
      BY <1>2, <3>1 DEF NoteBuild, Taker
    <3> QED
      BY <1>2, <3>2, ServeBuilds, ServeDelivers
  <2> QED
    BY <2>1, <2>2
\* The reader that is served has a prefix of the listing its chunk is cut from.
<1>3. ASSUME Served.live, ~upset'[Taker]
      PROVE  /\ Taker \in Readers
             /\ b # NULL => asked'[Taker] = b /\ Served.off <= Len(b)
             /\ b = NULL => asked'[Taker] = << >> /\ Served.off = 0
             /\ \A i \in 1 .. Served.off : sb[Taker][i] = b[i]
  <2>1. Taker \in Readers /\ pc[Taker] = "wait" /\ kind[Taker] = Served.kind /\ offset[Taker] = Served.off
    BY <1>3, ServeDelivers
  <2>2. CASE Served.off # 0
    <3>1. UNCHANGED <<blob, asked, upset>>
      BY <2>2, ServeBuilds
    <3>2. Served.off > 0
      BY <1>1, <2>2
    <3> QED
      BY <1>3, <2>1, <3>1, <3>2 DEF QuietReadIsPrefix
  <2>3. CASE Served.off = 0
    <3>1. NoteBuild(Served)
      BY <2>3 DEF Serve, Served
    <3>2. asked'[Taker] = IF b = NULL THEN << >> ELSE b
      BY <1>3, <2>1, <3>1 DEF NoteBuild, Taker
    <3>3. b # NULL => Len(b) \in Nat
      BY <1>1
    <3> QED
      BY <2>1, <2>3, <3>2, <3>3
  <2> QED
    BY <2>2, <2>3
<1>4. /\ b # NULL /\ Served.off <= Len(b) /\ Len(Chunk) < Payload
           => Served.off + Len(Chunk) = Len(b)
      /\ b = NULL => Chunk = << >>
      /\ Len(Chunk) >= Payload => b # NULL /\ Served.off + Len(Chunk) <= Len(b)
  BY <1>1, SliceCuts, ZenonT(30) DEF Chunk
<1>5. ASSUME Served.live, ~upset'[Taker]
      PROVE  \A i \in 1 .. Len(sb'[Taker]) : sb'[Taker][i] = b[i]
  <2> SUFFICES ASSUME NEW i \in 1 .. Len(sb'[Taker]) PROVE sb'[Taker][i] = b[i]
    OBVIOUS
  <2>1. CASE i <= Served.off
    BY <1>1, <1>3, <1>5, <2>1, ServeDelivers
  <2>2. CASE ~(i <= Served.off)
    BY <1>5, <2>2, ServeDelivers
  <2> QED
    BY <2>1, <2>2
<1>6. Len(Chunk) \in Nat /\ Payload \in Nat
  BY ServeDelivers, PayloadAssumption
<1>7. QuietReadIsPrefix'
  <2> SUFFICES ASSUME NEW s \in Readers, pc'[s] # "idle", ~upset'[s], offset'[s] > 0
               PROVE  /\ asked'[s] # NULL
                      /\ asked'[s] = blob'[kind'[s]]
                      /\ offset'[s] <= Len(asked'[s])
                      /\ \A i \in 1 .. offset'[s] : sb'[s][i] = asked'[s][i]
    BY DEF QuietReadIsPrefix
  <2>1. CASE ~(Served.live /\ s = Taker)
    <3>1. kind[s] \in Kinds
      BY <1>2, <2>1 DEF UnderWay
    <3> QED
      BY <1>2, <2>1, <3>1 DEF QuietReadIsPrefix
  <2>2. CASE Served.live /\ s = Taker
    <3>1. ~(Len(Chunk) < Payload)
      BY <2>2, ServeDelivers
    <3>2. b # NULL /\ Served.off + Len(Chunk) <= Len(b)
      BY <1>4, <1>6, <3>1
    <3>3. asked'[s] = b
      BY <1>3, <2>2, <3>2
    <3>4. offset'[s] = Served.off + Len(Chunk) /\ offset'[s] = Len(sb'[s]) /\ kind'[s] = Served.kind
      BY <2>2, ServeDelivers
    <3> QED
      BY <1>5, <2>2, <3>2, <3>3, <3>4, SMTT(30)
  <2> QED
    BY <2>1, <2>2
<1>8. QuietReadIsWhole'
  <2> SUFFICES ASSUME NEW s \in Readers, status'[s] = "ok", ~upset'[s]
               PROVE  sb'[s] = asked'[s]
    BY DEF QuietReadIsWhole
  <2>1. CASE ~(Served.live /\ s = Taker)
    BY <1>2, <2>1 DEF QuietReadIsWhole
  <2>2. CASE Served.live /\ s = Taker
    <3>1. Len(Chunk) < Payload
      BY <2>2, ServeDelivers DEF UnderWay
    <3>2. sb'[s] \in Seq(Bytes) /\ Len(sb'[s]) = Served.off + Len(Chunk)
      BY <2>2, ServeDelivers
    <3>3. CASE b # NULL
      <4>1. asked'[s] = b /\ b \in Seq(Bytes) /\ Len(sb'[s]) = Len(b)
        BY <1>1, <1>3, <1>4, <2>2, <3>1, <3>2, <3>3
      <4> QED
        BY <1>5, <2>2, <3>2, <4>1, SeqEqual
    <3>4. CASE b = NULL
      <4>1. asked'[s] = << >> /\ Served.off = 0 /\ Chunk = << >>
        BY <1>3, <1>4, <2>2, <3>4
      <4>2. Len(sb'[s]) = 0
        BY <3>2, <4>1
      <4> QED
        BY <3>2, <4>1, <4>2, EmptySeq
    <3> QED
      BY <3>3, <3>4
  <2> QED
    BY <2>1, <2>2
<1> QED
  BY <1>7, <1>8

LEMMA NextKeeps == IInv /\ [Next]_vars => IInv'
<1> SUFFICES ASSUME IInv, [Next]_vars PROVE IInv'
  OBVIOUS
<1>1. ASSUME NEW r \in Readers, NEW k \in Kinds, Read(r, k) PROVE IInv'
  BY <1>1, ReadKeeps
<1>2. ASSUME NEW r \in Readers, ReaderStep(r) PROVE IInv'
  BY <1>2, AskKeeps, AskEndsKeeps, TimeoutKeeps DEF ReaderStep
<1>3. CASE Serve
  BY <1>3, ServeShapes, ServeOrder, ServeRequests, ServeQuiet DEF IInv
<1>4. CASE Die
  BY <1>4, DieKeeps
<1>5. CASE Restart \/ UNCHANGED vars
  BY <1>5, RestartKeeps
<1> QED
  BY <1>1, <1>2, <1>3, <1>4, <1>5 DEF Next

THEOREM Invariance == Spec => []IInv
BY InitIInv, NextKeeps, PTL DEF Spec

-----------------------------------------------------------------------------
(* The properties.                                                         *)

\* The variables of the loop of procfs_ctl_request_blob and of the daemon's
\* cache keep their types; a text has as many bytes as the offset says.
THEOREM TypesAreKept == Spec => []TypeOK
<1>1. IInv => TypeOK
  BY ShapesGiveTypes DEF IInv
<1> QED
  BY <1>1, Invariance, PTL

\* Whatever is built, rebuilt or lost between two requests, the chunks a read
\* puts together neither overlap nor leave a gap, and none is older than the
\* one before it.
THEOREM ChunksAreInOrder == Spec => []ChunksInOrder
<1>1. IInv => ChunksInOrder
  BY DEF IInv
<1> QED
  BY <1>1, Invariance, PTL

\* A read that procfs_ctl_request_blob ends with success, and that no rebuild
\* and no death of the daemon disturbs, returns the whole listing built for
\* its offset 0, for any chunk size and any length.
THEOREM QuietReadsAreWhole == Spec => []QuietReadIsWhole
<1>1. IInv => QuietReadIsWhole
  BY DEF IInv
<1> QED
  BY <1>1, Invariance, PTL
=============================================================================
