-------------------------- MODULE ProcessReadsExact --------------------------
(***************************************************************************)
(* What a read of a process file gives, for any address space, payload,    *)
(* limits, sizes of the caller's buffer and lengths of the argument area:  *)
(* the regions that stay are reported once, and a read that nothing        *)
(* disturbs is exact.                                                      *)
(*                                                                         *)
(* A call starts its walk from the beginning and skips what the caller     *)
(* has: what the caller has and what the walk has collected must agree.    *)
(* They do because each of the regions is in its place (Enumerates), and   *)
(* the first place at which two such sequences differ would hold two       *)
(* regions that both come next.                                            *)
(***************************************************************************)
EXTENDS ProcessReadsProofs

(* The walk over a map that changes.                                       *)

\* What the walk has is in order and ends at its address, and it has every
\* region up to there that was there all along.
Walk ==
    (file = "maps" /\ Walking) =>
        /\ stable \subseteq regions
        /\ \A i \in 1 .. Len(out) : out[i].item \in Regions /\ out[i].item[2] <= addr
        /\ \A i, j \in 1 .. Len(out) : i < j => out[i].item[2] < out[j].item[2]
        /\ \A r \in stable : r[2] <= addr => \E i \in 1 .. Len(out) : out[i].item = r

\* The process may take regions from those that stay, and cannot hand its pid on.
LEMMA WalkProcess == TypeOK /\ Held /\ Walk /\ Process => Walk'
<1> SUFFICES ASSUME TypeOK, Held, Walk, Process, file' = "maps", Walking' PROVE Walk'
  BY DEF Walk
<1>1. UNCHANGED readVars
  BY ProcessFrame
<1>2. file = "maps" /\ Walking
  BY <1>1 DEF readVars, Walking
<1>3. state # "gone"
  BY <1>2 DEF Held
<1>4. stable' \subseteq regions' /\ stable' \subseteq stable
  BY <1>2, <1>3 DEF Walk, Process, Remap, Page, Exec, Reuse, Exit, Reap
<1> QED
  BY <1>1, <1>2, <1>4 DEF Walk, readVars

\* One answer of the daemon.
LEMMA WalkCollects ==
    ASSUME TypeOK, Shapes, Walk, WalkMaps
    PROVE  Walk'
<1>1. /\ file = "maps" /\ Walking /\ UNCHANGED <<stable, regions, file>>
  BY DEF WalkMaps, Answered, Answer, Walking, processVars
<1>2. CASE pc' = "copy" /\ UNCHANGED <<addr, out>>
  BY <1>1, <1>2 DEF Walk, Walking
<1>3. ASSUME NEW chunk \in MapsReplies(addr), Len(chunk) > 0, Extended(chunk),
             pc' = "ask", addr' = chunk[Len(chunk)][2]
      PROVE  Walk'
  <2> DEFINE n == Len(out)
             k == Len(chunk)
  <2>1. addr \in Nat /\ regions \in Layouts /\ n \in Nat
    BY SizesAssumption, SeqLength DEF TypeOK, Shapes
  <2>2. /\ k \in Nat /\ k > 0
        /\ \A i \in 1 .. k : chunk[i] \in Regions /\ chunk[i][2] > addr
        /\ \A i, j \in 1 .. k : i < j => chunk[i][2] <= chunk[j][1]
        /\ \A r \in regions : r[2] > addr =>
              \/ \E i \in 1 .. k : chunk[i] = r
              \/ \A i \in 1 .. k : chunk[i][2] <= r[1]
    BY Zenon, <1>3, <2>1, MapsFacts
  <2>3. /\ Len(out') = n + k
        /\ \A i \in 1 .. n : out'[i] = out[i]
        /\ \A i \in 1 .. k : out'[n + i].item = chunk[i]
    <3>1. \A i \in 1 .. k : out'[n + i] = [who |-> who, item |-> chunk[i]]
      BY <1>3, Zenon DEF Extended
    <3>2. Len(out') = n + k /\ \A i \in 1 .. n : out'[i] = out[i]
      BY <1>3, Zenon DEF Extended
    <3> HIDE DEF n, k
    <3>3. ASSUME NEW i \in 1 .. k PROVE out'[n + i].item = chunk[i]
      <4>1. out'[n + i] = [who |-> who, item |-> chunk[i]]
        BY <3>1, Zenon
      <4> QED
        BY <4>1
    <3> QED
      BY <3>2, <3>3, Zenon
  <2>4. addr' = chunk[k][2]
    BY <1>3
  <2> HIDE DEF n, k
  <2>5. \A i \in 1 .. k : chunk[i][1] \in Nat /\ chunk[i][2] \in Nat /\ chunk[i][1] < chunk[i][2]
    BY <2>2, RegionFacts
  <2>6. \A i \in 1 .. k : chunk[i][2] <= addr'
    <3> SUFFICES ASSUME NEW i \in 1 .. k PROVE chunk[i][2] <= chunk[k][2]
      BY <2>4
    <3>1. k \in 1 .. k
      BY <2>2
    <3>2. i = k \/ i < k
      BY <2>2
    <3> QED
      BY <2>2, <2>5, <3>1, <3>2
  <2>7. addr' \in Nat /\ addr <= addr'
    <3>1. k \in 1 .. k
      BY <2>2
    <3> QED
      BY <2>1, <2>2, <2>4, <2>5, <3>1
  <2>8. \A i \in 1 .. n : out[i].item \in Regions /\ out[i].item[2] <= addr /\ out[i].item[2] \in Nat
    <3>1. \A i \in 1 .. n : out[i].item \in Regions /\ out[i].item[2] <= addr
      BY <1>1 DEF Walk, n
    <3> QED
      BY <3>1, RegionFacts
  <2>9. ASSUME NEW i \in 1 .. n + k
        PROVE  i \in 1 .. n \/ (i - n \in 1 .. k /\ i = n + (i - n))
    BY <2>1, <2>2 DEF n
  <2>10. ASSUME NEW i \in 1 .. n + k
         PROVE  /\ out'[i].item \in Regions /\ out'[i].item[2] <= addr'
                /\ i \in 1 .. n => out'[i].item = out[i].item
                /\ i \notin 1 .. n => out'[i].item = chunk[i - n]
    <3>1. CASE i \in 1 .. n
      <4>1. out'[i].item = out[i].item
        BY <2>3, <3>1
      <4> QED
        BY <2>1, <2>7, <2>8, <3>1, <4>1
    <3>2. CASE i \notin 1 .. n
      <4>1. i - n \in 1 .. k /\ i = n + (i - n)
        BY <2>9, <3>2
      <4>2. out'[i].item = chunk[i - n]
        BY <2>3, <4>1
      <4> QED
        BY <2>2, <2>6, <3>2, <4>1, <4>2
    <3> QED
      BY <3>1, <3>2
  <2>11. ASSUME NEW i \in 1 .. n + k, NEW j \in 1 .. n + k, i < j
         PROVE  out'[i].item[2] < out'[j].item[2]
    <3>1. CASE j \in 1 .. n
      <4>1. i \in 1 .. n
        BY <2>1, <2>11, <3>1 DEF n
      <4>2. out[i].item[2] < out[j].item[2]
        BY <1>1, <2>11, <3>1, <4>1 DEF Walk, n
      <4> QED
        BY <2>10, <3>1, <4>1, <4>2
    <3>2. CASE j \notin 1 .. n /\ i \in 1 .. n
      <4>1. j - n \in 1 .. k
        BY <2>9, <3>2
      <4> QED
        BY <2>1, <2>2, <2>5, <2>8, <2>10, <3>2, <4>1
    <3>3. CASE j \notin 1 .. n /\ i \notin 1 .. n
      <4>1. j - n \in 1 .. k /\ i - n \in 1 .. k
        BY <2>9, <3>3
      <4>2. i - n < j - n
        BY <2>1, <2>2, <2>11 DEF n
      <4> QED
        BY <2>2, <2>5, <2>10, <3>3, <4>1, <4>2
    <3> QED
      BY <3>1, <3>2, <3>3
  <2>12. ASSUME NEW r \in stable, r[2] <= addr'
         PROVE  \E i \in 1 .. n + k : out'[i].item = r
    <3>1. r \in regions /\ r \in Regions
      BY <1>1, <2>1 DEF Walk, Layouts
    <3>2. r[1] \in Nat /\ r[2] \in Nat /\ r[1] < r[2]
      BY <3>1, RegionFacts
    <3>3. CASE r[2] <= addr
      <4>1. PICK i \in 1 .. n : out[i].item = r
        BY <1>1, <3>3 DEF Walk, n
      <4>2. i \in 1 .. n + k
        BY <2>1, <2>2 DEF n
      <4> QED
        BY <2>10, <4>1, <4>2
    <3>4. CASE \E i \in 1 .. k : chunk[i] = r
      <4>1. PICK i \in 1 .. k : chunk[i] = r
        BY <3>4
      <4>2. n + i \in 1 .. n + k
        BY <2>1, <2>2 DEF n
      <4> QED
        BY <2>3, <4>1, <4>2
    <3>5. CASE \A i \in 1 .. k : chunk[i][2] <= r[1]
      <4>1. k \in 1 .. k
        BY <2>2
      <4> QED
        BY <2>4, <2>5, <2>12, <3>2, <3>5, <4>1
    <3> QED
      BY <2>1, <2>2, <3>1, <3>2, <3>3, <3>4, <3>5
  <2> QED
    BY <1>1, <2>3, <2>10, <2>11, <2>12 DEF Walk
<1> QED
  BY <1>2, <1>3, WalkMapsStep

LEMMA WalkStep == TypeOK /\ Shapes /\ Held /\ Walk /\ [Next]_vars => Walk'
<1> SUFFICES ASSUME TypeOK, Shapes, Held, Walk, [Next]_vars PROVE Walk'
  OBVIOUS
<1>1. CASE Process
  BY <1>1, WalkProcess
<1>2. ASSUME Reader PROVE Walk'
  <2>1. CASE \E st : Finish(st)
    BY <2>1 DEF Finish, Walk, Walking
  <2>2. CASE Enter
    <3>1. /\ stable' = regions /\ regions' = regions /\ out' = << >> /\ addr' = 0
      BY <2>2 DEF Enter, processVars
    <3>2. \A r \in regions : r[2] \in Nat /\ r[2] > 0
      BY RegionFacts DEF TypeOK, Layouts
    <3>3. Len(out') = 0
      BY <3>1
    <3> QED
      BY <3>1, <3>2, <3>3 DEF Walk
  <2>3. CASE WalkMaps
    BY <2>3, WalkCollects
  <2>4. CASE FetchArgs \/ ReadMem \/ ReadPagemap
    BY <2>4 DEF FetchArgs, ReadMem, ReadPagemap, Answer, Walk
  <2>5. CASE Rests
    BY <2>5 DEF Rests, Walk, Walking, processVars
  <2>6. CASE Copy
    BY <2>6 DEF Copy, Goto, Walk, Walking
  <2> QED
    BY <1>2, <2>1, <2>2, <2>3, <2>4, <2>5, <2>6, ReaderSteps
<1>3. CASE UNCHANGED vars
  BY <1>3 DEF vars, readVars, processVars, Walk, Walking
<1> QED
  BY <1>1, <1>2, <1>3 DEF Next

LEMMA WalkAlways == Spec => []Walk
<1>1. Init => Walk
  BY DEF Init, Walk, Walking
<1> QED
  BY <1>1, WalkStep, TypesAndShapes, HeldAlways, PTL DEF Spec

LEMMA WalkReportsOnce == TypeOK /\ Shapes /\ Walk => StableRegionsOnce
<1> SUFFICES ASSUME TypeOK, Shapes, Walk, file = "maps", Walking, NEW r \in stable
             PROVE  LET reported == {i \in DOMAIN out : out[i].item = r}
                    IN  IF r[2] <= addr THEN \E i \in DOMAIN out : reported = {i}
                                        ELSE reported = {}
  BY Zenon DEF StableRegionsOnce, Walking
<1> DEFINE reported == {i \in DOMAIN out : out[i].item = r}
<1>1. DOMAIN out = 1 .. Len(out) /\ Len(out) \in Nat
  BY SeqLength DEF Shapes
<1>2. r[2] \in Nat /\ addr \in Nat
  <2>1. r \in Regions /\ addr \in 0 .. Top
    BY Zenon DEF TypeOK
  <2> QED
    BY <2>1, RegionFacts, SizesAssumption
<1>3. CASE r[2] <= addr
  <2>1. PICK i \in 1 .. Len(out) : out[i].item = r
    BY <1>3 DEF Walk
  <2>2. ASSUME NEW j \in 1 .. Len(out), out[j].item = r PROVE j = i
    <3>1. i < j => out[i].item[2] < out[j].item[2]
      BY DEF Walk
    <3>2. j < i => out[j].item[2] < out[i].item[2]
      BY DEF Walk
    <3>3. ~(i < j) /\ ~(j < i)
      BY SMTT(30), <1>2, <2>1, <2>2, <3>1, <3>2
    <3> QED
      BY <1>1, <3>3
  <2>3. reported = {i}
    BY SMTT(30), <1>1, <2>1, <2>2
  <2> QED
    BY <1>1, <1>3, <2>3
<1>4. CASE ~(r[2] <= addr)
  <2>1. reported = {}
    BY <1>1, <1>4 DEF Walk
  <2> QED
    BY <1>4, <2>1
<1> QED
  BY <1>3, <1>4

\* procfs_map_walk asks the daemon again and again while the process maps and
\* unmaps: a region that is there all the while is reported once and only once,
\* for every address space, answer size and number of changes.
THEOREM StableRegionsReportedOnce == Spec => []StableRegionsOnce
BY WalkReportsOnce, WalkAlways, TypesAndShapes, PTL

-----------------------------------------------------------------------------
(* A read that nothing disturbs.                                           *)

Alive == quiet => state = "running"

LEMMA ReaderQuiet ==
    ASSUME Reader
    PROVE  quiet' = quiet \/ quiet' = FALSE
<1>1. CASE EnterGone \/ EnterRefused \/ Enter \/ GrowFails \/ CopyShort \/ CopyEnd \/ Copy
  BY <1>1 DEF EnterGone, EnterRefused, Enter, GrowFails, CopyShort, CopyEnd, Copy
<1>2. CASE Fail
  BY <1>2, Zenon DEF Fail
<1>3. CASE WalkMaps \/ FetchArgs \/ FetchArgsCapped \/ ReadMem \/ ReadMemHole \/ ReadPagemap
  BY <1>3 DEF WalkMaps, FetchArgs, FetchArgsCapped, ReadMem, ReadMemHole, ReadPagemap, Answer
<1> QED
  BY Zenon, <1>1, <1>2, <1>3 DEF Reader

\* In a quiet read the process is as it was, and no request fails.
LEMMA QuietSteps ==
    ASSUME Alive, [Next]_vars, quiet'
    PROVE  /\ quiet /\ UNCHANGED <<processVars, file, start>>
           /\ \/ UNCHANGED vars \/ Enter
              \/ WalkMaps \/ FetchArgs \/ FetchArgsCapped \/ ReadMem \/ ReadMemHole \/ ReadPagemap
              \/ CopyShort \/ CopyEnd \/ Copy
<1>1. Reader \/ UNCHANGED vars
  BY ProcessFrame DEF Next
<1>2. quiet
  BY <1>1, ReaderQuiet, Zenon DEF vars
<1>3. UNCHANGED <<processVars, file, start>>
  BY Zenon, <1>1, ReaderFrame DEF vars, readVars
<1>4. state = "running"
  BY <1>2 DEF Alive
<1>5. ~EnterGone /\ ~EnterRefused /\ ~GrowFails
  BY <1>4 DEF EnterGone, EnterRefused, GrowFails
<1>6. ~Fail
  BY <1>4 DEF Fail
<1> QED
  BY <1>1, <1>2, <1>3, <1>5, <1>6, Zenon DEF Reader

LEMMA AliveAlways == Spec => []Alive
<1>1. Init => Alive
  BY DEF Init, Alive
<1>2. Alive /\ [Next]_vars => Alive'
  <2> SUFFICES ASSUME Alive, [Next]_vars, quiet' PROVE state' = "running"
    BY DEF Alive
  <2> QED
    BY QuietSteps DEF Alive, processVars
<1> QED
  BY <1>1, <1>2, PTL DEF Spec

-----------------------------------------------------------------------------

\* The resident bytes from base on, and one after the other.
ResidentRun(s, base) ==
    \A i \in 1 .. Len(s) : s[i].item = <<image, base + i - 1>> /\ base + i - 1 \in resident

QuietMem ==
    (quiet /\ file = "mem") =>
        /\ ResidentRun(text, start)
        /\ Walking => ResidentRun(out, offset)
        /\ pc = "done" => status = "EIO" /\ offset \notin resident

LEMMA MemStep == TypeOK /\ Shapes /\ Alive /\ QuietMem /\ [Next]_vars => QuietMem'
<1> SUFFICES ASSUME TypeOK, Shapes, Alive, QuietMem, [Next]_vars, quiet', file' = "mem"
             PROVE  QuietMem'
  BY DEF QuietMem
<1>0. quiet /\ UNCHANGED <<processVars, file, start>> /\ file = "mem"
  BY QuietSteps
<1>1. /\ ResidentRun(text, start)
      /\ Walking => ResidentRun(out, offset)
      /\ pc = "done" => status = "EIO" /\ offset \notin resident
  BY <1>0 DEF QuietMem
<1>2. image' = image /\ resident' = resident
  BY <1>0 DEF processVars
<1>3. /\ Len(out) \in Nat /\ Len(text) \in Nat /\ offset \in Nat /\ start \in Nat
      /\ offset = start + Len(text)
  BY SeqLength DEF TypeOK, Shapes
<1>4. CASE UNCHANGED vars
  BY <1>4 DEF vars, readVars, processVars, QuietMem, Walking, ResidentRun
<1>5. CASE Enter
  <2>1. out' = << >> /\ UNCHANGED text /\ pc' = "ask"
    BY <1>5 DEF Enter
  <2>2. Len(out') = 0
    BY <2>1
  <2> QED
    BY <1>0, <1>1, <1>2, <2>1, <2>2 DEF QuietMem, ResidentRun
<1>6. CASE ReadMem
  <2>1. PICK items \in Seq(Item) :
            /\ Len(items) > 0 /\ Extended(items)
            /\ \A i \in 1 .. Len(items) :
                  items[i] = <<image, Position + i - 1>> /\ Position + i - 1 \in resident
    BY <1>6, ReadMemStep
  <2>2. /\ Walking /\ UNCHANGED <<text, offset>> /\ pc' # "done"
    BY Zenon, <1>6, ReadMemStep DEF ReadMem, Answered, Answer, Walking
  <2>3. Len(items) \in Nat /\ Len(out') = Len(out) + Len(items) /\ Position = offset + Len(out)
    BY <2>1 DEF Extended, Position
  <2>4. ASSUME NEW i \in 1 .. Len(out')
        PROVE  out'[i].item = <<image, offset + i - 1>> /\ offset + i - 1 \in resident
    <3>1. CASE i \in 1 .. Len(out)
      BY <1>1, <2>1, <2>2, <3>1 DEF Extended, ResidentRun
    <3>2. CASE i \notin 1 .. Len(out)
      <4>1. i - Len(out) \in 1 .. Len(items) /\ i = Len(out) + (i - Len(out))
        BY <1>3, <2>3, <3>2
      <4>2. out'[i] = [who |-> who, item |-> items[i - Len(out)]]
        BY Zenon, <2>1, <4>1 DEF Extended
      <4>3. Position + (i - Len(out)) - 1 = offset + i - 1
        BY <1>3, <2>3
      <4>4. items[i - Len(out)] = <<image, offset + i - 1>> /\ offset + i - 1 \in resident
        BY <2>1, <4>1, <4>3
      <4> QED
        BY <4>2, <4>4
    <3> QED
      BY <3>1, <3>2
  <2> QED
    BY <1>0, <1>1, <1>2, <2>2, <2>4 DEF QuietMem, ResidentRun
<1>7. CASE ReadMemHole
  <2>1. << >> \in MemReplies(Position) /\ pc = "ask" /\ UNCHANGED <<text, offset, out>>
    BY Zenon, <1>7 DEF ReadMemHole, Answered, Answer, Finish
  <2>2. CASE out = << >> /\ Finish("EIO")
    <3>1. Position = offset
      BY <1>3, <2>2 DEF Position
    <3>2. image \in Nat
      BY DEF TypeOK
    <3>3. Len(<< >>) < Payload => offset + Len(<< >>) \notin resident
      BY <1>3, <2>1, <3>1, <3>2, MemFacts
    <3>4. offset \notin resident
      BY <1>3, <3>3, SizesAssumption
    <3> QED
      BY <1>0, <1>1, <1>2, <2>1, <2>2, <3>4 DEF QuietMem, ResidentRun, Finish, Walking
  <2>3. CASE pc' = "copy"
    BY <1>0, <1>1, <1>2, <2>1, <2>3 DEF QuietMem, ResidentRun, Walking
  <2> QED
    BY Zenon, <1>7, <2>2, <2>3 DEF ReadMemHole, Goto
<1>8. CASE Copy
  <2>1. pc = "copy" /\ pc' = "call" /\ Moved = out
    BY <1>0, <1>8, MovedFacts DEF Copy, Goto, TypeOK, Shapes
  <2>2. /\ text' \in Seq(Record) /\ Len(text') = Len(text) + Len(out)
        /\ \A i \in 1 .. Len(text) : text'[i] = text[i]
        /\ \A i \in 1 .. Len(out) : text'[Len(text) + i] = out[i]
    BY <1>8, <2>1, CopyStep
  <2>3. ASSUME NEW i \in 1 .. Len(text')
        PROVE  text'[i].item = <<image, start + i - 1>> /\ start + i - 1 \in resident
    <3>1. CASE i \in 1 .. Len(text)
      BY <1>1, <2>2, <3>1 DEF ResidentRun
    <3>2. CASE i \notin 1 .. Len(text)
      <4>1. /\ i - Len(text) \in 1 .. Len(out) /\ i = Len(text) + (i - Len(text))
            /\ offset + (i - Len(text)) - 1 = start + i - 1
        BY <1>3, <2>2, <3>2
      <4>2. text'[i] = out[i - Len(text)]
        BY <2>2, <4>1
      <4> QED
        BY <1>1, <2>1, <4>1, <4>2 DEF ResidentRun, Walking
    <3> QED
      BY <3>1, <3>2
  <2> QED
    BY <1>0, <1>2, <2>1, <2>3 DEF QuietMem, ResidentRun, Walking
<1>9. ~CopyEnd
  BY <1>0, MovedFacts DEF CopyEnd, TypeOK, Shapes
<1> QED
  BY <1>0, <1>4, <1>5, <1>6, <1>7, <1>8, <1>9, QuietSteps
     DEF WalkMaps, FetchArgs, FetchArgsCapped, ReadPagemap, CopyShort

-----------------------------------------------------------------------------

\* No region is left above the page the byte n is of.
AboveAll(n) == \A r \in regions : r[2] <= n \div 2

QuietPagemap ==
    (quiet /\ file = "pagemap") =>
        /\ \A i \in 1 .. Len(text) : text[i].item = Entry(start + i - 1)
        /\ Walking => \A i \in 1 .. Len(out) : out[i].item = Entry(offset + i - 1)
        /\ pc = "copy" /\ out = << >> => AboveAll(offset)
        /\ pc = "done" => status = "eof" /\ AboveAll(offset)

LEMMA PagemapStep == TypeOK /\ Shapes /\ Alive /\ QuietPagemap /\ [Next]_vars => QuietPagemap'
<1> SUFFICES ASSUME TypeOK, Shapes, Alive, QuietPagemap, [Next]_vars, quiet', file' = "pagemap"
             PROVE  QuietPagemap'
  BY DEF QuietPagemap
<1>0. quiet /\ UNCHANGED <<processVars, file, start>> /\ file = "pagemap"
  BY QuietSteps
<1>1. /\ \A i \in 1 .. Len(text) : text[i].item = Entry(start + i - 1)
      /\ Walking => \A i \in 1 .. Len(out) : out[i].item = Entry(offset + i - 1)
      /\ pc = "copy" /\ out = << >> => AboveAll(offset)
      /\ pc = "done" => status = "eof" /\ AboveAll(offset)
  BY <1>0 DEF QuietPagemap
<1>2. start' = start /\ (\A n : Entry(n)' = Entry(n)) /\ (\A n : AboveAll(n)' = AboveAll(n))
  BY <1>0 DEF processVars, Entry, AboveAll
<1>3. /\ Len(out) \in Nat /\ Len(text) \in Nat /\ offset \in Nat /\ start \in Nat
      /\ offset = start + Len(text)
  BY SeqLength DEF TypeOK, Shapes
<1>4. CASE UNCHANGED vars
  BY <1>1, <1>2, <1>4 DEF vars, readVars, processVars, QuietPagemap, Walking, Entry, AboveAll
<1>5. CASE Enter
  <2>1. out' = << >> /\ UNCHANGED text /\ pc' = "ask"
    BY <1>5 DEF Enter
  <2>2. Len(out') = 0
    BY <2>1
  <2> QED
    BY <1>0, <1>1, <1>2, <2>1, <2>2 DEF QuietPagemap, Entry, processVars
<1>6. CASE ReadPagemap
  <2>1. /\ Walking /\ UNCHANGED <<text, offset>> /\ Position = offset + Len(out)
    BY <1>6 DEF ReadPagemap, Answered, Answer, Walking, Position
  <2>2. CASE pc' = "copy" /\ UNCHANGED out /\ \A r \in regions : r[2] <= Position \div 2
    <3>1. out = << >> => AboveAll(offset)
      BY <1>3, <2>1, <2>2 DEF AboveAll
    <3>2. /\ \A i \in 1 .. Len(text') : text'[i].item = Entry(start + i - 1)
          /\ \A i \in 1 .. Len(out') : out'[i].item = Entry(offset' + i - 1)
          /\ out' = << >> => AboveAll(offset')
      BY <1>1, <2>1, <2>2, <3>1
    <3> QED
      BY <1>0, <2>1, <2>2, <3>2 DEF QuietPagemap, Entry, AboveAll, processVars
  <2>3. ASSUME NEW items \in Seq(Item), Len(items) > 0, Extended(items),
               \A i \in 1 .. Len(items) : items[i] = Entry(Position + i - 1),
               pc' \in {"ask", "copy"}
        PROVE  QuietPagemap'
    <3>1. Len(items) \in Nat /\ Len(out') = Len(out) + Len(items)
      BY <2>3 DEF Extended
    <3>2. ASSUME NEW i \in 1 .. Len(out') PROVE out'[i].item = Entry(offset + i - 1)
      <4>1. CASE i \in 1 .. Len(out)
        <5>1. out'[i] = out[i]
          BY <2>3, <4>1, Zenon DEF Extended
        <5> QED
          BY <1>1, <2>1, <4>1, <5>1
      <4>2. CASE i \notin 1 .. Len(out)
        <5>1. /\ i - Len(out) \in 1 .. Len(items) /\ i = Len(out) + (i - Len(out))
              /\ Position + (i - Len(out)) - 1 = offset + i - 1
          BY <1>3, <2>1, <3>1, <4>2
        <5>2. out'[i] = [who |-> who, item |-> items[i - Len(out)]]
          BY Zenon, <2>3, <5>1 DEF Extended
        <5>3. items[i - Len(out)] = Entry(offset + i - 1)
          BY <2>3, <5>1
        <5> QED
          BY <5>2, <5>3
      <4> QED
        BY <4>1, <4>2
    <3>3. out' # << >>
      <4>1. Len(out') > 0
        BY <1>3, <2>3, <3>1
      <4> QED
        BY <4>1
    <3>4. /\ \A i \in 1 .. Len(text') : text'[i].item = Entry(start + i - 1)
          /\ \A i \in 1 .. Len(out') : out'[i].item = Entry(offset' + i - 1)
      BY <1>1, <2>1, <3>2
    <3> QED
      BY <1>0, <2>1, <2>3, <3>3, <3>4 DEF QuietPagemap, Entry, processVars
  <2> QED
    BY <1>6, <2>2, <2>3, ReadPagemapStep
<1>7. CASE Copy
  <2>1. pc = "copy" /\ pc' = "call" /\ Moved = out
    BY <1>0, <1>7, MovedFacts DEF Copy, Goto, TypeOK, Shapes
  <2>2. /\ text' \in Seq(Record) /\ Len(text') = Len(text) + Len(out)
        /\ \A i \in 1 .. Len(text) : text'[i] = text[i]
        /\ \A i \in 1 .. Len(out) : text'[Len(text) + i] = out[i]
    BY <1>7, <2>1, CopyStep
  <2>3. ASSUME NEW i \in 1 .. Len(text') PROVE text'[i].item = Entry(start + i - 1)
    <3>1. CASE i \in 1 .. Len(text)
      BY <1>1, <2>2, <3>1
    <3>2. CASE i \notin 1 .. Len(text)
      <4>1. /\ i - Len(text) \in 1 .. Len(out) /\ i = Len(text) + (i - Len(text))
            /\ offset + (i - Len(text)) - 1 = start + i - 1
        BY <1>3, <2>2, <3>2
      <4>2. text'[i] = out[i - Len(text)]
        BY <2>2, <4>1
      <4> QED
        BY <1>1, <2>1, <4>1, <4>2 DEF Walking
    <3> QED
      BY <3>1, <3>2
  <2> QED
    BY <1>0, <2>1, <2>3 DEF QuietPagemap, Walking, Entry, processVars
<1>8. CASE CopyEnd
  <2>1. Moved = out
    BY <1>0, MovedFacts DEF TypeOK, Shapes
  <2>2. pc = "copy" /\ out = << >> /\ UNCHANGED <<text, offset>> /\ pc' = "done" /\ status' = "eof"
    BY <1>8, <2>1 DEF CopyEnd, Finish
  <2> QED
    BY <1>0, <1>1, <2>2 DEF QuietPagemap, Walking, Entry, AboveAll, processVars
<1> QED
  BY <1>0, <1>4, <1>5, <1>6, <1>7, <1>8, QuietSteps
     DEF WalkMaps, FetchArgs, FetchArgsCapped, ReadMem, ReadMemHole, CopyShort, Answered

-----------------------------------------------------------------------------

\* What there is of the argument area up to PROCFS_CMDLINE_MAX.
Whole == Min({argLen, CmdlineMax})

QuietArgs ==
    (quiet /\ file = "args") =>
        /\ \A i \in 1 .. Len(text) : text[i].item = <<image, i>>
        /\ Len(text) <= Whole
        /\ Walking => /\ cap > 0 /\ Len(out) <= argLen
                      /\ \A i \in 1 .. Len(out) : out[i].item = <<image, i>>
        /\ pc = "copy" => Len(out) = Whole
        /\ pc = "done" => /\ status = IF argLen = 0 THEN "fallback" ELSE "eof"
                          /\ Len(text) = Whole

LEMMA WholeFacts ==
    ASSUME argLen \in Nat
    PROVE  Whole \in Nat /\ Whole = IF argLen <= CmdlineMax THEN argLen ELSE CmdlineMax
BY MinOfTwo, CmdlineAssumption DEF Whole

\* A slice is as long as a payload, or ends the area.
LEMMA SliceFacts ==
    ASSUME argLen \in Nat, NEW total \in Nat, total <= argLen
    PROVE  /\ Len(ArgsReply(total)) =
                  IF Payload <= argLen - total THEN Payload ELSE argLen - total
           /\ \A i \in 1 .. Len(ArgsReply(total)) : ArgsReply(total)[i] = <<image, total + i>>
<1> DEFINE n == Min({Payload, argLen - Min({total, argLen})})
<1>1. Payload \in Nat /\ argLen - total \in Nat
  BY SizesAssumption
<1>2. Min({total, argLen}) = total
  BY MinOfTwo
<1>3. n = IF Payload <= argLen - total THEN Payload ELSE argLen - total
  BY <1>1, <1>2, MinOfTwo
<1>4. ArgsReply(total) = [i \in 1 .. n |-> <<image, total + i>>]
  BY DEF ArgsReply
<1> HIDE DEF n
<1>5. n \in Nat
  BY <1>1, <1>3
<1>6. Len(ArgsReply(total)) = n
  BY <1>4, <1>5
<1> QED
  BY Zenon, <1>3, <1>4, <1>6

\* procfs_fetch_procargs: a short slice is the last, and what it ends is whole.
LEMMA ArgsFetched ==
    ASSUME TypeOK, Shapes, IInv, IInv', FetchArgs, cap > 0, Len(out) <= argLen,
           \A i \in 1 .. Len(out) : out[i].item = <<image, i>>
    PROVE  /\ cap' > 0 /\ Len(out') <= argLen
           /\ \A i \in 1 .. Len(out') : out'[i].item = <<image, i>>
           /\ pc' = "copy" => Len(out') = Whole
           /\ pc' \in {"ask", "copy"}
<1> DEFINE slice == ArgsReply(Len(out))
<1>1. Len(out) \in Nat /\ argLen \in Nat /\ cap \in Nat
  BY SeqLength, CmdlineAssumption DEF Shapes, TypeOK, IInv, Numbers
<1>2. /\ Extended(slice)
      /\ pc' = IF Len(slice) < Payload THEN "copy" ELSE "ask"
  BY FetchArgsStep
<1>3. /\ Len(slice) = IF Payload <= argLen - Len(out) THEN Payload ELSE argLen - Len(out)
      /\ \A i \in 1 .. Len(slice) : slice[i] = <<image, Len(out) + i>>
  BY <1>1, SliceFacts
<1> HIDE DEF slice
<1>4. /\ slice \in Seq(Item) /\ Len(out') = Len(out) + Len(slice)
      /\ \A i \in 1 .. Len(out) : out'[i] = out[i]
      /\ \A i \in 1 .. Len(slice) : out'[Len(out) + i] = [who |-> who, item |-> slice[i]]
  BY <1>2, Zenon DEF Extended
<1>5. Payload \in Nat /\ Payload > 0 /\ CmdlineMax \in Nat /\ CmdlineMax >= Payload
  BY SizesAssumption, CmdlineAssumption
<1>6. Len(slice) \in Nat /\ Len(out') <= argLen
  BY <1>1, <1>3, <1>4, <1>5
<1>7. cap' > 0
  <2>1. cap' = Grown
    BY DEF FetchArgs
  <2>2. \/ Grown = (IF 2 * cap < CmdlineMax THEN 2 * cap ELSE CmdlineMax)
        \/ Grown = cap
    BY <1>1, <1>5, GrownFacts
  <2> QED
    BY <1>1, <1>5, <2>1, <2>2
<1>8. ASSUME NEW i \in 1 .. Len(out') PROVE out'[i].item = <<image, i>>
  <2>1. CASE i \in 1 .. Len(out)
    BY <1>4, <2>1
  <2>2. CASE i \notin 1 .. Len(out)
    <3>1. i - Len(out) \in 1 .. Len(slice) /\ i = Len(out) + (i - Len(out))
      BY <1>1, <1>4, <1>6, <2>2
    <3>2. out'[i] = [who |-> who, item |-> slice[i - Len(out)]]
      BY Zenon, <1>4, <3>1
    <3>3. slice[i - Len(out)] = <<image, i>>
      BY <1>3, <3>1
    <3> QED
      BY <3>2, <3>3
  <2> QED
    BY <2>1, <2>2
<1>9. ASSUME pc' = "copy" PROVE Len(out') = Whole
  <2>1. Len(slice) < Payload
    BY <1>2, <1>9
  <2>2. Len(out') = argLen
    BY <1>1, <1>3, <1>4, <1>5, <2>1
  <2>3. file' = "args"
    BY DEF FetchArgs, Answer
  <2>4. Len(out') <= cap' /\ cap' <= CmdlineMax /\ cap' \in Slices
    BY <2>3 DEF IInv, ArgsBuffer
  <2>5. cap' \in Nat
    BY <2>4, SlicesGrow
  <2> QED
    BY <1>1, <1>5, <2>2, <2>4, <2>5, WholeFacts
<1> QED
  BY <1>2, <1>6, <1>7, <1>8, <1>9

\* The buffer cannot grow only when it is at the limit and full.
LEMMA ArgsCapped ==
    ASSUME TypeOK, Shapes, IInv, FetchArgsCapped, cap > 0, Len(out) <= argLen
    PROVE  Len(out) = Whole
<1>1. /\ file = "args" /\ pc = "ask" /\ Len(out) + Payload > cap /\ Grown <= Len(out)
  BY DEF FetchArgsCapped, CapReached
<1>2. Len(out) \in Slices /\ cap \in Slices /\ Len(out) <= cap /\ cap <= CmdlineMax
  BY <1>1 DEF IInv, ArgsBuffer
<1>3. /\ Len(out) \in Nat /\ cap \in Nat /\ argLen \in Nat /\ CmdlineMax \in Nat /\ Payload \in Nat
  BY <1>2, SlicesGrow, CmdlineAssumption, SizesAssumption DEF IInv, Numbers
<1>4. Len(out) = cap
  <2>1. Len(out) < cap => Len(out) + Payload <= cap
    BY <1>2, SlicesApart
  <2> QED
    BY <1>1, <1>2, <1>3, <2>1
<1>5. Grown = (IF 2 * cap < CmdlineMax THEN 2 * cap ELSE CmdlineMax)
  BY <1>1, GrownFacts
<1>6. cap = CmdlineMax
  BY <1>1, <1>2, <1>3, <1>4, <1>5
<1> QED
  BY <1>3, <1>4, <1>6, WholeFacts

LEMMA ArgsStep ==
    TypeOK /\ Shapes /\ Alive /\ IInv /\ IInv' /\ QuietArgs /\ [Next]_vars => QuietArgs'
<1> SUFFICES ASSUME TypeOK, Shapes, Alive, IInv, IInv', QuietArgs, [Next]_vars,
                    quiet', file' = "args"
             PROVE  QuietArgs'
  BY DEF QuietArgs
<1>0. quiet /\ UNCHANGED <<processVars, file, start>> /\ file = "args"
  BY QuietSteps
<1>1. /\ \A i \in 1 .. Len(text) : text[i].item = <<image, i>>
      /\ Len(text) <= Whole
      /\ Walking => /\ cap > 0 /\ Len(out) <= argLen
                    /\ \A i \in 1 .. Len(out) : out[i].item = <<image, i>>
      /\ pc = "copy" => Len(out) = Whole
      /\ pc = "done" => /\ status = IF argLen = 0 THEN "fallback" ELSE "eof"
                        /\ Len(text) = Whole
  BY <1>0 DEF QuietArgs
<1>2. image' = image /\ argLen' = argLen /\ Whole' = Whole
  BY <1>0 DEF processVars, Whole
<1>3. /\ Len(out) \in Nat /\ Len(text) \in Nat /\ offset \in Nat /\ offset = Len(text)
      /\ argLen \in Nat
  BY <1>0, SeqLength DEF TypeOK, Shapes, Offsets, IInv, Numbers
<1>4. Whole \in Nat /\ (Whole = 0 <=> argLen = 0)
  BY <1>3, WholeFacts, CmdlineAssumption, SizesAssumption
<1>5. CASE UNCHANGED vars
  BY <1>1, <1>2, <1>5 DEF vars, readVars, QuietArgs, Walking
<1>6. CASE Enter
  <2>1. out' = << >> /\ UNCHANGED text /\ pc' = "ask" /\ cap' = Payload
    BY <1>6 DEF Enter
  <2>2. Len(out') = 0 /\ Payload > 0
    BY SMTT(30), <2>1, SizesAssumption
  <2> QED
    BY <1>1, <1>2, <1>3, <2>1, <2>2 DEF QuietArgs
<1>7. CASE FetchArgs
  <2>1. Walking /\ text' = text
    BY <1>7 DEF FetchArgs, Answered, Answer, Walking
  <2>2. /\ cap' > 0 /\ Len(out') <= argLen
        /\ \A i \in 1 .. Len(out') : out'[i].item = <<image, i>>
        /\ pc' = "copy" => Len(out') = Whole
        /\ pc' \in {"ask", "copy"}
    BY <1>1, <1>7, <2>1, ArgsFetched
  <2> QED
    BY <1>1, <1>2, <2>1, <2>2 DEF QuietArgs
<1>8. CASE FetchArgsCapped
  <2>1. Walking /\ UNCHANGED <<text, out, cap>> /\ pc' = "copy"
    BY <1>8 DEF FetchArgsCapped, Goto, Answer, Walking
  <2>2. Len(out) = Whole
    BY <1>1, <1>8, <2>1, ArgsCapped
  <2> QED
    BY <1>1, <1>2, <2>1, <2>2 DEF QuietArgs
<1>9. CASE CopyShort
  <2>1. pc = "copy" /\ text' = text /\ pc' = "done"
    BY <1>9 DEF CopyShort, Finish
  <2>2. Len(out) = Whole
    BY <1>1, <2>1
  <2>3. out = << >> /\ status' = "fallback"
    BY <1>0, <1>1, <1>3, <1>4, <1>9, <2>2 DEF CopyShort, Finish
  <2>4. Whole = 0
    BY <2>2, <2>3
  <2> QED
    BY <1>1, <1>2, <1>3, <1>4, <2>1, <2>3, <2>4 DEF QuietArgs, Walking
<1>10. CASE CopyEnd
  <2>1. pc = "copy" /\ text' = text /\ pc' = "done" /\ status' = "eof" /\ out # << >> /\ Moved = << >>
    BY <1>0, <1>10 DEF CopyEnd, Finish
  <2>2. Len(out) = Whole
    BY <1>1, <2>1
  <2>3. Len(out) # 0
    BY <2>1 DEF Shapes
  <2>4. Len(out) <= offset
    BY <1>0, <1>3, <2>1, MovedFacts DEF Shapes
  <2>5. Len(text) = Whole /\ argLen # 0
    BY <1>1, <1>3, <1>4, <2>2, <2>3, <2>4
  <2> QED
    BY <1>1, <1>2, <2>1, <2>5 DEF QuietArgs, Walking
<1>11. CASE Copy
  <2>1. pc = "copy" /\ pc' = "call" /\ Moved # << >>
    BY <1>11 DEF Copy, Goto
  <2>2. /\ offset + Len(Moved) <= Len(out)
        /\ \A i \in 1 .. Len(Moved) : Moved[i] = out[offset + i]
    BY <1>0, <1>3, <2>1, MovedFacts DEF Shapes
  <2>3. /\ Len(Moved) \in Nat /\ Len(text') = Len(text) + Len(Moved)
        /\ \A i \in 1 .. Len(text) : text'[i] = text[i]
        /\ \A i \in 1 .. Len(Moved) : text'[Len(text) + i] = Moved[i]
    BY <1>11, CopyStep, SeqLength
  <2>4. ASSUME NEW i \in 1 .. Len(text') PROVE text'[i].item = <<image, i>>
    <3>1. CASE i \in 1 .. Len(text)
      BY <1>1, <2>3, <3>1
    <3>2. CASE i \notin 1 .. Len(text)
      <4>1. /\ i - Len(text) \in 1 .. Len(Moved) /\ i = Len(text) + (i - Len(text))
            /\ offset + (i - Len(text)) = i /\ i \in 1 .. Len(out)
        BY <1>3, <2>2, <2>3, <3>2
      <4>2. text'[i] = out[i]
        BY <2>2, <2>3, <4>1
      <4> QED
        BY <1>1, <2>1, <4>1, <4>2 DEF Walking
    <3> QED
      BY <3>1, <3>2
  <2>5. Len(text') <= Whole
    BY <1>1, <1>3, <2>1, <2>2, <2>3
  <2> QED
    BY <1>2, <2>1, <2>4, <2>5 DEF QuietArgs, Walking
<1> QED
  BY SMTT(30), <1>0, <1>5, <1>6, <1>7, <1>8, <1>9, <1>10, <1>11, QuietSteps
     DEF WalkMaps, ReadMem, ReadMemHole, ReadPagemap, Answered

-----------------------------------------------------------------------------

\* s begins with the lowest regions of the map, in order: exactly the regions
\* below one of its elements come before that element.
Enumerates(s) ==
    \A i \in 1 .. Len(s) :
        /\ s[i].item \in regions
        /\ \A r \in regions : r[1] < s[i].item[1] <=> \E j \in 1 .. i - 1 : s[j].item = r

QuietMaps ==
    (quiet /\ file = "maps") =>
        /\ Enumerates(text)
        /\ Walking => stable = regions /\ Enumerates(out)
        /\ pc = "copy" => \A r \in regions : r[2] <= addr
        /\ pc = "done" => /\ status = "eof"
                          /\ \A r \in regions : \E i \in 1 .. Len(text) : text[i].item = r

\* Two regions of a map that begin at the same address are one, and the one
\* that begins first ends before the other.
LEMMA LayoutFacts ==
    ASSUME regions \in Layouts, NEW r \in regions, NEW q \in regions
    PROVE  /\ r[1] \in Nat /\ r[2] \in Nat /\ r[1] < r[2]
           /\ q[1] \in Nat /\ q[2] \in Nat /\ q[1] < q[2]
           /\ r[1] = q[1] => r = q
           /\ r[1] < q[1] => r[2] <= q[1]
<1>1. r \in Regions /\ q \in Regions /\ (r = q \/ Disjoint(r, q))
  BY DEF Layouts
<1>2. /\ r[1] \in Nat /\ r[2] \in Nat /\ r[1] < r[2]
      /\ q[1] \in Nat /\ q[2] \in Nat /\ q[1] < q[2]
  BY <1>1, RegionFacts
<1>3. r = q \/ r[2] <= q[1] \/ q[2] <= r[1]
  BY <1>1 DEF Disjoint
<1> QED
  BY <1>2, <1>3

\* One answer of the daemon goes on with the enumeration: what is above the
\* walk's address comes after all that is below.
LEMMA MapsCollected ==
    ASSUME TypeOK, Shapes, Walk, file = "maps", Walking, stable = regions, Enumerates(out),
           NEW chunk \in MapsReplies(addr), Extended(chunk),
           NEW i \in 1 .. Len(out'), NEW r
    PROVE  /\ out'[i].item \in regions
           /\ r \in regions =>
                 (r[1] < out'[i].item[1] <=> \E j \in 1 .. i - 1 : out'[j].item = r)
<1> DEFINE n == Len(out)
           k == Len(chunk)
<1>1. addr \in Nat /\ regions \in Layouts /\ n \in Nat
  BY SizesAssumption, SeqLength DEF TypeOK, Shapes
<1>2. /\ k \in Nat
      /\ \A a \in 1 .. k : chunk[a] \in regions /\ chunk[a][2] > addr
      /\ \A a, b \in 1 .. k : a < b => chunk[a][2] <= chunk[b][1]
      /\ \A q \in regions : q[2] > addr =>
            \/ \E a \in 1 .. k : chunk[a] = q
            \/ \A a \in 1 .. k : chunk[a][2] <= q[1]
  BY <1>1, MapsFacts
<1>3. /\ Len(out') = n + k
      /\ \A a \in 1 .. n : out'[a] = out[a]
      /\ \A a \in 1 .. k : out'[n + a] = [who |-> who, item |-> chunk[a]]
  BY Zenon DEF Extended
<1>4. \A a \in 1 .. n : out[a].item \in regions /\ out[a].item[2] <= addr
  BY DEF Enumerates, Walk
<1>5. r \in regions /\ r[2] <= addr => \E a \in 1 .. n : out[a].item = r
  BY SMTT(30) DEF Walk
<1> HIDE DEF n, k
<1>6. ASSUME NEW a \in 1 .. k PROVE n + a \in 1 .. n + k /\ out'[n + a].item = chunk[a]
  <2>1. n + a \in 1 .. n + k
    BY SMTT(30), <1>1, <1>2 DEF n
  <2>2. out'[n + a] = [who |-> who, item |-> chunk[a]]
    BY <1>3
  <2> QED
    BY <2>1, <2>2
<1>7. r \in regions => r[1] \in Nat /\ r[2] \in Nat /\ r[1] < r[2]
  BY <1>1, LayoutFacts
<1>8. CASE i \in 1 .. n
  <2>1. out'[i].item = out[i].item
    BY <1>3, <1>8
  <2>2. \A j \in 1 .. i - 1 : out'[j] = out[j]
    <3>1. \A j \in 1 .. i - 1 : j \in 1 .. n
      BY <1>1, <1>8 DEF n
    <3> QED
      BY <1>3, <3>1
  <2>3. /\ out[i].item \in regions
        /\ r \in regions => (r[1] < out[i].item[1] <=> \E j \in 1 .. i - 1 : out[j].item = r)
    BY <1>8 DEF Enumerates, n
  <2> QED
    BY <2>1, <2>2, <2>3
<1>9. CASE i \notin 1 .. n
  <2> DEFINE c == i - n
  <2>1. c \in 1 .. k /\ i = n + c
    BY <1>1, <1>2, <1>3, <1>9 DEF n
  <2> HIDE DEF c
  <2>2. out'[i].item = chunk[c] /\ chunk[c] \in regions /\ chunk[c][2] > addr
    BY <1>2, <1>6, <2>1
  <2>3. chunk[c][1] \in Nat /\ chunk[c][2] \in Nat /\ chunk[c][1] < chunk[c][2]
    BY <1>1, <2>2, LayoutFacts
  <2>4. ASSUME r \in regions, NEW j \in 1 .. i - 1, out'[j].item = r PROVE r[1] < chunk[c][1]
    <3>0. r \in regions /\ r[1] \in Nat /\ r[2] \in Nat /\ r[1] < r[2]
      BY <1>7, <2>4
    <3>1. CASE j \in 1 .. n
      <4>1. out[j].item = r /\ r[2] <= addr
        BY SMTT(30), <1>3, <1>4, <2>4, <3>1
      <4>2. ~(chunk[c][1] < r[1]) /\ chunk[c][1] # r[1]
        BY SMTT(30), <1>1, <3>0, <2>2, <2>3, <4>1, LayoutFacts
      <4> QED
        BY <3>0, <2>3, <4>2
    <3>2. CASE j \notin 1 .. n
      <4>1. j - n \in 1 .. k /\ j = n + (j - n) /\ j - n < c
        BY <1>1, <1>2, <2>1, <3>2 DEF n
      <4>2. chunk[j - n] = r
        BY <1>6, <2>4, <4>1
      <4>3. chunk[j - n][2] <= chunk[c][1]
        BY <1>2, <2>1, <4>1
      <4> QED
        BY <3>0, <2>3, <4>2, <4>3
    <3> QED
      BY <3>1, <3>2
  <2>5. ASSUME r \in regions, r[1] < chunk[c][1] PROVE \E j \in 1 .. i - 1 : out'[j].item = r
    <3>0. r \in regions /\ r[1] \in Nat /\ r[2] \in Nat /\ r[1] < r[2]
      BY <1>7, <2>5
    <3>1. CASE r[2] <= addr
      <4>1. PICK a \in 1 .. n : out[a].item = r
        BY <1>5, <3>0, <3>1
      <4>2. a \in 1 .. i - 1
        BY SMTT(30), <1>1, <1>2, <2>1 DEF n
      <4> QED
        BY <1>3, <4>1, <4>2
    <3>2. CASE \E a \in 1 .. k : chunk[a] = r
      <4>1. PICK a \in 1 .. k : chunk[a] = r
        BY <3>2
      <4>2. a # c
        BY <3>0, <2>5, <4>1
      <4>3. ~(c < a)
        BY <1>2, <3>0, <2>1, <2>3, <2>5, <4>1
      <4>4. n + a \in 1 .. i - 1
        BY SMTT(30), <1>1, <1>2, <2>1, <4>2, <4>3 DEF n
      <4> QED
        BY <1>6, <4>1, <4>4
    <3>3. CASE \A a \in 1 .. k : chunk[a][2] <= r[1]
      BY <3>0, <2>1, <2>3, <2>5, <3>3
    <3> QED
      BY SMTT(30), <1>1, <1>2, <3>0, <3>1, <3>2, <3>3
  <2> QED
    BY <2>2, <2>4, <2>5
<1> QED
  BY <1>8, <1>9

\* The elements of an enumeration ascend.
LEMMA EnumerationAscends ==
    ASSUME regions \in Layouts, NEW s \in Seq(Record), Enumerates(s),
           NEW i \in 1 .. Len(s), NEW j \in 1 .. Len(s), i < j
    PROVE  s[i].item[1] < s[j].item[1] /\ s[i].item[2] <= s[j].item[1]
<1>1. s[i].item \in regions /\ s[j].item \in regions
  BY DEF Enumerates
<1>2. i \in 1 .. j - 1
  BY SeqLength
<1>3. s[i].item[1] < s[j].item[1]
  BY <1>1, <1>2 DEF Enumerates
<1> QED
  BY <1>1, <1>3, LayoutFacts

LOCAL INSTANCE WellFoundedInduction

\* A set of numbers has a least one.
LEMMA LeastNumber ==
    ASSUME NEW T, T \subseteq Nat, T # {}
    PROVE  \E x \in T : \A y \in T : x <= y
<1> DEFINE less == {p \in Nat \X Nat : p[1] < p[2]}
<1>1. IsWellFoundedOn(less, Nat)
  BY NatLessThanWellFounded DEF OpToRel
<1>2. PICK x \in T : \A y \in T : ~(<<y, x>> \in less)
  <2> HIDE DEF less
  <2> QED
    BY Zenon, <1>1, WFMin
<1>3. ASSUME NEW y \in T PROVE x <= y
  <2>1. x \in Nat /\ y \in Nat
    OBVIOUS
  <2>2. y < x => <<y, x>> \in less
    BY SMTT(30), <2>1
  <2> QED
    BY <1>2, <2>1, <2>2
<1> QED
  BY <1>3

\* Two enumerations of one map agree as far as both go: the first place at which
\* they differ would hold two regions that both come next.
LEMMA EnumerationsAgree ==
    ASSUME regions \in Layouts, NEW s \in Seq(Record), NEW t \in Seq(Record),
           Enumerates(s), Enumerates(t), NEW i \in 1 .. Len(s), i \in 1 .. Len(t)
    PROVE  s[i].item = t[i].item
<1> DEFINE T == {k \in 1 .. Len(s) : k \in 1 .. Len(t) /\ s[k].item # t[k].item}
<1> SUFFICES ASSUME T # {} PROVE FALSE
  OBVIOUS
<1>0. Len(s) \in Nat /\ Len(t) \in Nat
  BY SeqLength
<1>1. T \subseteq Nat
  BY <1>0
<1>2. PICK m \in T : \A k \in T : m <= k
  <2> HIDE DEF T
  <2> QED
    BY Zenon, <1>1, LeastNumber
<1>3. m \in 1 .. Len(s) /\ m \in 1 .. Len(t) /\ s[m].item # t[m].item
  OBVIOUS
<1>4. ASSUME NEW k \in 1 .. m - 1
      PROVE  k \in 1 .. Len(s) /\ k \in 1 .. Len(t) /\ s[k].item = t[k].item
  <2>1. k \in 1 .. Len(s) /\ k \in 1 .. Len(t) /\ ~(m <= k)
    BY <1>0, <1>3
  <2> QED
    BY <1>2, <2>1
<1> HIDE DEF T
<1>5. s[m].item \in regions /\ t[m].item \in regions
  BY <1>3 DEF Enumerates
<1>6. ~(s[m].item[1] < t[m].item[1])
  <2> SUFFICES ASSUME s[m].item[1] < t[m].item[1] PROVE FALSE
    OBVIOUS
  <2>1. PICK k \in 1 .. m - 1 : t[k].item = s[m].item
    BY Zenon, <1>3, <1>5 DEF Enumerates
  <2>2. s[k].item = s[m].item
    BY <1>4, <2>1
  <2>3. s[m].item[1] < s[m].item[1]
    BY SMTT(30), <1>3, <1>5, <2>2 DEF Enumerates
  <2> QED
    BY <1>5, <2>3, LayoutFacts
<1>7. ~(t[m].item[1] < s[m].item[1])
  <2> SUFFICES ASSUME t[m].item[1] < s[m].item[1] PROVE FALSE
    OBVIOUS
  <2>1. PICK k \in 1 .. m - 1 : s[k].item = t[m].item
    BY Zenon, <1>3, <1>5 DEF Enumerates
  <2>2. t[k].item = t[m].item
    BY <1>4, <2>1
  <2>3. t[m].item[1] < t[m].item[1]
    BY SMTT(30), <1>3, <1>5, <2>2 DEF Enumerates
  <2> QED
    BY <1>5, <2>3, LayoutFacts
<1>8. s[m].item[1] = t[m].item[1]
  BY SMTT(30), <1>5, <1>6, <1>7, LayoutFacts
<1> QED
  BY <1>3, <1>5, <1>8, LayoutFacts

\* None is longer than one that has every region.
LEMMA CompleteIsLongest ==
    ASSUME regions \in Layouts, NEW s \in Seq(Record), NEW t \in Seq(Record),
           Enumerates(s), Enumerates(t), \A r \in regions : \E i \in 1 .. Len(s) : s[i].item = r
    PROVE  Len(t) <= Len(s)
<1> SUFFICES ASSUME ~(Len(t) <= Len(s)) PROVE FALSE
  OBVIOUS
<1> DEFINE n == Len(s)
<1>1. n \in Nat /\ Len(t) \in Nat /\ n + 1 \in 1 .. Len(t)
  BY SeqLength
<1>2. t[n + 1].item \in regions
  BY <1>1 DEF Enumerates
<1>3. PICK i \in 1 .. n : s[i].item = t[n + 1].item
  BY <1>2
<1>4. i \in 1 .. Len(t) /\ i < n + 1
  BY <1>1
<1>5. t[i].item = t[n + 1].item
  BY <1>3, <1>4, EnumerationsAgree
<1>6. t[i].item[1] < t[n + 1].item[1]
  BY SMTT(30), <1>1, <1>4, EnumerationAscends
<1> QED
  BY <1>2, <1>5, <1>6, LayoutFacts

LEMMA MapsStep ==
    TypeOK /\ Shapes /\ Alive /\ Walk /\ QuietMaps /\ [Next]_vars => QuietMaps'
<1> SUFFICES ASSUME TypeOK, Shapes, Alive, Walk, QuietMaps, [Next]_vars, quiet', file' = "maps"
             PROVE  QuietMaps'
  BY Zenon DEF QuietMaps
<1>0. quiet /\ UNCHANGED <<processVars, file, start>> /\ file = "maps"
  BY SMTT(30), QuietSteps
<1>1. /\ Enumerates(text)
      /\ Walking => stable = regions /\ Enumerates(out)
      /\ pc = "copy" => \A r \in regions : r[2] <= addr
      /\ pc = "done" => /\ status = "eof"
                        /\ \A r \in regions : \E i \in 1 .. Len(text) : text[i].item = r
  BY <1>0 DEF QuietMaps
<1>2. regions' = regions
  BY <1>0 DEF processVars
<1>3. /\ out \in Seq(Record) /\ text \in Seq(Record) /\ regions \in Layouts
      /\ Len(out) \in Nat /\ Len(text) \in Nat /\ offset \in Nat /\ offset = Len(text)
  BY SMTT(30), <1>0, SeqLength DEF TypeOK, Shapes, Offsets
<1>4. text' = text => Enumerates(text)'
  <2>1. Enumerates(text)
    BY <1>1
  <2> QED
    BY ZenonT(30), <1>2, <2>1 DEF Enumerates
<1>5. out' = out /\ Walking => Enumerates(out)'
  <2>1. Walking => Enumerates(out)
    BY SMTT(30), <1>1
  <2> QED
    BY ZenonT(30), <1>2, <2>1 DEF Enumerates
<1>6. ASSUME pc = "copy"
      PROVE  /\ Enumerates(out) /\ Len(text) <= Len(out)
             /\ \A r \in regions : \E i \in 1 .. Len(out) : out[i].item = r
  <2>1. Enumerates(out) /\ stable = regions /\ \A r \in regions : r[2] <= addr
    BY <1>1, <1>6 DEF Walking
  <2>2. \A r \in regions : \E i \in 1 .. Len(out) : out[i].item = r
    BY SMTT(30), <1>0, <1>6, <2>1 DEF Walk, Walking
  <2> QED
    BY SMTT(30), <1>1, <1>3, <2>1, <2>2, CompleteIsLongest
<1>7. CASE UNCHANGED vars
  <2>1. UNCHANGED <<text, out, pc, status, addr, stable>>
    BY <1>7 DEF vars, readVars
  <2> QED
    BY <1>1, <1>2, <1>4, <1>5, <2>1 DEF QuietMaps, Walking
<1>8. CASE Enter
  <2>1. out' = << >> /\ text' = text /\ pc' = "ask" /\ stable' = regions
    BY <1>8 DEF Enter
  <2>2. Enumerates(out)'
    BY <2>1 DEF Enumerates
  <2> QED
    BY <1>2, <1>4, <2>1, <2>2 DEF QuietMaps
<1>9. CASE WalkMaps
  <2>1. Walking /\ UNCHANGED <<text, stable>>
    BY SMTT(30), <1>9 DEF WalkMaps, Answered, Answer, Walking
  <2>2. CASE pc' = "copy" /\ UNCHANGED <<addr, out>> /\ \A r \in regions : r[2] <= addr
    BY SMTT(30), <1>1, <1>2, <1>4, <1>5, <2>1, <2>2 DEF QuietMaps
  <2>3. ASSUME NEW chunk \in MapsReplies(addr), Extended(chunk), pc' = "ask"
        PROVE  QuietMaps'
    <3>1. Enumerates(out)'
      BY SMTT(30), <1>0, <1>1, <1>2, <2>1, <2>3, MapsCollected DEF Enumerates
    <3> QED
      BY SMTT(30), <1>1, <1>2, <1>4, <2>1, <2>3, <3>1 DEF QuietMaps
  <2> QED
    BY SMTT(30), <1>9, <2>2, <2>3, WalkMapsStep
<1>10. ~CopyShort
  BY SMTT(30), <1>0, <1>3, <1>6 DEF CopyShort
<1>11. CASE CopyEnd
  <2>1. pc = "copy" /\ text' = text /\ pc' = "done" /\ status' = "eof" /\ Moved = << >>
    BY <1>11 DEF CopyEnd, Finish
  <2>2. Len(out) <= Len(text)
    BY <1>0, <1>3, <2>1, MovedFacts
  <2>3. Len(text) = Len(out) /\ Enumerates(out)
    BY <1>3, <1>6, <2>1, <2>2
  <2>4. ASSUME NEW r \in regions PROVE \E i \in 1 .. Len(text) : text[i].item = r
    <3>1. PICK i \in 1 .. Len(out) : out[i].item = r
      BY <1>6, <2>1
    <3>2. i \in 1 .. Len(text)
      BY <2>3
    <3>3. out[i].item = text[i].item
      BY SMTT(30), <1>1, <1>3, <2>3, <3>2, EnumerationsAgree
    <3> QED
      BY <3>1, <3>2, <3>3
  <2> QED
    BY <1>2, <1>4, <2>1, <2>4 DEF QuietMaps, Walking
<1>12. CASE Copy
  <2>1. pc = "copy" /\ pc' = "call" /\ Moved # << >>
    BY <1>12 DEF Copy, Goto
  <2>2. /\ offset + Len(Moved) <= Len(out)
        /\ \A i \in 1 .. Len(Moved) : Moved[i] = out[offset + i]
    BY <1>0, <1>3, <2>1, MovedFacts
  <2>3. /\ Len(Moved) \in Nat /\ Len(text') = Len(text) + Len(Moved)
        /\ \A i \in 1 .. Len(text) : text'[i] = text[i]
        /\ \A i \in 1 .. Len(Moved) : text'[Len(text) + i] = Moved[i]
    BY <1>12, CopyStep, SeqLength
  <2>4. Enumerates(out)
    BY <1>6, <2>1
  <2>5. ASSUME NEW i \in 1 .. Len(text')
        PROVE  i \in 1 .. Len(out) /\ text'[i].item = out[i].item
    <3>1. CASE i \in 1 .. Len(text)
      <4>1. i \in 1 .. Len(out)
        BY <1>3, <2>2, <2>3, <3>1
      <4> QED
        BY SMTT(30), <1>1, <1>3, <2>3, <2>4, <3>1, <4>1, EnumerationsAgree
    <3>2. CASE i \notin 1 .. Len(text)
      <4>1. /\ i - Len(text) \in 1 .. Len(Moved) /\ i = Len(text) + (i - Len(text))
            /\ offset + (i - Len(text)) = i /\ i \in 1 .. Len(out)
        BY SMTT(30), <1>3, <2>2, <2>3, <3>2
      <4>2. text'[i] = out[i]
        BY SMTT(30), <2>2, <2>3, <4>1
      <4> QED
        BY <4>1, <4>2
    <3> QED
      BY <3>1, <3>2
  <2>6. ASSUME NEW i \in 1 .. Len(text'), NEW r \in regions
        PROVE  /\ text'[i].item \in regions
               /\ r[1] < text'[i].item[1] <=> \E j \in 1 .. i - 1 : text'[j].item = r
    <3>1. /\ out[i].item \in regions
          /\ r[1] < out[i].item[1] <=> \E j \in 1 .. i - 1 : out[j].item = r
      BY <2>4, <2>5 DEF Enumerates
    <3>2. \A j \in 1 .. i - 1 : j \in 1 .. Len(text')
      BY <1>3, <2>3
    <3> QED
      BY <2>5, <3>1, <3>2
  <2>7. Enumerates(text)'
    <3>1. \A i \in 1 .. Len(text') : text'[i].item \in regions
      BY <2>4, <2>5 DEF Enumerates
    <3> QED
      BY SMTT(30), <1>2, <2>6, <3>1 DEF Enumerates
  <2> QED
    BY <2>1, <2>7 DEF QuietMaps, Walking
<1> QED
  BY SMTT(30), <1>0, <1>7, <1>8, <1>9, <1>10, <1>11, <1>12, QuietSteps
     DEF FetchArgs, FetchArgsCapped, ReadMem, ReadMemHole, ReadPagemap, Answered

-----------------------------------------------------------------------------

Quiet == Alive /\ QuietMaps /\ QuietArgs /\ QuietMem /\ QuietPagemap

LEMMA InitQuiet == Init => QuietMaps /\ QuietArgs /\ QuietMem /\ QuietPagemap
<1> SUFFICES ASSUME Init PROVE QuietMaps /\ QuietArgs /\ QuietMem /\ QuietPagemap
  OBVIOUS
<1>1. text = << >> /\ Len(text) = 0 /\ pc = "call"
  BY DEF Init
<1>2. Whole \in Nat
  BY InitIInv, WholeFacts DEF IInv, Numbers
<1>3. QuietMaps
  BY <1>1 DEF QuietMaps, Enumerates, Walking
<1>4. QuietArgs
  BY <1>1, <1>2 DEF QuietArgs, Walking
<1>5. QuietMem
  BY <1>1 DEF QuietMem, ResidentRun, Walking
<1>6. QuietPagemap
  BY <1>1 DEF QuietPagemap, Walking
<1> QED
  BY <1>3, <1>4, <1>5, <1>6

LEMMA QuietAlways == Spec => []Quiet
<1>1. Spec => []QuietMaps
  BY InitQuiet, MapsStep, TypesAndShapes, AliveAlways, WalkAlways, PTL DEF Spec
<1>2. Spec => []QuietArgs
  BY InitQuiet, ArgsStep, TypesAndShapes, AliveAlways, BufferAlways, PTL DEF Spec
<1>3. Spec => []QuietMem
  BY InitQuiet, MemStep, TypesAndShapes, AliveAlways, PTL DEF Spec
<1>4. Spec => []QuietPagemap
  BY InitQuiet, PagemapStep, TypesAndShapes, AliveAlways, PTL DEF Spec
<1> QED
  BY <1>1, <1>2, <1>3, <1>4, AliveAlways, PTL DEF Quiet

\* What the caller has when a quiet read is done, file by file.
LEMMA QuietIsExact == TypeOK /\ Shapes /\ Quiet => QuietReadExact
<1> SUFFICES ASSUME TypeOK, Shapes, Quiet, pc = "done", quiet PROVE QuietReadExact
  BY Zenon DEF QuietReadExact
<1>1. /\ text \in Seq(Record) /\ Len(text) \in Nat /\ DOMAIN text = 1 .. Len(text)
      /\ start \in Nat /\ offset = start + Len(text) /\ regions \in Layouts
  BY SeqLength DEF TypeOK, Shapes
<1>2. /\ DOMAIN Items(text) = 1 .. Len(text)
      /\ \A i \in 1 .. Len(text) : Items(text)[i] = text[i].item
  BY <1>1 DEF Items
<1>3. ASSUME file = "maps"
      PROVE  status = "eof" /\ Ascending(Items(text)) /\ Range(Items(text)) = regions
  <2>1. /\ Enumerates(text) /\ status = "eof"
        /\ \A r \in regions : \E i \in 1 .. Len(text) : text[i].item = r
    BY <1>3 DEF Quiet, QuietMaps
  <2>2. ASSUME NEW i \in 1 .. Len(text), NEW j \in 1 .. Len(text), i < j
        PROVE  Items(text)[i][2] <= Items(text)[j][1]
    BY SMTT(30), <1>1, <1>2, <2>1, <2>2, EnumerationAscends
  <2>3. Ascending(Items(text))
    BY <1>2, <2>2 DEF Ascending
  <2>4. \A i \in 1 .. Len(text) : text[i].item \in regions
    BY <2>1 DEF Enumerates
  <2>5. Range(Items(text)) = regions
    BY <1>2, <2>1, <2>4 DEF Range
  <2> QED
    BY <2>1, <2>3, <2>5
<1>4. ASSUME file = "args"
      PROVE  /\ status = IF argLen = 0 THEN "fallback" ELSE "eof"
             /\ Items(text) = [i \in 1 .. Min({argLen, CmdlineMax}) |-> <<image, i>>]
  <2>1. /\ status = IF argLen = 0 THEN "fallback" ELSE "eof"
        /\ Len(text) = Min({argLen, CmdlineMax})
        /\ \A i \in 1 .. Len(text) : text[i].item = <<image, i>>
    BY Zenon, <1>4 DEF Quiet, QuietArgs, Whole
  <2>2. Items(text) = [i \in 1 .. Len(text) |-> <<image, i>>]
    BY Zenon, <1>1, <2>1 DEF Items
  <2> QED
    BY <2>1, <2>2
<1>5. ASSUME file = "mem"
      PROVE  /\ status = "EIO"
             /\ Items(text) = [i \in DOMAIN text |-> <<image, start + i - 1>>]
             /\ \A i \in DOMAIN text : start + i - 1 \in resident
             /\ start + Len(text) \notin resident
  <2>1. /\ status = "EIO" /\ offset \notin resident
        /\ \A i \in 1 .. Len(text) :
              text[i].item = <<image, start + i - 1>> /\ start + i - 1 \in resident
    BY SMTT(30), <1>5 DEF Quiet, QuietMem, ResidentRun
  <2>2. Items(text) = [i \in DOMAIN text |-> <<image, start + i - 1>>]
    BY <1>1, <2>1 DEF Items
  <2> QED
    BY SMTT(30), <1>1, <2>1, <2>2
<1>6. ASSUME file = "pagemap"
      PROVE  /\ status = "eof"
             /\ \A i \in DOMAIN text : text[i].item = Entry(start + i - 1)
             /\ \A r \in regions : r[2] <= (start + Len(text)) \div 2
  BY <1>1, <1>6 DEF Quiet, QuietPagemap, AboveAll
<1>7. file \in {"maps", "args", "mem", "pagemap"}
  BY DEF TypeOK, Files
<1>8. CASE file = "maps"
  BY SMTT(30), <1>3, <1>8 DEF QuietReadExact
<1>9. CASE file = "args"
  BY Zenon, <1>4, <1>9 DEF QuietReadExact
<1>10. CASE file = "mem"
  BY SMTT(30), <1>5, <1>10 DEF QuietReadExact
<1>11. CASE file = "pagemap"
  BY SMTT(30), <1>6, <1>11 DEF QuietReadExact, Entry
<1> QED
  BY <1>7, <1>8, <1>9, <1>10, <1>11

\* A read of maps, of the arguments, of mem or of pagemap that no failed request
\* and no change of the process disturbs gives exactly what there is, for every
\* map, argument area and set of resident pages, and however the daemon's
\* answers and the caller's buffer divide it.
THEOREM QuietReadsAreExact == Spec => []QuietReadExact
BY QuietIsExact, QuietAlways, TypesAndShapes, PTL
=============================================================================
