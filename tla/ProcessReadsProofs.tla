-------------------------- MODULE ProcessReadsProofs --------------------------
(***************************************************************************)
(* Reads of process files for any address space, payload, limits, sizes of *)
(* the caller's buffer and lengths of the argument area: the buffer of     *)
(* procfs_fetch_procargs, that partial results are kept, the types, and    *)
(* that a call sees one process.                                           *)
(*                                                                         *)
(* ArgsFit is not inductive: a slice fits because the buffer is a whole    *)
(* number of payloads long, and so is what it holds as long as the loop    *)
(* goes on.  When the next slice may not fit the buffer is therefore full, *)
(* and growing it at all makes room for a payload.                         *)
(***************************************************************************)
EXTENDS ProcessReads, TLAPS

Slices == {n * Payload : n \in Nat}
Bytes == [who : Nat, item : Nat \X Nat]

\* What the loop over the argument area keeps to.
ArgsBuffer ==
    file = "args" =>
        /\ out \in Seq(Bytes)
        /\ cap \in Slices
        /\ Len(out) <= cap
        /\ cap <= CmdlineMax
        /\ pc = "ask" => Len(out) \in Slices

Numbers == who \in Nat /\ image \in Nat /\ argLen \in Nat

IInv == Numbers /\ ArgsBuffer

-----------------------------------------------------------------------------

\* Sequences, their concatenation and their parts.
LEMMA SeqLength ==
    ASSUME NEW X, NEW s \in Seq(X)
    PROVE  Len(s) \in Nat /\ DOMAIN s = 1 .. Len(s) /\ (s = << >> <=> Len(s) = 0)
OBVIOUS

LEMMA Concatenation ==
    ASSUME NEW X, NEW s \in Seq(X), NEW t \in Seq(X)
    PROVE  /\ s \o t \in Seq(X) /\ Len(s \o t) = Len(s) + Len(t)
           /\ \A i \in 1 .. Len(s) + Len(t) :
                 (s \o t)[i] = IF i <= Len(s) THEN s[i] ELSE t[i - Len(s)]
OBVIOUS

LEMMA Subsequence ==
    ASSUME NEW X, NEW s \in Seq(X), NEW m \in Nat, NEW n \in Nat, m >= 1, n <= Len(s)
    PROVE  /\ SubSeq(s, m, n) \in Seq(X)
           /\ Len(SubSeq(s, m, n)) = IF m <= n THEN n - m + 1 ELSE 0
           /\ \A i \in 1 .. n - m + 1 : SubSeq(s, m, n)[i] = s[m + i - 1]
OBVIOUS

\* The smaller of two numbers.
LEMMA MinOfTwo ==
    ASSUME NEW x \in Int, NEW y \in Int
    PROVE  Min({x, y}) = IF x <= y THEN x ELSE y
<1> DEFINE m == IF x <= y THEN x ELSE y
<1>1. m \in {x, y} /\ \A z \in {x, y} : m <= z
  OBVIOUS
<1>2. \A w \in {x, y} : (\A z \in {x, y} : w <= z) => w = m
  OBVIOUS
<1> HIDE DEF m
<1>3. Min({x, y}) = m
  BY <1>1, <1>2 DEF Min
<1> QED
  BY <1>3 DEF m

\* Two sizes that are whole numbers of payloads and differ, differ by one.
LEMMA SlicesApart ==
    ASSUME NEW x \in Slices, NEW y \in Slices, x < y
    PROVE  x \in Nat /\ y \in Nat /\ x + Payload <= y /\ x + Payload \in Slices
<1>1. PICK a \in Nat : x = a * Payload
  BY DEF Slices
<1>2. PICK b \in Nat : y = b * Payload
  BY DEF Slices
<1>3. Payload \in Nat /\ Payload > 0
  BY SizesAssumption
<1>4. a < b
  <2> SUFFICES ASSUME ~(a < b) PROVE FALSE
    OBVIOUS
  <2>1. PICK d \in Nat : a = b + d
    <3>1. a - b \in Nat /\ a = b + (a - b)
      OBVIOUS
    <3> QED
      BY <3>1
  <2>2. a * Payload = b * Payload + d * Payload /\ d * Payload \in Nat /\ b * Payload \in Nat
    BY <1>3, <2>1
  <2> QED
    BY <1>1, <1>2, <2>2
<1>5. PICK e \in Nat : b = a + 1 + e
  <2>1. b - a - 1 \in Nat /\ b = a + 1 + (b - a - 1)
    BY <1>4
  <2> QED
    BY <2>1
<1>6. /\ b * Payload = a * Payload + Payload + e * Payload
      /\ (a + 1) * Payload = a * Payload + Payload
      /\ e * Payload \in Nat /\ a * Payload \in Nat /\ b * Payload \in Nat
  BY <1>3, <1>5
<1>7. (a + 1) * Payload \in Slices
  BY DEF Slices
<1> QED
  BY <1>1, <1>2, <1>3, <1>6, <1>7

\* A payload, twice a size and the limit are sizes of the buffer.
LEMMA SlicesGrow ==
    /\ 0 \in Slices /\ Payload \in Slices /\ CmdlineMax \in Slices
    /\ \A x \in Slices : x \in Nat /\ 2 * x \in Slices
<1>1. Payload \in Nat /\ Payload > 0
  BY SizesAssumption
<1>2. 0 = 0 * Payload /\ Payload = 1 * Payload
  BY <1>1
<1>3. CmdlineMax = (CmdlineMax \div Payload) * Payload /\ CmdlineMax \div Payload \in Nat
  BY <1>1, CmdlineAssumption
<1>4. ASSUME NEW x \in Slices PROVE x \in Nat /\ 2 * x \in Slices
  <2>1. PICK a \in Nat : x = a * Payload
    BY DEF Slices
  <2>2. 2 * x = (2 * a) * Payload /\ 2 * a \in Nat /\ a * Payload \in Nat
    BY <1>1, <2>1
  <2> QED
    BY <2>1, <2>2 DEF Slices
<1> QED
  BY <1>2, <1>3, <1>4 DEF Slices

\* A slice of the argument area is at most a payload.
LEMMA SliceLength ==
    ASSUME Numbers, NEW total \in Nat
    PROVE  /\ ArgsReply(total) \in Seq(Nat \X Nat)
           /\ Len(ArgsReply(total)) <= Payload
<1> USE DEF Numbers
<1> DEFINE rest == argLen - Min({total, argLen})
           n == Min({Payload, rest})
<1>1. rest \in Nat
  BY MinOfTwo
<1>2. Payload \in Nat
  BY SizesAssumption
<1> HIDE DEF rest
<1>3. n \in Nat /\ n <= Payload
  BY <1>1, <1>2, MinOfTwo
<1>4. ArgsReply(total) = [i \in 1 .. n |-> <<image, total + i>>]
  BY DEF ArgsReply, rest
<1> HIDE DEF n
<1>5. ArgsReply(total) \in [1 .. n -> Nat \X Nat]
  BY <1>3, <1>4
<1> QED
  BY <1>3, <1>5

LEMMA InitIInv == Init => IInv
<1> SUFFICES ASSUME Init PROVE IInv
  OBVIOUS
<1>1. Numbers
  <2>1. argLen \in ArgLens \/ argLen = 0
    BY DEF Init, Lengths
  <2> QED
    BY <2>1, SizesAssumption DEF Init, Numbers
<1>2. ArgsBuffer
  <2>1. out = << >> /\ cap = 0 /\ pc = "call"
    BY DEF Init
  <2> QED
    BY <2>1, SlicesGrow, CmdlineAssumption DEF ArgsBuffer
<1> QED
  BY <1>1, <1>2 DEF IInv

\* Steps of the process leave the call alone, and steps that end a request or a
\* call leave its buffer alone.
LEMMA BufferKept ==
    ASSUME IInv, Numbers', UNCHANGED <<file, cap, out>>, pc' = "ask" => pc = "ask"
    PROVE  IInv'
BY DEF IInv, ArgsBuffer

LEMMA ProcessKeeps == IInv /\ Process => IInv'
<1> SUFFICES ASSUME IInv, Process PROVE IInv'
  OBVIOUS
<1>1. UNCHANGED readVars
  BY DEF Process, Remap, Page, Exec, Reuse, Exit, Reap, Change
<1>2. \A l \in Lengths : l \in Nat
  BY SizesAssumption DEF Lengths
<1>3. Numbers'
  <2>1. CASE UNCHANGED <<who, image, argLen>>
    BY <2>1 DEF IInv, Numbers
  <2>2. ASSUME NEW l \in Lengths, Exec(l) \/ Reuse(l) PROVE Numbers'
    BY <1>2, <2>2 DEF IInv, Numbers, Exec, Reuse
  <2> QED
    BY <2>1, <2>2 DEF Process, Remap, Page, Exit, Reap
<1> QED
  BY <1>1, <1>3, BufferKept DEF readVars

\* The slice is added to a buffer that has room for it.
LEMMA FetchArgsKeeps == IInv /\ FetchArgs => IInv'
<1> SUFFICES ASSUME IInv, FetchArgs PROVE IInv'
  OBVIOUS
<1> DEFINE slice == ArgsReply(Len(out))
           added == [i \in 1 .. Len(slice) |-> [who |-> who, item |-> slice[i]]]
<1>1. /\ out \in Seq(Bytes) /\ Len(out) \in Slices /\ cap \in Slices
      /\ Len(out) <= cap /\ cap <= CmdlineMax
  BY DEF IInv, ArgsBuffer, FetchArgs, Answered
<1>2. /\ Len(out) \in Nat /\ cap \in Nat /\ CmdlineMax \in Nat
      /\ Payload \in Nat /\ Payload > 0
  BY <1>1, SlicesGrow, SizesAssumption, CmdlineAssumption
<1>3. slice \in Seq(Nat \X Nat) /\ Len(slice) <= Payload /\ Len(slice) \in Nat
  BY <1>2, SliceLength DEF IInv
<1>4. out' = out \o added /\ cap' = Grown /\ UNCHANGED <<processVars, file>>
  BY DEF FetchArgs, Add, Answer
<1>5. pc' = "ask" => Len(slice) = Payload
  <2>1. pc' = IF Len(slice) < Payload THEN "copy" ELSE "ask"
    BY DEF FetchArgs, Goto
  <2> HIDE DEF slice
  <2> QED
    BY <1>2, <1>3, <2>1
<1> HIDE DEF slice
<1>6. added \in Seq(Bytes) /\ Len(added) = Len(slice)
  <2>1. \A i \in 1 .. Len(slice) : [who |-> who, item |-> slice[i]] \in Bytes
    BY <1>3 DEF IInv, Numbers, Bytes
  <2>2. added \in [1 .. Len(slice) -> Bytes]
    BY <2>1
  <2> QED
    BY <1>3, <2>2
<1> HIDE DEF added
<1>7. out' \in Seq(Bytes) /\ Len(out') = Len(out) + Len(slice)
  <2>1. out \o added \in Seq(Bytes) /\ Len(out \o added) = Len(out) + Len(added)
    BY <1>1, <1>6, Concatenation
  <2>2. out' = out \o added
    BY <1>4
  <2> QED
    BY <1>6, <2>1, <2>2, Zenon
<1>8. Grown \in Slices /\ Grown <= CmdlineMax /\ Len(out) + Payload <= Grown
  <2>1. CASE Len(out) + Payload <= cap
    <3>1. Grown = cap
      BY <1>2, <2>1 DEF Grown
    <3> QED
      BY <1>1, <2>1, <3>1
  <2>2. CASE Len(out) + Payload > cap
    <3>1. Grown = Min({2 * cap, CmdlineMax})
      BY <2>2 DEF Grown
    <3>2. Grown \in {2 * cap, CmdlineMax} /\ Grown <= CmdlineMax
      BY <1>2, <3>1, MinOfTwo
    <3>3. Grown \in Slices
      BY <1>1, <3>2, SlicesGrow
    <3>4. ~(Grown <= Len(out))
      BY <2>2 DEF FetchArgs, CapReached
    <3>5. Len(out) < Grown
      BY <1>2, <3>2, <3>4
    <3> QED
      BY <1>1, <3>2, <3>3, <3>5, SlicesApart
  <2> QED
    BY <1>2, <2>1, <2>2
<1>9. Len(out) + Payload \in Slices
  <2>1. Len(out) < Grown
    BY <1>2, <1>8, SlicesGrow
  <2> QED
    BY <1>1, <1>8, <2>1, SlicesApart
<1>10. ArgsBuffer'
  <2>1. Grown \in Nat
    BY <1>8, SlicesGrow
  <2>2. Len(out') <= Grown
    BY <1>2, <1>3, <1>7, <1>8, <2>1
  <2> QED
    BY <1>4, <1>5, <1>7, <1>8, <1>9, <2>2 DEF ArgsBuffer
<1> QED
  BY <1>4, <1>10 DEF IInv, Numbers, processVars

LEMMA EnterKeeps == IInv /\ Enter => IInv'
<1> SUFFICES ASSUME IInv, Enter PROVE IInv'
  OBVIOUS
<1>1. out' = << >> /\ cap' = Payload /\ UNCHANGED processVars
  BY DEF Enter
<1>2. ArgsBuffer'
  BY <1>1, SlicesGrow, SizesAssumption, CmdlineAssumption DEF ArgsBuffer
<1> QED
  BY <1>1, <1>2 DEF IInv, Numbers, processVars

LEMMA ReaderKeeps == IInv /\ Reader => IInv'
<1> SUFFICES ASSUME IInv, Reader PROVE IInv'
  OBVIOUS
<1>1. CASE EnterGone \/ EnterRefused \/ Fail \/ GrowFails \/ CopyShort \/ CopyEnd \/ Copy
  <2>1. UNCHANGED <<processVars, file, cap, out>> /\ pc' # "ask"
    BY <1>1 DEF EnterGone, EnterRefused, Fail, GrowFails, CopyShort, CopyEnd, Copy, Finish, Goto
  <2>2. Numbers'
    BY <2>1 DEF IInv, Numbers, processVars
  <2> QED
    BY <2>1, <2>2, BufferKept
<1>2. CASE FetchArgsCapped
  <2>1. UNCHANGED <<processVars, file, cap, out>> /\ pc' # "ask"
    BY <1>2 DEF FetchArgsCapped, Goto, Answer
  <2>2. Numbers'
    BY <2>1 DEF IInv, Numbers, processVars
  <2> QED
    BY <2>1, <2>2, BufferKept
<1>3. CASE WalkMaps \/ ReadMem \/ ReadMemHole \/ ReadPagemap
  <2>1. file # "args" /\ UNCHANGED <<processVars, file>>
    BY <1>3 DEF WalkMaps, ReadMem, ReadMemHole, ReadPagemap, Answer, Finish
  <2> QED
    BY <2>1 DEF IInv, Numbers, ArgsBuffer, processVars
<1> QED
  BY <1>1, <1>2, <1>3, EnterKeeps, FetchArgsKeeps DEF Reader

LEMMA BufferStep == IInv /\ [Next]_vars => IInv'
<1> SUFFICES ASSUME IInv, [Next]_vars PROVE IInv'
  OBVIOUS
<1>1. CASE UNCHANGED vars
  <2>1. UNCHANGED <<who, image, argLen, file, cap, out, pc>>
    BY <1>1 DEF vars, processVars, readVars
  <2>2. Numbers'
    BY <2>1 DEF IInv, Numbers
  <2> QED
    BY <2>1, <2>2, BufferKept
<1> QED
  BY <1>1, ReaderKeeps, ProcessKeeps DEF Next

LEMMA BufferAlways == Spec => []IInv
BY BufferStep, InitIInv, PTL DEF Spec

\* The argument bytes never pass the end of the buffer of procfs_fetch_procargs,
\* nor the buffer its limit, however the process changes between two slices.
THEOREM ArgumentsFit == Spec => []ArgsFit
<1>1. IInv => ArgsFit
  BY DEF IInv, ArgsBuffer, ArgsFit
<1> QED
  BY <1>1, BufferAlways, PTL

\* No step of the walks of procfs_map_walk and its likes throws away what a call
\* has already collected, but for an argument buffer that cannot be enlarged.
THEOREM PartialResultsKept == Spec => PartialKept
<1>1. [Next]_vars => [(pc = "ask" /\ pc' = "done" /\ out # << >>)
                       => (file = "args" /\ Grown > cap)]_vars
  <2> SUFFICES ASSUME Next, pc = "ask", pc' = "done", out # << >>
               PROVE  file = "args" /\ Grown > cap
    OBVIOUS
  <2>1. ~Process
    BY DEF Process, Remap, Page, Exec, Reuse, Exit, Reap, Change, readVars
  <2>2. ~(EnterGone \/ EnterRefused \/ Enter \/ CopyShort \/ CopyEnd \/ Copy)
    BY DEF EnterGone, EnterRefused, Enter, CopyShort, CopyEnd, Copy
  <2>3. ~(Fail \/ ReadMemHole)
    BY DEF Fail, ReadMemHole, Goto
  <2>4. ~(WalkMaps \/ FetchArgs \/ FetchArgsCapped \/ ReadMem \/ ReadPagemap)
    BY DEF WalkMaps, FetchArgs, FetchArgsCapped, ReadMem, ReadPagemap, Goto
  <2> QED
    BY <2>1, <2>2, <2>3, <2>4 DEF Next, Reader, GrowFails
<1> QED
  BY <1>1, PTL DEF Spec, PartialKept
-----------------------------------------------------------------------------
(* The operators of the model.                                             *)

Item == (Nat \X Nat) \cup (Nat \X Nat \X Nat)
Record == [who : Nat, item : Item]

\* The first n elements, or all of them.
LEMMA PrefixFacts ==
    ASSUME NEW X, NEW s \in Seq(X), NEW n \in Nat
    PROVE  /\ Prefix(s, n) \in Seq(X)
           /\ Len(Prefix(s, n)) = IF n < Len(s) THEN n ELSE Len(s)
           /\ \A i \in 1 .. Len(Prefix(s, n)) : Prefix(s, n)[i] = s[i]
<1> DEFINE m == IF n < Len(s) THEN n ELSE Len(s)
<1>1. m \in Nat /\ m <= Len(s)
  OBVIOUS
<1>2. Prefix(s, n) = SubSeq(s, 1, m)
  BY DEF Prefix
<1> HIDE DEF m
<1>3. 1 .. m = {} \/ (1 \in 1 .. Len(s) /\ m \in 1 .. Len(s))
  BY <1>1
<1>4. /\ SubSeq(s, 1, m) \in Seq(X)
      /\ Len(SubSeq(s, 1, m)) = m
      /\ \A i \in 1 .. m : SubSeq(s, 1, m)[i] = s[i]
  BY <1>1, <1>3, Subsequence
<1> QED
  BY <1>2, <1>4 DEF m

\* What a call has collected grows by the items of an answer.
LEMMA AddFacts ==
    ASSUME out \in Seq(Record), who \in Nat, NEW items \in Seq(Item), Add(items)
    PROVE  /\ out' \in Seq(Record)
           /\ Len(out') = Len(out) + Len(items)
           /\ \A i \in 1 .. Len(out) : out'[i] = out[i]
           /\ \A i \in 1 .. Len(items) : out'[Len(out) + i] = [who |-> who, item |-> items[i]]
<1> DEFINE added == [i \in 1 .. Len(items) |-> [who |-> who, item |-> items[i]]]
<1>1. \A i \in 1 .. Len(items) : [who |-> who, item |-> items[i]] \in Record
  BY DEF Record
<1>2. added \in Seq(Record) /\ Len(added) = Len(items)
  <2>1. added \in [1 .. Len(items) -> Record]
    BY <1>1
  <2> QED
    BY <2>1
<1>3. \A i \in 1 .. Len(items) : added[i] = [who |-> who, item |-> items[i]]
  OBVIOUS
<1>4. out' = out \o added
  BY DEF Add
<1> HIDE DEF added
<1>5. /\ out \o added \in Seq(Record)
      /\ Len(out \o added) = Len(out) + Len(added)
      /\ \A i \in 1 .. Len(out) + Len(added) :
            (out \o added)[i] = IF i <= Len(out) THEN out[i] ELSE added[i - Len(out)]
  BY Zenon, <1>2, Concatenation
<1>6. \A i \in 1 .. Len(out) : out'[i] = out[i]
  BY <1>2, <1>4, <1>5
<1>7. ASSUME NEW i \in 1 .. Len(items) PROVE out'[Len(out) + i] = added[i]
  <2>1. Len(out) + i \in 1 .. Len(out) + Len(added) /\ ~(Len(out) + i <= Len(out))
    BY <1>2
  <2> QED
    BY <1>4, <1>5, <2>1
<1> QED
  BY <1>2, <1>3, <1>4, <1>5, <1>6, <1>7

\* procfs_copy_data takes at most a buffer from the offset on; mem and pagemap
\* have moved everything.
LEMMA MovedFacts ==
    ASSUME out \in Seq(Record), offset \in Nat
    PROVE  /\ Moved \in Seq(Record)
           /\ file \notin {"maps", "args"} => Moved = out
           /\ file \in {"maps", "args"} =>
                 /\ Len(Moved) <= UserBuf
                 /\ Moved = << >> => Len(out) <= offset
                 /\ offset + Len(Moved) <= Len(out) \/ Moved = << >>
                 /\ \A i \in 1 .. Len(Moved) : Moved[i] = out[offset + i]
<1>1. CASE file \notin {"maps", "args"}
  BY <1>1 DEF Moved
<1>2. CASE file \in {"maps", "args"}
  <2> DEFINE n == Min({offset + UserBuf, Len(out)})
  <2>1. UserBuf \in Nat /\ UserBuf > 0
    BY SizesAssumption
  <2>2. n = IF offset + UserBuf <= Len(out) THEN offset + UserBuf ELSE Len(out)
    BY <2>1, MinOfTwo
  <2>3. Moved = SubSeq(out, offset + 1, n)
    BY Zenon, <1>2 DEF Moved
  <2> HIDE DEF n
  <2>4. n \in Nat /\ n <= Len(out) /\ n <= offset + UserBuf
    BY <2>1, <2>2
  <2>5. offset + 1 .. n = {} \/ (offset + 1 \in 1 .. Len(out) /\ n \in 1 .. Len(out))
    BY <2>4
  <2>6. /\ SubSeq(out, offset + 1, n) \in Seq(Record)
        /\ Len(SubSeq(out, offset + 1, n)) = IF offset + 1 <= n THEN n - (offset + 1) + 1 ELSE 0
        /\ \A i \in 1 .. n - (offset + 1) + 1 :
              SubSeq(out, offset + 1, n)[i] = out[offset + 1 + i - 1]
    BY <2>4, <2>5, Subsequence
  <2>7. Moved \in Seq(Record) /\ Len(Moved) = IF offset + 1 <= n THEN n - offset ELSE 0
    BY <2>3, <2>4, <2>6
  <2>8. \A i \in 1 .. Len(Moved) : Moved[i] = out[offset + i]
    BY <2>3, <2>4, <2>6, <2>7
  <2>9. Moved = << >> <=> Len(Moved) = 0
    BY <2>7, SeqLength
  <2>10. Len(Moved) <= UserBuf /\ (Moved = << >> => Len(out) <= offset)
    BY <2>1, <2>2, <2>4, <2>7, <2>9
  <2>11. offset + Len(Moved) <= Len(out) \/ Moved = << >>
    BY <2>4, <2>7, <2>9
  <2> QED
    BY <1>2, <2>7, <2>8, <2>10, <2>11
<1> QED
  BY <1>1, <1>2

\* A region is a pair of addresses, the first one the lower.
LEMMA RegionFacts ==
    ASSUME NEW r \in Regions
    PROVE  /\ r \in Nat \X Nat /\ r = <<r[1], r[2]>>
           /\ r[1] \in Nat /\ r[2] \in Nat /\ r[1] < r[2] /\ r[2] <= Top
BY SizesAssumption DEF Regions, Addresses

\* What a process can be like has the form of a map.
LEMMA MapsAreLayouts ==
    /\ Maps \subseteq Layouts
    /\ \A m : Loaded(m) \subseteq Mapped(m)
<1>1. ASSUME NEW m \in Maps PROVE m \in Layouts
  <2>1. CASE file = "args"
    BY <1>1, <2>1 DEF Maps, Layouts
  <2>2. CASE file = "maps"
    BY <1>1, <2>2 DEF Maps
  <2>3. CASE file \notin {"args", "maps"}
    <3>1. PICK S \in SUBSET Addresses : m = {<<a, a + 1>> : a \in S}
      BY <1>1, <2>3 DEF Maps
    <3>2. \A a \in S : a \in Nat /\ <<a, a + 1>> \in Regions
      BY SizesAssumption DEF Regions, Addresses
    <3>3. ASSUME NEW a \in S, NEW b \in S PROVE a = b \/ Disjoint(<<a, a + 1>>, <<b, b + 1>>)
      <4>1. a \in Nat /\ b \in Nat
        BY Zenon, <3>2
      <4>2. a = b \/ a + 1 <= b \/ b + 1 <= a
        BY <4>1
      <4> QED
        BY <4>2 DEF Disjoint
    <3>4. \A r, t \in m : r = t \/ Disjoint(r, t)
      BY <3>1, <3>3
    <3> QED
      BY <3>1, <3>2, <3>4 DEF Layouts
  <2> QED
    BY <2>1, <2>2, <2>3
<1>2. \A m : Loaded(m) \subseteq Mapped(m)
  BY DEF Loaded
<1> QED
  BY <1>1, <1>2

\* An answer of procfsd_handle_maps.
LEMMA MapsFacts ==
    ASSUME regions \in Layouts, NEW a \in Nat, NEW chunk \in MapsReplies(a)
    PROVE  /\ chunk \in Seq(Item) /\ Len(chunk) \in Nat /\ Len(chunk) <= MaxFit
           /\ \A i \in 1 .. Len(chunk) : /\ chunk[i] \in regions /\ chunk[i] \in Regions
                                         /\ chunk[i][2] > a
           /\ \A i, j \in 1 .. Len(chunk) : i < j => chunk[i][2] <= chunk[j][1]
           /\ \A r \in regions : r[2] > a =>
                 \/ \E i \in 1 .. Len(chunk) : chunk[i] = r
                 \/ Len(chunk) = MaxFit /\ \A i \in 1 .. Len(chunk) : chunk[i][2] <= r[1]
           /\ chunk # << >> => Len(chunk) > 0
<1> DEFINE upper == {r \in regions : r[2] > a}
<1>1. chunk \in UNION {[1 .. n -> upper] : n \in 0 .. MaxFit}
  BY DEF MapsReplies
<1>2. PICK n \in 0 .. MaxFit : chunk \in [1 .. n -> upper]
  BY <1>1
<1>3. n \in Nat /\ chunk \in Seq(upper) /\ Len(chunk) = n /\ DOMAIN chunk = 1 .. Len(chunk)
  <2>1. n \in Nat
    BY <1>2, SizesAssumption
  <2> HIDE DEF upper
  <2> QED
    BY <1>2, <2>1
<1>4. \A r \in regions : r \in Regions /\ r \in Item
  BY RegionFacts DEF Layouts, Item
<1>5. \A i \in 1 .. Len(chunk) : chunk[i] \in upper
  BY <1>2, <1>3
<1>6. chunk \in Seq(Item)
  <2>1. upper \subseteq Item
    BY <1>4
  <2> HIDE DEF upper
  <2>2. chunk \in [1 .. n -> Item]
    BY <1>2, <2>1
  <2> QED
    BY <1>3, <2>2
<1>7. /\ \A i, j \in 1 .. Len(chunk) : i < j => chunk[i][2] <= chunk[j][1]
      /\ \A r \in regions : r[2] > a =>
            \/ \E i \in 1 .. Len(chunk) : chunk[i] = r
            \/ Len(chunk) = MaxFit /\ \A i \in 1 .. Len(chunk) : chunk[i][2] <= r[1]
  BY SMTT(30), <1>3 DEF MapsReplies, Ascending
<1>8. chunk # << >> => Len(chunk) > 0
  BY <1>3, <1>6, SeqLength
<1> QED
  BY <1>2, <1>3, <1>4, <1>5, <1>6, <1>7, <1>8

\* An answer of procfsd_handle_memread: the resident prefix.
LEMMA MemFacts ==
    ASSUME image \in Nat, NEW va \in Nat, NEW got \in MemReplies(va)
    PROVE  /\ got \in Seq(Item)
           /\ \A i \in 1 .. Len(got) : got[i] = <<image, va + i - 1>> /\ va + i - 1 \in resident
           /\ Len(got) < Payload => va + Len(got) \notin resident
<1>1. Payload \in Nat
  BY SizesAssumption
<1>2. PICK n \in 0 .. Payload : /\ got = [i \in 1 .. n |-> <<image, va + i - 1>>]
                                /\ va .. va + n - 1 \subseteq resident
                                /\ n = Payload \/ va + n \notin resident
  BY DEF MemReplies
<1>3. n \in Nat
  BY <1>1
<1>4. \A i \in 1 .. n : <<image, va + i - 1>> \in Item
  BY <1>3 DEF Item
<1>5. got \in [1 .. n -> Item]
  BY Zenon, <1>2, <1>4
<1>6. got \in Seq(Item) /\ Len(got) = n
  BY <1>3, <1>5
<1>7. \A i \in 1 .. n : va + i - 1 \in va .. va + n - 1
  BY <1>3
<1>8. \A i \in 1 .. n : got[i] = <<image, va + i - 1>> /\ va + i - 1 \in resident
  BY <1>2, <1>7
<1>9. n < Payload => va + n \notin resident
  BY <1>1, <1>2, <1>3
<1> QED
  BY Zenon, <1>6, <1>8, <1>9

\* The byte of the page table at position n.
Entry(n) == <<n \div 2, n % 2, IF n \div 2 \in resident THEN 1 ELSE 0>>

\* An answer of procfsd_handle_pagemap.
LEMMA PagemapFacts ==
    ASSUME NEW va \in Nat
    PROVE  /\ PagemapReply(va) \in Seq(Item)
           /\ Len(PagemapReply(va)) = 0 => \A r \in regions : ~(r[2] > va)
           /\ Len(PagemapReply(va)) # 0 => Len(PagemapReply(va)) = 2 * Entries
           /\ \A i \in 1 .. Len(PagemapReply(va)) : PagemapReply(va)[i] = Entry(2 * va + i - 1)
<1>0. Entries \in Nat /\ 2 * Entries \in Nat /\ 2 * Entries > 1
  BY SizesAssumption
<1>1. CASE \E r \in regions : r[2] > va
  <2>1. PagemapReply(va) = [i \in 1 .. 2 * Entries |->
            <<va + (i - 1) \div 2, (i - 1) % 2,
              IF va + (i - 1) \div 2 \in resident THEN 1 ELSE 0>>]
    BY <1>1 DEF PagemapReply
  <2>2. ASSUME NEW i \in 1 .. 2 * Entries
        PROVE  /\ va + (i - 1) \div 2 = (2 * va + i - 1) \div 2
               /\ (i - 1) % 2 = (2 * va + i - 1) % 2
               /\ va + (i - 1) \div 2 \in Nat /\ (i - 1) % 2 \in Nat
    BY <1>0
  <2>3. ASSUME NEW i \in 1 .. 2 * Entries
        PROVE  /\ PagemapReply(va)[i] = Entry(2 * va + i - 1)
               /\ PagemapReply(va)[i] \in Item
    BY <2>1, <2>2 DEF Entry, Item
  <2>4. PagemapReply(va) \in [1 .. 2 * Entries -> Item]
    BY <2>1, <2>3
  <2> QED
    BY <1>0, <2>3, <2>4
<1>2. CASE ~\E r \in regions : r[2] > va
  <2>1. PagemapReply(va) = << >>
    BY <1>2 DEF PagemapReply
  <2> QED
    BY <1>2, <2>1
<1> QED
  BY <1>1, <1>2

-----------------------------------------------------------------------------
(* What one answer does to a call.                                         *)

\* What the caller has and what the call has collected; a call for mem or pagemap
\* asks on only while there is room in the caller's buffer, and a call for mem that
\* stops asking has something.
Shapes ==
    /\ out \in Seq(Record) /\ text \in Seq(Record)
    /\ start \in Offsets(file) /\ offset = start + Len(text)
    /\ file \in {"mem", "pagemap"} /\ pc = "ask" => Len(out) < UserBuf
    /\ file = "mem" /\ pc = "copy" => out # << >>

\* What Add(items) comes to.
Extended(items) ==
    /\ items \in Seq(Item)
    /\ out' \in Seq(Record)
    /\ Len(out') = Len(out) + Len(items)
    /\ \A i \in 1 .. Len(out) : out'[i] = out[i]
    /\ \A i \in 1 .. Len(items) : out'[Len(out) + i] = [who |-> who, item |-> items[i]]

\* procfs_map_walk: the walk goes on behind the last region of the answer, and
\* ends at an empty one, when nothing is left above.
LEMMA WalkMapsStep ==
    ASSUME TypeOK, Shapes, WalkMaps
    PROVE  \/ pc' = "copy" /\ UNCHANGED <<addr, out>> /\ \A r \in regions : r[2] <= addr
           \/ \E chunk \in MapsReplies(addr) :
                 /\ Len(chunk) > 0 /\ Extended(chunk)
                 /\ pc' = "ask" /\ addr' = chunk[Len(chunk)][2]
<1>1. PICK chunk \in MapsReplies(addr) :
          IF chunk = << >> THEN Goto("copy") /\ UNCHANGED <<addr, out>>
          ELSE /\ Add(chunk)
               /\ addr' = chunk[Len(chunk)][2]
               /\ Goto(IF chunk[Len(chunk)][2] <= addr THEN "copy" ELSE "ask")
  BY DEF WalkMaps
<1>2. addr \in Nat /\ regions \in Layouts /\ who \in Nat
  BY SizesAssumption DEF TypeOK
<1>3. \A r \in regions : r \in Regions /\ r[2] \in Nat
  BY <1>2, RegionFacts DEF Layouts
<1>4. CASE chunk = << >>
  <2>1. Len(chunk) = 0 /\ MaxFit # 0
    BY <1>4, SizesAssumption
  <2>2. \A r \in regions : ~(r[2] > addr)
    BY <1>2, <2>1, MapsFacts
  <2>3. \A r \in regions : r[2] <= addr
    BY <1>2, <1>3, <2>2
  <2> QED
    BY <1>1, <1>4, <2>3 DEF Goto
<1>5. CASE chunk # << >>
  <2>1. chunk \in Seq(Item) /\ Len(chunk) \in Nat /\ Len(chunk) > 0
    BY <1>2, <1>5, MapsFacts
  <2>2. Add(chunk) /\ addr' = chunk[Len(chunk)][2]
    BY <1>1, <1>5, <2>1
  <2>3. Extended(chunk)
    BY <1>2, <2>1, <2>2, AddFacts DEF Extended, Shapes
  <2>4. chunk[Len(chunk)][2] > addr /\ chunk[Len(chunk)][2] \in Nat
    BY <1>2, <1>3, <2>1, MapsFacts
  <2>5. pc' = "ask"
    BY <1>1, <1>2, <1>5, <2>1, <2>4 DEF Goto
  <2> QED
    BY <2>1, <2>2, <2>3, <2>5
<1> QED
  BY <1>4, <1>5

\* procfs_fetch_procargs: a slice is added, and the last one is not full.
LEMMA FetchArgsStep ==
    ASSUME TypeOK, Shapes, FetchArgs
    PROVE  /\ Extended(ArgsReply(Len(out)))
           /\ pc' = IF Len(ArgsReply(Len(out))) < Payload THEN "copy" ELSE "ask"
<1>1. Len(out) \in Nat /\ Numbers
  BY SizesAssumption DEF TypeOK, Shapes, Numbers
<1>2. ArgsReply(Len(out)) \in Seq(Nat \X Nat)
  BY <1>1, SliceLength
<1> DEFINE slice == ArgsReply(Len(out))
<1>3. Add(slice) /\ pc' = IF Len(slice) < Payload THEN "copy" ELSE "ask"
  BY DEF FetchArgs, Goto
<1> HIDE DEF slice
<1>4. slice \in Seq(Item)
  <2>1. slice \in [1 .. Len(slice) -> Nat \X Nat] /\ Len(slice) \in Nat
    BY <1>2 DEF slice
  <2>2. slice \in [1 .. Len(slice) -> Item]
    BY <2>1 DEF Item
  <2> QED
    BY <2>1, <2>2
<1>5. Extended(slice)
  BY <1>1, <1>3, <1>4, AddFacts DEF Extended, Shapes, Numbers
<1> QED
  BY <1>3, <1>5 DEF slice

\* procfs_domem: resident bytes are moved, as many as there is room for.
LEMMA ReadMemStep ==
    ASSUME TypeOK, Shapes, ReadMem
    PROVE  /\ \E items \in Seq(Item) :
                 /\ Len(items) > 0 /\ Extended(items)
                 /\ \A i \in 1 .. Len(items) :
                       items[i] = <<image, Position + i - 1>> /\ Position + i - 1 \in resident
           /\ pc' \in {"ask", "copy"} /\ (pc' = "ask" => Len(out') < UserBuf)
<1>0. PICK got \in MemReplies(Position) :
          /\ got # << >> /\ Add(Prefix(got, Room))
          /\ pc' = IF Len(got) < Payload \/ Len(got) >= Room THEN "copy" ELSE "ask"
  BY DEF ReadMem, Goto
<1> DEFINE items == Prefix(got, Room)
<1>1. /\ got # << >> /\ Add(items)
      /\ pc' = IF Len(got) < Payload \/ Len(got) >= Room THEN "copy" ELSE "ask"
      /\ file = "mem" /\ pc = "ask"
  BY <1>0 DEF ReadMem, Answered
<1>2. /\ Position \in Nat /\ Room \in Nat /\ Room > 0 /\ Room = UserBuf - Len(out)
      /\ Len(out) \in Nat /\ UserBuf \in Nat /\ who \in Nat /\ image \in Nat
  BY SMTT(30), <1>1, SizesAssumption DEF TypeOK, Shapes, Position, Room
<1>3. /\ got \in Seq(Item)
      /\ \A i \in 1 .. Len(got) :
            got[i] = <<image, Position + i - 1>> /\ Position + i - 1 \in resident
  BY <1>2, MemFacts
<1>4. Len(got) \in Nat /\ Len(got) # 0
  BY <1>1, <1>3, SeqLength
<1>5. /\ items \in Seq(Item)
      /\ Len(items) = IF Room < Len(got) THEN Room ELSE Len(got)
      /\ \A i \in 1 .. Len(items) : items[i] = got[i]
  BY <1>2, <1>3, PrefixFacts
<1> HIDE DEF items
<1>6. Extended(items)
  BY SMTT(30), <1>1, <1>2, <1>5, AddFacts DEF Extended, Shapes
<1>7. Len(items) > 0 /\ Len(items) \in Nat /\ Len(items) <= Len(got)
  BY <1>2, <1>4, <1>5
<1>8. \A i \in 1 .. Len(items) :
          items[i] = <<image, Position + i - 1>> /\ Position + i - 1 \in resident
  BY <1>3, <1>4, <1>5, <1>7
<1>9. pc' = "ask" => Len(out') < UserBuf
  <2> SUFFICES ASSUME pc' = "ask" PROVE Len(out') < UserBuf
    OBVIOUS
  <2>1. Len(got) < Room
    BY <1>1, <1>2, <1>4
  <2>2. Len(out') = Len(out) + Len(got)
    BY <1>2, <1>4, <1>5, <1>6, <2>1 DEF Extended
  <2> QED
    BY <1>2, <1>4, <2>1, <2>2
<1>10. pc' \in {"ask", "copy"}
  BY <1>1
<1> QED
  BY <1>5, <1>6, <1>7, <1>8, <1>9, <1>10

\* procfs_dopagemap: bytes of the page table are moved from the byte within the
\* first entry on, or there is no region above.
LEMMA ReadPagemapStep ==
    ASSUME TypeOK, Shapes, ReadPagemap
    PROVE  \/ pc' = "copy" /\ UNCHANGED out /\ \A r \in regions : r[2] <= Position \div 2
           \/ /\ \E items \in Seq(Item) :
                    /\ Len(items) > 0 /\ Extended(items)
                    /\ \A i \in 1 .. Len(items) : items[i] = Entry(Position + i - 1)
              /\ pc' \in {"ask", "copy"} /\ (pc' = "ask" => Len(out') < UserBuf)
<1> DEFINE byteIn == Position % 2
           va == Position \div 2
           got == PagemapReply(va)
           avail == SubSeq(got, byteIn + 1, Len(got))
           items == Prefix(avail, Room)
<1>1. /\ IF Len(got) <= byteIn THEN pc' = "copy" /\ UNCHANGED out
         ELSE Add(items) /\ pc' = IF Len(avail) >= Room THEN "copy" ELSE "ask"
      /\ file = "pagemap" /\ pc = "ask"
  BY Zenon DEF ReadPagemap, Goto, Answered
<1>2. /\ Position \in Nat /\ Room \in Nat /\ Room > 0 /\ Room = UserBuf - Len(out)
      /\ Len(out) \in Nat /\ UserBuf \in Nat /\ who \in Nat
  BY <1>1, SizesAssumption DEF TypeOK, Shapes, Position, Room
<1>3. va \in Nat /\ byteIn \in {0, 1} /\ Position = 2 * va + byteIn
  BY <1>2
<1>4. \A r \in regions : r[2] \in Nat
  BY RegionFacts DEF TypeOK, Layouts
<1> HIDE DEF va, byteIn
<1>5. /\ got \in Seq(Item)
      /\ Len(got) = 0 => \A r \in regions : ~(r[2] > va)
      /\ Len(got) # 0 => Len(got) = 2 * Entries
      /\ \A i \in 1 .. Len(got) : got[i] = Entry(2 * va + i - 1)
  BY <1>3, PagemapFacts
<1>6. Len(got) \in Nat /\ Entries \in Nat /\ Entries > 0
  BY <1>5, SizesAssumption
<1> HIDE DEF got
<1>7. CASE Len(got) <= byteIn
  <2>1. Len(got) = 0
    BY <1>3, <1>5, <1>6, <1>7
  <2>2. \A r \in regions : r[2] <= va
    BY <1>3, <1>4, <1>5, <2>1
  <2> QED
    BY <1>1, <1>7, <2>2 DEF va
<1>8. CASE ~(Len(got) <= byteIn)
  <2>1. byteIn + 1 \in 1 .. Len(got) /\ Len(got) \in 1 .. Len(got)
    BY <1>3, <1>6, <1>8
  <2>2. /\ avail \in Seq(Item)
        /\ Len(avail) = Len(got) - byteIn
        /\ \A i \in 1 .. Len(got) - byteIn : avail[i] = got[byteIn + i]
    <3>1. /\ SubSeq(got, byteIn + 1, Len(got)) \in Seq(Item)
          /\ Len(SubSeq(got, byteIn + 1, Len(got))) =
                IF byteIn + 1 <= Len(got) THEN Len(got) - (byteIn + 1) + 1 ELSE 0
          /\ \A i \in 1 .. Len(got) - (byteIn + 1) + 1 :
                SubSeq(got, byteIn + 1, Len(got))[i] = got[byteIn + 1 + i - 1]
      BY <1>3, <1>5, <1>6, <2>1, Subsequence
    <3> QED
      BY <1>3, <1>6, <2>1, <3>1
  <2> HIDE DEF avail
  <2>3. Len(avail) \in Nat /\ Len(avail) > 0
    BY <1>3, <1>6, <1>8, <2>2
  <2>4. /\ items \in Seq(Item)
        /\ Len(items) = IF Room < Len(avail) THEN Room ELSE Len(avail)
        /\ \A i \in 1 .. Len(items) : items[i] = avail[i]
    BY <1>2, <2>2, PrefixFacts
  <2> HIDE DEF items
  <2>5. Add(items) /\ pc' = IF Len(avail) >= Room THEN "copy" ELSE "ask"
    BY <1>1, <1>8
  <2>6. Extended(items)
    BY <1>2, <2>4, <2>5, AddFacts DEF Extended, Shapes
  <2>7. Len(items) \in Nat /\ Len(items) > 0 /\ Len(items) <= Len(avail)
    BY <1>2, <2>3, <2>4
  <2>8. ASSUME NEW i \in 1 .. Len(items) PROVE items[i] = Entry(Position + i - 1)
    <3>1. i \in 1 .. Len(got) - byteIn /\ byteIn + i \in 1 .. Len(got)
      BY <1>3, <1>6, <2>2, <2>7
    <3>2. items[i] = Entry(2 * va + (byteIn + i) - 1)
      BY <1>5, <2>2, <2>4, <3>1
    <3>3. 2 * va + (byteIn + i) - 1 = Position + i - 1
      BY <1>2, <1>3
    <3> QED
      BY <3>2, <3>3
  <2>9. pc' = "ask" => Len(out') < UserBuf
    <3> SUFFICES ASSUME pc' = "ask" PROVE Len(out') < UserBuf
      OBVIOUS
    <3>1. Len(avail) < Room
      BY <1>2, <2>3, <2>5
    <3>2. Len(out') = Len(out) + Len(avail)
      BY <1>2, <2>3, <2>4, <2>6, <3>1 DEF Extended
    <3> QED
      BY <1>2, <2>3, <3>1, <3>2
  <2>10. pc' \in {"ask", "copy"}
    BY <2>5
  <2> QED
    BY <2>4, <2>6, <2>7, <2>8, <2>9, <2>10
<1> QED
  BY <1>7, <1>8

-----------------------------------------------------------------------------
(* The types.                                                              *)

ProcessTypes ==
    /\ state \in {"running", "zombie", "gone"} /\ who \in Nat /\ image \in Nat
    /\ argLen \in ArgLens \cup {0} /\ regions \in Layouts /\ resident \subseteq Mapped(regions)
ReadTypes ==
    /\ changes \in 0 .. MaxChanges /\ faults \in 0 .. MaxFaults /\ stable \subseteq Regions
    /\ pc \in {"call", "ask", "copy", "done"} /\ file \in Files
    /\ start \in Nat /\ offset \in Nat /\ found \in Nat
    /\ addr \in 0 .. Top /\ cap \in 0 .. CmdlineMax
    /\ status \in {"none", "ESRCH", "EIO", "error", "fallback", "eof"}
Flags == pinned \in BOOLEAN /\ quiet \in BOOLEAN

LEMMA TypeParts ==
    /\ TypeOK <=> ProcessTypes /\ ReadTypes /\ Flags
    /\ TypeOK' <=> ProcessTypes' /\ ReadTypes' /\ Flags'
BY Zenon DEF TypeOK, ProcessTypes, ReadTypes, Flags

\* The process and the reader keep out of each other's variables.
LEMMA ProcessFrame ==
    ASSUME Process
    PROVE  /\ UNCHANGED <<readVars, faults>> /\ quiet' = FALSE /\ pc # "done"
           /\ changes < MaxChanges /\ changes' = changes + 1
BY DEF Process, Remap, Page, Exec, Reuse, Exit, Reap, Change

LEMMA ReaderFrame ==
    ASSUME Reader
    PROVE  UNCHANGED <<processVars, changes, file, start>>
<1>1. CASE EnterGone \/ EnterRefused \/ Enter \/ Fail
  BY <1>1 DEF EnterGone, EnterRefused, Enter, Fail, Finish
<1>2. CASE WalkMaps \/ FetchArgs \/ FetchArgsCapped \/ ReadMem \/ ReadPagemap
  BY <1>2 DEF WalkMaps, FetchArgs, FetchArgsCapped, ReadMem, ReadPagemap, Answer
<1>3. CASE GrowFails \/ ReadMemHole \/ CopyShort \/ CopyEnd \/ Copy
  BY <1>3 DEF GrowFails, ReadMemHole, CopyShort, CopyEnd, Copy, Finish, Answer
<1> QED
  BY <1>1, <1>2, <1>3 DEF Reader

LEMMA InitTypes == Init => TypeOK /\ Shapes
<1> SUFFICES ASSUME Init PROVE TypeOK /\ Shapes
  OBVIOUS
<1>1. ProcessTypes
  <2>1. regions \in Layouts /\ resident \subseteq Mapped(regions)
    BY MapsAreLayouts DEF Init
  <2>2. argLen \in ArgLens \cup {0}
    BY DEF Init, Lengths
  <2> QED
    BY <2>1, <2>2 DEF Init, ProcessTypes
<1>2. start \in Nat
  BY DEF Init, Offsets
<1>3. ReadTypes
  BY <1>2, SizesAssumption, BoundsAssumption, CmdlineAssumption DEF Init, ReadTypes
<1>4. Flags
  BY Zenon DEF Init, Flags
<1>5. Shapes
  BY <1>2 DEF Init, Shapes
<1> QED
  BY <1>1, <1>3, <1>4, <1>5, TypeParts

\* mmap and its likes keep regions disjoint, and only mapped pages resident.
LEMMA ProcessKeepsTypes == TypeOK /\ Shapes /\ Process => TypeOK' /\ Shapes'
<1> SUFFICES ASSUME TypeOK, Shapes, Process PROVE TypeOK' /\ Shapes'
  OBVIOUS
<1>0. ProcessTypes /\ ReadTypes /\ Flags
  BY TypeParts
<1>1. /\ UNCHANGED <<readVars, faults>> /\ quiet' = FALSE
      /\ changes < MaxChanges /\ changes' = changes + 1
  BY ProcessFrame
<1>2. ProcessTypes' /\ stable' \subseteq Regions
  <2>1. ASSUME NEW m \in Maps, Remap(m) PROVE ProcessTypes' /\ stable' \subseteq Regions
    BY <1>0, <2>1, MapsAreLayouts DEF Remap, ProcessTypes, ReadTypes
  <2>2. ASSUME NEW a \in Addresses, Page(a) PROVE ProcessTypes' /\ stable' \subseteq Regions
    BY <1>0, <2>2 DEF Page, ProcessTypes, ReadTypes
  <2>3. ASSUME NEW l \in Lengths, Exec(l) \/ Reuse(l)
        PROVE  ProcessTypes' /\ stable' \subseteq Regions
    <3>1. l \in ArgLens \cup {0}
      BY DEF Lengths
    <3>2. regions' \in Layouts /\ resident' \subseteq Mapped(regions')
      BY <2>3, MapsAreLayouts DEF Exec, Reuse
    <3>3. stable' \subseteq Regions /\ who' \in Nat /\ image' \in Nat /\ argLen' = l
      BY <1>0, <2>3 DEF Exec, Reuse, ProcessTypes, ReadTypes
    <3>4. state' \in {"running", "zombie", "gone"}
      BY <1>0, <2>3 DEF Exec, Reuse, ProcessTypes
    <3> QED
      BY <3>1, <3>2, <3>3, <3>4 DEF ProcessTypes
  <2>4. CASE Exit
    BY <1>0, <2>4 DEF Exit, ProcessTypes, Layouts
  <2>5. CASE Reap
    BY <1>0, <2>5 DEF Reap, ProcessTypes, ReadTypes
  <2> QED
    BY <2>1, <2>2, <2>3, <2>4, <2>5 DEF Process
<1>3. changes' \in 0 .. MaxChanges
  BY <1>0, <1>1, BoundsAssumption DEF ReadTypes
<1>4. ReadTypes'
  BY <1>0, <1>1, <1>2, <1>3 DEF ReadTypes, readVars
<1>5. Flags'
  <2>1. pinned' = pinned /\ quiet' = FALSE
    BY <1>1 DEF readVars
  <2> QED
    BY <1>0, <2>1, Zenon DEF Flags
<1>6. Shapes'
  BY <1>1 DEF Shapes, readVars
<1> QED
  BY <1>2, <1>4, <1>5, <1>6, TypeParts

\* A call that ends leaves its variables as they are.
LEMMA FinishKeepsTypes ==
    ASSUME TypeOK, Shapes, faults' \in 0 .. MaxFaults, quiet' \in BOOLEAN,
           NEW st \in {"ESRCH", "EIO", "error", "fallback", "eof"}, Finish(st)
    PROVE  TypeOK' /\ Shapes'
<1>0. ProcessTypes /\ ReadTypes /\ Flags
  BY TypeParts
<1>1. ProcessTypes'
  BY <1>0 DEF Finish, ProcessTypes, processVars
<1>2. ReadTypes'
  BY <1>0 DEF Finish, ReadTypes
<1>3. Flags'
  BY Zenon DEF Finish, Flags
<1>4. Shapes'
  BY DEF Finish, Shapes
<1> QED
  BY <1>1, <1>2, <1>3, <1>4, TypeParts

\* A request is answered, or the call goes on to the copy.
LEMMA AnswerKeepsTypes ==
    ASSUME TypeOK, Shapes, UNCHANGED <<processVars, changes, file, start, offset, found, text,
                                       status, pinned, stable>>,
           faults' \in 0 .. MaxFaults, quiet' \in BOOLEAN, pc' \in {"ask", "copy"},
           addr' \in 0 .. Top, cap' \in 0 .. CmdlineMax, out' \in Seq(Record),
           file \in {"mem", "pagemap"} /\ pc' = "ask" => Len(out') < UserBuf,
           file = "mem" /\ pc' = "copy" => out' # << >>
    PROVE  TypeOK' /\ Shapes'
<1>0. ProcessTypes /\ ReadTypes /\ Flags
  BY TypeParts
<1>1. ProcessTypes'
  BY <1>0 DEF ProcessTypes, processVars
<1>2. ReadTypes'
  BY <1>0 DEF ReadTypes
<1>3. Flags'
  BY <1>0, Zenon DEF Flags
<1>4. Shapes'
  BY DEF Shapes
<1> QED
  BY <1>1, <1>2, <1>3, <1>4, TypeParts

LEMMA GrownFacts ==
    ASSUME TypeOK, Shapes
    PROVE  /\ Grown \in 0 .. CmdlineMax
           /\ Len(out) + Payload > cap => Grown = (IF 2 * cap < CmdlineMax THEN 2 * cap ELSE CmdlineMax)
           /\ Len(out) + Payload <= cap => Grown = cap
<1>1. Len(out) \in Nat /\ cap \in 0 .. CmdlineMax /\ CmdlineMax \in Nat /\ Payload \in Nat
  BY SizesAssumption, CmdlineAssumption, SeqLength DEF TypeOK, Shapes
<1>2. Min({2 * cap, CmdlineMax}) = (IF 2 * cap < CmdlineMax THEN 2 * cap ELSE CmdlineMax)
  BY <1>1, MinOfTwo
<1> QED
  BY <1>1, <1>2 DEF Grown

\* The caller gets what the call moves, behind what it has.
LEMMA CopyStep ==
    ASSUME TypeOK, Shapes, Copy
    PROVE  /\ text' \in Seq(Record) /\ Moved \in Seq(Record) /\ Len(Moved) > 0
           /\ Len(text') = Len(text) + Len(Moved) /\ offset' = offset + Len(Moved)
           /\ \A i \in 1 .. Len(text) : text'[i] = text[i]
           /\ \A i \in 1 .. Len(Moved) : text'[Len(text) + i] = Moved[i]
<1>1. out \in Seq(Record) /\ text \in Seq(Record) /\ offset \in Nat
  BY DEF TypeOK, Shapes
<1>2. Moved \in Seq(Record)
  BY <1>1, MovedFacts
<1>3. Moved # << >> /\ text' = text \o Moved /\ offset' = offset + Len(Moved)
  BY DEF Copy
<1>4. Len(Moved) > 0
  BY <1>2, <1>3, SeqLength
<1>5. /\ text \o Moved \in Seq(Record) /\ Len(text \o Moved) = Len(text) + Len(Moved)
      /\ \A i \in 1 .. Len(text) + Len(Moved) :
            (text \o Moved)[i] = IF i <= Len(text) THEN text[i] ELSE Moved[i - Len(text)]
  BY <1>1, <1>2, Concatenation
<1>6. Len(text) \in Nat /\ Len(Moved) \in Nat
  BY <1>1, <1>2, SeqLength
<1>7. \A i \in 1 .. Len(text) : (text \o Moved)[i] = text[i]
  BY <1>5, <1>6
<1>8. ASSUME NEW i \in 1 .. Len(Moved) PROVE (text \o Moved)[Len(text) + i] = Moved[i]
  <2>1. /\ Len(text) + i \in 1 .. Len(text) + Len(Moved) /\ ~(Len(text) + i <= Len(text))
        /\ (Len(text) + i) - Len(text) = i
    BY <1>6
  <2> QED
    BY <1>5, <2>1
<1> QED
  BY <1>2, <1>3, <1>4, <1>5, <1>7, <1>8

\* Every answer leads to an answered request.
LEMMA AnswersKeepTypes ==
    ASSUME TypeOK, Shapes, WalkMaps \/ FetchArgs \/ FetchArgsCapped \/ ReadMem \/ ReadPagemap
    PROVE  TypeOK' /\ Shapes'
<1>0. /\ UNCHANGED <<processVars, changes, file, start, offset, found, text, status, pinned, stable>>
      /\ faults' = faults /\ quiet' = quiet /\ pc = "ask"
  BY DEF WalkMaps, FetchArgs, FetchArgsCapped, ReadMem, ReadPagemap, Answer, Answered
<1>1. faults' \in 0 .. MaxFaults
  BY <1>0 DEF TypeOK
<1>2. quiet' \in BOOLEAN
  BY <1>0, Zenon DEF TypeOK
<1>3. addr \in 0 .. Top /\ cap \in 0 .. CmdlineMax /\ out \in Seq(Record) /\ regions \in Layouts
  BY DEF TypeOK, Shapes
<1>4. CASE WalkMaps
  <2>0. file = "maps" /\ cap' = cap
    BY <1>4 DEF WalkMaps
  <2>1. CASE pc' = "copy" /\ UNCHANGED <<addr, out>>
    BY <1>0, <1>1, <1>2, <1>3, <2>0, <2>1, AnswerKeepsTypes
  <2>2. ASSUME NEW chunk \in MapsReplies(addr), Len(chunk) > 0, Extended(chunk),
               pc' = "ask", addr' = chunk[Len(chunk)][2]
        PROVE  TypeOK' /\ Shapes'
    <3>1. addr \in Nat
      BY <1>3, SizesAssumption
    <3>2. Len(chunk) \in 1 .. Len(chunk) /\ \A i \in 1 .. Len(chunk) : chunk[i] \in Regions
      BY <1>3, <2>2, <3>1, MapsFacts
    <3>3. addr' \in 0 .. Top
      BY <2>2, <3>2, RegionFacts, SizesAssumption
    <3>4. out' \in Seq(Record)
      BY <2>2 DEF Extended
    <3> QED
      BY <1>0, <1>1, <1>2, <1>3, <2>0, <2>2, <3>3, <3>4, AnswerKeepsTypes
  <2> QED
    BY <1>4, <2>1, <2>2, WalkMapsStep
<1>5. CASE FetchArgs
  <2>1. file = "args" /\ cap' = Grown /\ addr' = addr
    BY <1>5 DEF FetchArgs
  <2>2. out' \in Seq(Record) /\ pc' \in {"ask", "copy"}
    BY <1>5, FetchArgsStep DEF Extended
  <2>3. cap' \in 0 .. CmdlineMax
    BY <2>1, GrownFacts
  <2> QED
    BY <1>0, <1>1, <1>2, <1>3, <2>1, <2>2, <2>3, AnswerKeepsTypes
<1>6. CASE FetchArgsCapped
  <2>1. file = "args" /\ UNCHANGED <<cap, addr, out>> /\ pc' = "copy"
    BY <1>6 DEF FetchArgsCapped, Goto
  <2> QED
    BY <1>0, <1>1, <1>2, <1>3, <2>1, AnswerKeepsTypes
<1>7. CASE ReadMem
  <2>1. file = "mem" /\ UNCHANGED <<cap, addr>>
    BY <1>7 DEF ReadMem
  <2>2. PICK items \in Seq(Item) : Len(items) > 0 /\ Extended(items)
    BY <1>7, ReadMemStep
  <2>3. pc' \in {"ask", "copy"} /\ (pc' = "ask" => Len(out') < UserBuf)
    BY <1>7, ReadMemStep
  <2>4. out' \in Seq(Record) /\ out' # << >>
    <3>1. Len(out') = Len(out) + Len(items) /\ out' \in Seq(Record)
      BY <2>2 DEF Extended
    <3>2. Len(out') > 0
      BY <1>3, <2>2, <3>1, SeqLength
    <3> QED
      BY <3>1, <3>2
  <2> QED
    BY <1>0, <1>1, <1>2, <1>3, <2>1, <2>3, <2>4, AnswerKeepsTypes
<1>8. CASE ReadPagemap
  <2>1. file = "pagemap" /\ UNCHANGED <<cap, addr>>
    BY <1>8 DEF ReadPagemap
  <2>2. CASE pc' = "copy" /\ UNCHANGED out
    BY <1>0, <1>1, <1>2, <1>3, <2>1, <2>2, AnswerKeepsTypes
  <2>3. ASSUME NEW items \in Seq(Item), Extended(items), pc' \in {"ask", "copy"},
               pc' = "ask" => Len(out') < UserBuf
        PROVE  TypeOK' /\ Shapes'
    <3>1. out' \in Seq(Record)
      BY <2>3 DEF Extended
    <3> QED
      BY <1>0, <1>1, <1>2, <1>3, <2>1, <2>3, <3>1, AnswerKeepsTypes
  <2> QED
    BY <1>8, <2>2, <2>3, ReadPagemapStep
<1> QED
  BY <1>4, <1>5, <1>6, <1>7, <1>8

LEMMA ReaderKeepsTypes == TypeOK /\ Shapes /\ Reader => TypeOK' /\ Shapes'
<1> SUFFICES ASSUME TypeOK, Shapes, Reader PROVE TypeOK' /\ Shapes'
  OBVIOUS
<1>0. ProcessTypes /\ ReadTypes /\ Flags
  BY TypeParts
<1>1. ASSUME faults' = faults \/ (faults < MaxFaults /\ faults' = faults + 1)
      PROVE  faults' \in 0 .. MaxFaults
  BY <1>0, <1>1, BoundsAssumption DEF ReadTypes
<1>2. ASSUME quiet' = quiet \/ quiet' = FALSE
      PROVE  quiet' \in BOOLEAN
  BY <1>0, <1>2, Zenon DEF Flags
<1>3. CASE EnterGone \/ EnterRefused \/ GrowFails \/ CopyShort \/ CopyEnd
  <2>1. \E st \in {"ESRCH", "EIO", "error", "fallback", "eof"} : Finish(st)
    BY <1>3 DEF EnterGone, EnterRefused, GrowFails, CopyShort, CopyEnd
  <2>2. faults' = faults \/ (faults < MaxFaults /\ faults' = faults + 1)
    BY <1>3 DEF EnterGone, EnterRefused, GrowFails, CopyShort, CopyEnd
  <2>3. quiet' = quiet \/ quiet' = FALSE
    BY <1>3 DEF EnterGone, EnterRefused, GrowFails, CopyShort, CopyEnd
  <2> QED
    BY Zenon, <1>1, <1>2, <2>1, <2>2, <2>3, FinishKeepsTypes
<1>4. CASE Enter
  <2>1. ProcessTypes'
    BY <1>0, <1>4 DEF Enter, ProcessTypes, processVars
  <2>2. Payload \in 0 .. CmdlineMax /\ 0 \in 0 .. Top /\ regions \subseteq Regions
    BY <1>0, SizesAssumption, CmdlineAssumption DEF ProcessTypes, Layouts
  <2>3. ReadTypes'
    BY <1>0, <1>4, <2>2 DEF Enter, ReadTypes, ProcessTypes
  <2>4. Flags'
    BY <1>0, <1>4, Zenon DEF Enter, Flags
  <2>5. << >> \in Seq(Record) /\ Len(<< >>) = 0 /\ 0 < UserBuf
    BY SizesAssumption
  <2>6. Shapes'
    BY <1>4, <2>5 DEF Enter, Shapes
  <2> QED
    BY <2>1, <2>3, <2>4, <2>6, TypeParts
<1>5. CASE Fail
  <2>1. faults' \in 0 .. MaxFaults
    BY <1>1, <1>5 DEF Fail
  <2>2. quiet' \in BOOLEAN
    <3>1. quiet' = quiet \/ quiet' = FALSE
      BY <1>5, Zenon DEF Fail
    <3> QED
      BY Zenon, <1>2, <3>1
  <2>3. CASE \E st \in {"error", "fallback"} : Finish(st)
    BY <2>1, <2>2, <2>3, FinishKeepsTypes
  <2>4. CASE /\ out # << >> /\ pc' = "copy"
             /\ UNCHANGED <<processVars, changes, file, start, offset, found, addr, cap, out,
                            text, status, pinned, stable>>
    <3>1. addr' \in 0 .. Top /\ cap' \in 0 .. CmdlineMax /\ out' \in Seq(Record)
      BY <1>0, <2>4 DEF ReadTypes, Shapes
    <3> QED
      BY <2>1, <2>2, <2>4, <3>1, AnswerKeepsTypes
  <2> QED
    BY <1>5, <2>3, <2>4 DEF Fail, Goto
<1>6. CASE WalkMaps \/ FetchArgs \/ FetchArgsCapped \/ ReadMem \/ ReadPagemap
  BY <1>6, AnswersKeepTypes
<1>7. CASE ReadMemHole
  <2>1. faults' = faults /\ quiet' = quiet
    BY <1>7 DEF ReadMemHole, Answer
  <2>2. faults' \in 0 .. MaxFaults /\ quiet' \in BOOLEAN
    BY <1>1, <1>2, <2>1
  <2>3. CASE Finish("EIO")
    BY <2>2, <2>3, FinishKeepsTypes
  <2>4. CASE out # << >> /\ pc' = "copy" /\ UNCHANGED <<cap, addr, out>> /\ Answer
    <3>1. addr' \in 0 .. Top /\ cap' \in 0 .. CmdlineMax /\ out' \in Seq(Record)
      BY <1>0, <2>4 DEF ReadTypes, Shapes
    <3>2. UNCHANGED <<processVars, changes, file, start, offset, found, text, status, pinned, stable>>
      BY <2>4 DEF Answer
    <3> QED
      BY <2>2, <2>4, <3>1, <3>2, AnswerKeepsTypes
  <2> QED
    BY <1>7, <2>3, <2>4 DEF ReadMemHole, Goto
<1>8. CASE Copy
  <2>1. ProcessTypes'
    BY <1>0, <1>8 DEF Copy, ProcessTypes, processVars
  <2>2. /\ text' \in Seq(Record) /\ Len(Moved) \in Nat /\ Len(text) \in Nat
        /\ Len(text') = Len(text) + Len(Moved) /\ offset' = offset + Len(Moved)
    BY <1>8, CopyStep, SeqLength DEF Shapes
  <2>3. offset \in Nat /\ start \in Nat
    BY <1>0 DEF ReadTypes
  <2>4. offset' \in Nat /\ offset' = start + Len(text')
    BY <2>2, <2>3 DEF Shapes
  <2>5. ReadTypes'
    BY <1>0, <1>8, <2>4 DEF Copy, ReadTypes, Goto
  <2>6. Flags'
    BY <1>0, <1>8, Zenon DEF Copy, Flags
  <2>7. Shapes'
    BY <1>8, <2>2, <2>4 DEF Copy, Goto, Shapes
  <2> QED
    BY <2>1, <2>5, <2>6, <2>7, TypeParts
<1> QED
  BY <1>3, <1>4, <1>5, <1>6, <1>7, <1>8 DEF Reader

LEMMA StutterKeepsTypes == TypeOK /\ Shapes /\ UNCHANGED vars => TypeOK' /\ Shapes'
<1> SUFFICES ASSUME TypeOK, Shapes, UNCHANGED vars PROVE TypeOK' /\ Shapes'
  OBVIOUS
<1>1. ProcessTypes'
  BY TypeParts DEF ProcessTypes, vars, processVars
<1>2. ReadTypes'
  BY TypeParts DEF ReadTypes, vars, readVars, processVars
<1>3. Flags'
  BY TypeParts, Zenon DEF Flags, vars, readVars
<1>4. Shapes'
  BY DEF Shapes, vars, readVars
<1> QED
  BY <1>1, <1>2, <1>3, <1>4, TypeParts

LEMMA TypesAndShapes == Spec => [](TypeOK /\ Shapes)
<1>1. TypeOK /\ Shapes /\ [Next]_vars => (TypeOK /\ Shapes)'
  BY ProcessKeepsTypes, ReaderKeepsTypes, StutterKeepsTypes DEF Next
<1> QED
  BY <1>1, InitTypes, PTL DEF Spec

\* Every variable of a read keeps its type: the map stays one of disjoint
\* regions, the walk's address stays within the address space, and the buffer
\* of procfs_fetch_procargs within PROCFS_CMDLINE_MAX.
THEOREM TypesAreKept == Spec => []TypeOK
BY TypesAndShapes, PTL

-----------------------------------------------------------------------------
(* One process.                                                            *)

Walking == pc \in {"ask", "copy"}

\* A step of a call that collects something, and one after which the call goes
\* on to the copy with what it has.
Collects ==
    /\ pc = "ask" /\ pc' \in {"ask", "copy"} /\ state = "running"
    /\ Answer
    /\ \E items \in Seq(Item) : Extended(items)
Rests ==
    /\ pc = "ask" /\ pc' = "copy"
    /\ UNCHANGED <<processVars, changes, file, start, offset, found, addr, cap, out, text, status,
                   pinned, stable>>

LEMMA ReaderSteps ==
    ASSUME TypeOK, Shapes, Reader
    PROVE  \/ \E st : Finish(st)
           \/ Enter
           \/ Collects /\ (WalkMaps \/ FetchArgs \/ ReadMem \/ ReadPagemap)
           \/ Rests
           \/ Copy
<1>1. CASE EnterGone \/ EnterRefused \/ GrowFails \/ CopyShort \/ CopyEnd
  BY <1>1 DEF EnterGone, EnterRefused, GrowFails, CopyShort, CopyEnd
<1>2. CASE Fail
  BY <1>2 DEF Fail, Rests, Goto
<1>3. CASE ReadMemHole
  BY <1>3 DEF ReadMemHole, Rests, Goto, Answer, Answered
<1>4. CASE FetchArgsCapped
  BY <1>4 DEF FetchArgsCapped, Rests, Goto, Answer
<1>5. CASE WalkMaps
  <2>1. pc = "ask" /\ state = "running" /\ Answer /\ cap' = cap
    BY <1>5 DEF WalkMaps, Answered
  <2>2. CASE pc' = "copy" /\ UNCHANGED <<addr, out>>
    BY <2>1, <2>2 DEF Rests, Answer
  <2>3. ASSUME NEW chunk, Extended(chunk), pc' = "ask" PROVE Collects
    BY <2>1, <2>3 DEF Collects, Extended
  <2> QED
    BY <1>5, <2>2, <2>3, WalkMapsStep
<1>6. CASE FetchArgs
  BY <1>6, FetchArgsStep DEF FetchArgs, Answered, Collects, Extended
<1>7. CASE ReadMem
  BY <1>7, ReadMemStep DEF ReadMem, Answered, Collects
<1>8. CASE ReadPagemap
  <2>1. pc = "ask" /\ state = "running" /\ Answer /\ UNCHANGED <<cap, addr>>
    BY <1>8 DEF ReadPagemap, Answered
  <2>2. CASE pc' = "copy" /\ UNCHANGED out
    BY <2>1, <2>2 DEF Rests, Answer
  <2>3. ASSUME NEW items \in Seq(Item), Extended(items), pc' \in {"ask", "copy"} PROVE Collects
    BY <2>1, <2>3 DEF Collects
  <2> QED
    BY <1>8, <2>2, <2>3, ReadPagemapStep
<1> QED
  BY <1>1, <1>2, <1>3, <1>4, <1>5, <1>6, <1>7, <1>8 DEF Reader

\* While a call walks it holds a reference, so the process it found is still
\* the one with the pid.
Held ==
    Walking => /\ pinned /\ found = who /\ state # "gone"
               /\ \A i \in 1 .. Len(out) : out[i].who = found

LEMMA HeldStep == TypeOK /\ Shapes /\ Held /\ [Next]_vars => Held'
<1> SUFFICES ASSUME TypeOK, Shapes, Held, [Next]_vars, Walking' PROVE Held'
  BY DEF Held
<1>1. ASSUME Process PROVE Held'
  <2>1. UNCHANGED readVars
    BY <1>1, ProcessFrame
  <2>2. Walking /\ pinned /\ found = who /\ state # "gone"
    BY <2>1 DEF Held, Walking, readVars
  <2>3. who' = who /\ state' # "gone"
    BY <1>1, <2>2 DEF Process, Remap, Page, Exec, Reuse, Exit, Reap
  <2> QED
    BY <2>1, <2>2, <2>3 DEF Held, Walking, readVars
<1>2. ASSUME Reader PROVE Held'
  <2>1. CASE \E st : Finish(st)
    BY <2>1 DEF Finish, Walking
  <2>2. CASE Enter
    <3>1. /\ pinned' = TRUE /\ found' = who /\ state # "gone" /\ out' = << >>
          /\ UNCHANGED <<who, state>>
      BY <2>2 DEF Enter, processVars
    <3>2. Len(out') = 0
      BY <3>1
    <3> QED
      BY <3>1, <3>2 DEF Held
  <2>3. CASE Collects
    <3>1. PICK items \in Seq(Item) : Extended(items)
      BY <2>3 DEF Collects
    <3>2. Walking /\ UNCHANGED <<processVars, found, pinned>>
      BY <2>3 DEF Collects, Walking, Answer
    <3>3. pinned' /\ found' = who' /\ state' # "gone"
      BY <3>2, Zenon DEF Held, processVars
    <3>4. Len(out) \in Nat /\ Len(items) \in Nat
      BY SeqLength DEF Shapes
    <3>5. ASSUME NEW i \in 1 .. Len(out') PROVE out'[i].who = found'
      <4>1. CASE i \in 1 .. Len(out)
        BY <3>1, <3>2, <4>1 DEF Extended, Held
      <4>2. CASE i \notin 1 .. Len(out)
        <5>1. i - Len(out) \in 1 .. Len(items) /\ i = Len(out) + (i - Len(out))
          BY <3>1, <3>4, <4>2 DEF Extended
        <5>2. out'[i] = [who |-> who, item |-> items[i - Len(out)]]
          BY Zenon, <3>1, <5>1 DEF Extended
        <5> QED
          BY <3>2, <5>2 DEF Held
      <4> QED
        BY <4>1, <4>2
    <3> QED
      BY <3>3, <3>5 DEF Held
  <2>4. CASE Rests
    BY <2>4 DEF Rests, Held, Walking, processVars
  <2>5. CASE Copy
    BY <2>5 DEF Copy, Goto, Walking
  <2> QED
    BY <1>2, <2>1, <2>2, <2>3, <2>4, <2>5, ReaderSteps
<1>3. ASSUME UNCHANGED vars PROVE Held'
  BY <1>3 DEF vars, readVars, processVars, Held, Walking
<1> QED
  BY <1>1, <1>2, <1>3 DEF Next

LEMMA HeldAlways == Spec => []Held
<1>1. Init => Held
  BY DEF Init, Held, Walking
<1> QED
  BY <1>1, HeldStep, TypesAndShapes, PTL DEF Spec

\* The reference a read handler takes with proc_find keeps the pid from being
\* given to another process, so all that one call returns is of the process it
\* checked the caller's access to, however the process changes meanwhile.
THEOREM CallsAreOfOneProcess == Spec => []OneProcess
<1>1. Shapes /\ Held => OneProcess
  BY DEF Shapes, Held, Walking, OneProcess
<1> QED
  BY <1>1, HeldAlways, TypesAndShapes, PTL
=============================================================================
