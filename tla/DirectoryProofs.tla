--------------------------- MODULE DirectoryProofs ---------------------------
(***************************************************************************)
(* Names and directories, for any processes, threads, descriptors, oids,   *)
(* buffers and number of changes: the types, that lookup finds what        *)
(* readdir lists, and that a scan of a directory by several calls neither  *)
(* misses what was there all the time nor returns an entry twice.          *)
(*                                                                         *)
(* Every call starts its walk from the first child and counts the sizes of *)
(* what it comes to until it is at the start position, so a scan is right  *)
(* when those sizes add up to where the calls before it stopped.  They are *)
(* compared for every entry: what is before it and left behind, and what   *)
(* is before it and still due.  A change before an entry moves the two     *)
(* apart, and in which direction decides whether the entry may be missed   *)
(* or returned twice: Missing needs that nothing went away before it,      *)
(* Repeat, Reached and Passed that nothing came.  Fits and Probed say that *)
(* the list of processes does not drop what an earlier call returned.      *)
(***************************************************************************)
EXTENDS Directory, TLAPS

\* A call is under way; it copies its list, or is making it.
Scanning == pc \in {"walk", "scan", "emit"}
Listing == pc \in {"scan", "emit"}

\* The entries of the directory that is scanned.
Here == Entries(dir)

\* The value of child at which the walk comes to x.
Index(x) ==
    IF OnSys /\ x.slot = 3
    THEN 3 + Cardinality({q \in SysChildren(dir.object) : q < x.key})
    ELSE x.slot

\* What the call under way has still to come to.
Due ==
    CASE pc = "walk" -> {x \in Here : Index(x) >= child}
      [] pc = "scan" -> Pending \cup {x \in Here : x.slot = child /\ x.key \in probe}
      [] pc = "emit" -> Pending
      [] OTHER -> {}

\* What a set of entries takes of the position.
Long(S) == {e \in S : e.name.word \in LongNames}
Size(S) == 4 * Cardinality(S) + Cardinality(Long(S))

\* How far the call is, and what it may have in its lists there.
Shape ==
    /\ pc = "idle" => /\ startpos = 0 /\ nextpos = 0 /\ count = 0
                      /\ list = {} /\ probe = {} /\ listed = << >> /\ error = "none"
    /\ Scanning => /\ buf \in Bufs /\ child > 0 /\ error = "none"
                   /\ dir \in [base : DirBases \cup {"sys"}, pid : Pids \cup {NoPid}, object : Nat]
                   /\ OnSys => dir.object \in SysDirs /\ dir.pid = NoPid
                   /\ dir.base \in {"root", "byname"} => dir.pid = NoPid
                   /\ count = 0 => resid = buf
                   /\ count > 0 => nextpos >= startpos
    /\ pc = "walk" => list = {} /\ probe = {}
    /\ Listing => /\ ~OnSys /\ child = Len(Children(dir.base)) /\ SNode \in Dynamic
                  /\ SNode \in ProcessLists => list \subseteq Pids
                  /\ SNode \notin ProcessLists => pc = "emit" /\ list \subseteq Fds \cup Tids
    /\ pc = "scan" => \A n \in list, m \in probe : n < m
    /\ listed \in Seq(Returned)

\* The call has still to come to e, and will copy it: it has not moved further
\* than what it has left behind before e allows, and what is left before e
\* brings it to the start position.  What its list has before e is there.
Coming(e) ==
    /\ e \in Due
    /\ nextpos <= Size(Preceding(Here \ Due, e))
    /\ startpos <= nextpos + Size(Preceding(Due, e))
    /\ Listing => \A n \in list : n < e.key => \E x \in Here : x.slot = child /\ x.key = n

\* What was there all the time is returned, or is still to be.
Missing ==
    Scanning => \A e \in steady : e \in Within(dir) /\ (e \in Returned \/ Coming(e))

\* What was returned is passed over if the call comes to it again: it ends
\* before the start position.
Repeat ==
    Scanning => \A e \in (Due \cap Returned) \ pushed :
        nextpos + Size(Preceding(Due, e)) + DirentSize(e.name) <= startpos

\* The call has moved at least as far as what it has left behind.
Reached ==
    Scanning => \A e \in Due \ pushed : Size(Preceding(Here \ Due, e)) <= nextpos

\* The call has moved past what is returned and no longer due.
Passed ==
    Scanning => \A e \in (Here \cap Returned) \ (Due \cup pushed) :
        /\ Preceding(Due, e) = {}
        /\ Size(Preceding(Here, e)) + DirentSize(e.name) <= nextpos

\* An entry for a process, in the root directory or in byname.
OnProcess(e) == dir.base \in {"root", "byname"} /\ e.slot = Len(Children(dir.base))

\* The list of processes has room for what it, or a call before, had in it.
Fits ==
    Scanning => \A e \in (Returned \cup Pending) \ pushed :
        OnProcess(e) => Cardinality({q \in list \cup VisiblePids : q < e.key}) < MaxProcs

\* No process has come up among the pids already tried.
Probed ==
    pc = "scan" => \A e \in Here \ pushed :
        e.slot = child /\ e.key \in probe => \A q \in VisiblePids : q < e.key => q \in list \cup probe

-----------------------------------------------------------------------------
(* What the proofs use of finite sets.  FiniteSetTheorems has all of it,   *)
(* and FiniteFacts is proved from it at the end of the module: until then  *)
(* it is an assumption of the lemmas that count entries, because with the  *)
(* library in the context every step above takes more than twice as long.  *)

FiniteFacts ==
    /\ IsFiniteSet({}) /\ Cardinality({}) = 0
    /\ \A S : IsFiniteSet(S) => Cardinality(S) \in Nat
    /\ \A S : IsFiniteSet(S) => \A T \in SUBSET S :
           /\ IsFiniteSet(T) /\ Cardinality(T) <= Cardinality(S)
           /\ Cardinality(S) = Cardinality(T) => S = T
    /\ \A S, x : IsFiniteSet(S) =>
           /\ IsFiniteSet(S \cup {x})
           /\ x \notin S => Cardinality(S \cup {x}) = Cardinality(S) + 1
    /\ \A S, T : IsFiniteSet(S) /\ IsFiniteSet(T) => IsFiniteSet(S \cup T) /\ IsFiniteSet(S \X T)
    /\ \A n \in Nat : \A S \in SUBSET Nat : (\A s \in S : s <= n) => IsFiniteSet(S)
    /\ \A S, T : \A f \in [S -> T] :
           IsFiniteSet(T) /\ (\A x, y \in S : f[x] = f[y] => x = y) => IsFiniteSet(S)

\* The cardinality of a finite set is a number.
LEMMA FiniteCardinality ==
  ASSUME FiniteFacts, NEW S, IsFiniteSet(S)
  PROVE  Cardinality(S) \in Nat
BY Zenon DEF FiniteFacts

\* There is nothing in the empty set.
LEMMA FiniteEmpty ==
  ASSUME FiniteFacts
  PROVE  IsFiniteSet({}) /\ Cardinality({}) = 0
BY Zenon DEF FiniteFacts

\* A part of a finite set is finite and no larger, and smaller unless it is all.
LEMMA FiniteSubset ==
  ASSUME FiniteFacts, NEW S, IsFiniteSet(S), NEW T \in SUBSET S
  PROVE  /\ IsFiniteSet(T) /\ Cardinality(T) <= Cardinality(S)
         /\ Cardinality(S) = Cardinality(T) => S = T
BY Zenon DEF FiniteFacts

\* One more element makes it one larger.
LEMMA FiniteAdd ==
  ASSUME FiniteFacts, NEW S, NEW x, IsFiniteSet(S)
  PROVE  /\ IsFiniteSet(S \cup {x})
         /\ x \notin S => Cardinality(S \cup {x}) = Cardinality(S) + 1
BY Zenon DEF FiniteFacts

\* Unions and products of finite sets are finite.
LEMMA FiniteBoth ==
  ASSUME FiniteFacts, NEW S, IsFiniteSet(S), NEW T, IsFiniteSet(T)
  PROVE  IsFiniteSet(S \cup T) /\ IsFiniteSet(S \X T)
BY Zenon DEF FiniteFacts

\* Numbers with a bound are finitely many.
LEMMA FiniteBounded ==
  ASSUME FiniteFacts, NEW S \in SUBSET Nat, NEW n \in Nat, \A s \in S : s <= n
  PROVE  IsFiniteSet(S)
BY Zenon DEF FiniteFacts

\* What can be told apart by finitely many values is finite.
LEMMA FiniteInjection ==
  ASSUME FiniteFacts, NEW S, NEW T, IsFiniteSet(T), NEW f \in [S -> T],
         \A x, y \in S : f[x] = f[y] => x = y
  PROVE  IsFiniteSet(S)
BY Zenon DEF FiniteFacts

-----------------------------------------------------------------------------
(* The size of a set of entries.                                           *)

\* A finite set of entries has a size, and a part of it has no larger one.
LEMMA SizeMonotone ==
  ASSUME FiniteFacts, NEW T, IsFiniteSet(T), NEW S \in SUBSET T
  PROVE  IsFiniteSet(S) /\ Size(S) \in Nat /\ Size(T) \in Nat /\ Size(S) <= Size(T)
<1>1. /\ IsFiniteSet(S) /\ Cardinality(S) <= Cardinality(T)
      /\ Cardinality(S) \in Nat /\ Cardinality(T) \in Nat
  BY FiniteSubset, FiniteCardinality
<1>2. IsFiniteSet(Long(T)) /\ Cardinality(Long(T)) \in Nat
  <2>1. Long(T) \in SUBSET T
    BY DEF Long
  <2> QED
    BY <2>1, FiniteSubset, FiniteCardinality
<1>3. Cardinality(Long(S)) <= Cardinality(Long(T)) /\ Cardinality(Long(S)) \in Nat
  <2>1. Long(S) \in SUBSET Long(T)
    BY DEF Long
  <2> QED
    BY <1>2, <2>1, FiniteSubset, FiniteCardinality
<1> QED
  BY <1>1, <1>2, <1>3 DEF Size

\* No entries take nothing.
LEMMA SizeEmpty ==
  ASSUME FiniteFacts
  PROVE  Size({}) = 0
<1>1. Long({}) = {}
  BY DEF Long
<1> QED
  BY <1>1, FiniteEmpty DEF Size

\* An entry adds its own size (procfs_calc_dirent_size).
LEMMA SizeAdd ==
  ASSUME FiniteFacts, NEW S, IsFiniteSet(S), NEW x, x \notin S
  PROVE  Size(S \cup {x}) = Size(S) + DirentSize(x.name)
<1>1. Cardinality(S \cup {x}) = Cardinality(S) + 1 /\ Cardinality(S) \in Nat
  BY FiniteAdd, FiniteCardinality
<1>2. IsFiniteSet(Long(S)) /\ Cardinality(Long(S)) \in Nat /\ x \notin Long(S)
  <2>1. Long(S) \in SUBSET S
    BY DEF Long
  <2> QED
    BY <2>1, FiniteSubset, FiniteCardinality
<1>3. CASE x.name.word \in LongNames
  <2>1. Long(S \cup {x}) = Long(S) \cup {x}
    BY <1>3 DEF Long
  <2>2. Cardinality(Long(S \cup {x})) = Cardinality(Long(S)) + 1
    BY Zenon, <1>2, <2>1, FiniteAdd
  <2> QED
    BY <1>1, <1>2, <1>3, <2>2 DEF Size, DirentSize
<1>4. CASE x.name.word \notin LongNames
  <2>1. Long(S \cup {x}) = Long(S)
    BY <1>4 DEF Long
  <2> QED
    BY <1>1, <1>2, <1>4, <2>1 DEF Size, DirentSize
<1> QED
  BY <1>3, <1>4

\* When the first of the entries that are due is copied, what precedes each of
\* the others gets shorter by its size ...
LEMMA PrecedingShrinks ==
  ASSUME FiniteFacts, NEW D, IsFiniteSet(D), NEW x \in D, NEW e, Before(x, e)
  PROVE  /\ Size(Preceding(D \ {x}, e)) \in Nat
         /\ Size(Preceding(D, e)) = Size(Preceding(D \ {x}, e)) + DirentSize(x.name)
<1> DEFINE S == Preceding(D \ {x}, e)
<1>1. Preceding(D, e) = S \cup {x} /\ x \notin S
  BY DEF Preceding
<1>2. S \in SUBSET D
  BY DEF Preceding
<1>3. IsFiniteSet(S) /\ Size(S) \in Nat
  BY <1>2, SizeMonotone
<1> HIDE DEF S
<1>4. Size(S \cup {x}) = Size(S) + DirentSize(x.name)
  BY <1>1, <1>3, SizeAdd
<1> QED
  BY <1>1, <1>3, <1>4 DEF S

\* ... and what has been gone through before it longer by no more than that.
LEMMA PrecedingGrows ==
  ASSUME FiniteFacts, NEW H, IsFiniteSet(H), NEW D, NEW x \in D, NEW e
  PROVE  /\ Size(Preceding(H \ D, e)) \in Nat /\ Size(Preceding(H \ (D \ {x}), e)) \in Nat
         /\ Size(Preceding(H \ (D \ {x}), e)) <= Size(Preceding(H \ D, e)) + DirentSize(x.name)
         /\ x \in H /\ Before(x, e) =>
              Size(Preceding(H \ (D \ {x}), e)) = Size(Preceding(H \ D, e)) + DirentSize(x.name)
<1> DEFINE S == Preceding(H \ D, e)
           T == Preceding(H \ (D \ {x}), e)
<1>1. S \in SUBSET H /\ T \in SUBSET (S \cup {x}) /\ x \notin S
  BY DEF Preceding
<1>2. IsFiniteSet(S) /\ Size(S) \in Nat
  BY <1>1, SizeMonotone
<1>3. x \in H /\ Before(x, e) => T = S \cup {x}
  BY DEF Preceding
<1> HIDE DEF S, T
<1>4. Size(S \cup {x}) = Size(S) + DirentSize(x.name)
  BY <1>1, <1>2, SizeAdd
<1>5. Size(T) <= Size(S \cup {x}) /\ Size(T) \in Nat
  BY Zenon, <1>1, <1>2, FiniteAdd, SizeMonotone
<1> QED
  BY Zenon, <1>2, <1>3, <1>4, <1>5 DEF S, T

\* The same when the entry is there.
LEMMA PrecedingGrowsBy ==
  ASSUME FiniteFacts, NEW H, IsFiniteSet(H), NEW D, NEW x \in D, NEW e, x \in H, Before(x, e)
  PROVE  Size(Preceding(H \ (D \ {x}), e)) = Size(Preceding(H \ D, e)) + DirentSize(x.name)
  BY PrecedingGrows

\* The set of entries before one only depends on, and grows with, the set.
LEMMA PrecedingMonotone ==
  ASSUME FiniteFacts, NEW T, IsFiniteSet(T), NEW S, NEW e, Preceding(S, e) \subseteq T
  PROVE  /\ Size(Preceding(S, e)) \in Nat /\ Size(Preceding(T, e)) \in Nat
         /\ Size(Preceding(S, e)) <= Size(Preceding(T, e))
<1>1. Preceding(T, e) \in SUBSET T /\ Preceding(S, e) \in SUBSET Preceding(T, e)
  BY DEF Preceding
<1> QED
  BY <1>1, SizeMonotone

-----------------------------------------------------------------------------
(* The structure tree.                                                     *)

\* A child that stands for others is the last of its directory, only the root
\* and byname list processes (procfs_structure_init).
LEMMA ChildrenFacts ==
  ASSUME NEW b \in DirBases
  PROVE  /\ Len(Children(b)) \in 3 .. 7 /\ DOMAIN Children(b) = 1 .. Len(Children(b))
         /\ \A i \in DOMAIN Children(b) :
              /\ Children(b)[i] \in Dynamic => i = Len(Children(b))
              /\ Children(b)[i] \in ProcessLists =>
                   b \in {"root", "byname"} /\ i = Len(Children(b))
         /\ b \in {"root", "byname"} => Children(b)[Len(Children(b))] \in ProcessLists
<1>1. CASE b = "root"
  <2>1. Children(b) = <<".", "..", "byname", "ksyms", "kallsyms", "sys", "__Process__">>
    BY <1>1 DEF Children
  <2>2. Len(Children(b)) = 7 /\ DOMAIN Children(b) = 1 .. 7
    BY <2>1
  <2>3. /\ Children(b)[1] = "." /\ Children(b)[2] = ".." /\ Children(b)[3] = "byname" /\ Children(b)[4] = "ksyms"
        /\ Children(b)[5] = "kallsyms" /\ Children(b)[6] = "sys" /\ Children(b)[7] = "__Process__"
    BY <2>1
  <2>4. \A i \in 1 .. 7 : i = 1 \/ i = 2 \/ i = 3 \/ i = 4 \/ i = 5 \/ i = 6 \/ i = 7
    OBVIOUS
  <2>5. \A i \in 1 .. 7 : (Children(b)[i] \in Dynamic <=> i = 7) /\ (Children(b)[i] \in ProcessLists <=> i = 7)
    BY <2>3, <2>4 DEF Dynamic, ProcessLists
  <2> QED
    BY <1>1, <2>2, <2>5
<1>2. CASE b = "byname"
  <2>1. Children(b) = <<".", "..", "__Process_N__">>
    BY <1>2 DEF Children
  <2>2. Len(Children(b)) = 3 /\ DOMAIN Children(b) = 1 .. 3
    BY <2>1
  <2>3. Children(b)[1] = "." /\ Children(b)[2] = ".." /\ Children(b)[3] = "__Process_N__"
    BY <2>1
  <2>4. \A i \in 1 .. 3 : i = 1 \/ i = 2 \/ i = 3
    OBVIOUS
  <2>5. \A i \in 1 .. 3 : (Children(b)[i] \in Dynamic <=> i = 3) /\ (Children(b)[i] \in ProcessLists <=> i = 3)
    BY <2>3, <2>4 DEF Dynamic, ProcessLists
  <2> QED
    BY <1>2, <2>2, <2>5
<1>3. CASE b = "__Process__"
  <2>1. Children(b) = <<".", "..", "fd", "threads", "status">>
    BY <1>3 DEF Children
  <2>2. Len(Children(b)) = 5 /\ DOMAIN Children(b) = 1 .. 5
    BY <2>1
  <2>3. /\ Children(b)[1] = "." /\ Children(b)[2] = ".." /\ Children(b)[3] = "fd" /\ Children(b)[4] = "threads"
        /\ Children(b)[5] = "status"
    BY <2>1
  <2>4. \A i \in 1 .. 5 : i = 1 \/ i = 2 \/ i = 3 \/ i = 4 \/ i = 5
    OBVIOUS
  <2>5. \A i \in 1 .. 5 : Children(b)[i] \notin Dynamic /\ Children(b)[i] \notin ProcessLists
    BY <2>3, <2>4 DEF Dynamic, ProcessLists
  <2>6. b \notin {"root", "byname"}
    BY <1>3
  <2> QED
    BY <2>2, <2>5, <2>6
<1>4. CASE b = "fd"
  <2>1. Children(b) = <<".", "..", "__File__">>
    BY <1>4 DEF Children
  <2>2. Len(Children(b)) = 3 /\ DOMAIN Children(b) = 1 .. 3
    BY <2>1
  <2>3. Children(b)[1] = "." /\ Children(b)[2] = ".." /\ Children(b)[3] = "__File__"
    BY <2>1
  <2>4. \A i \in 1 .. 3 : i = 1 \/ i = 2 \/ i = 3
    OBVIOUS
  <2>5. \A i \in 1 .. 3 : (Children(b)[i] \in Dynamic <=> i = 3) /\ Children(b)[i] \notin ProcessLists
    BY <2>3, <2>4 DEF Dynamic, ProcessLists
  <2>6. b \notin {"root", "byname"}
    BY <1>4
  <2> QED
    BY <2>2, <2>5, <2>6
<1>5. CASE b = "threads"
  <2>1. Children(b) = <<".", "..", "__Thread__">>
    BY <1>5 DEF Children
  <2>2. Len(Children(b)) = 3 /\ DOMAIN Children(b) = 1 .. 3
    BY <2>1
  <2>3. Children(b)[1] = "." /\ Children(b)[2] = ".." /\ Children(b)[3] = "__Thread__"
    BY <2>1
  <2>4. \A i \in 1 .. 3 : i = 1 \/ i = 2 \/ i = 3
    OBVIOUS
  <2>5. \A i \in 1 .. 3 : (Children(b)[i] \in Dynamic <=> i = 3) /\ Children(b)[i] \notin ProcessLists
    BY <2>3, <2>4 DEF Dynamic, ProcessLists
  <2>6. b \notin {"root", "byname"}
    BY <1>5
  <2> QED
    BY <2>2, <2>5, <2>6
<1>6. CASE b = "__Thread__"
  <2>1. Children(b) = <<".", "..", "info">>
    BY <1>6 DEF Children
  <2>2. Len(Children(b)) = 3 /\ DOMAIN Children(b) = 1 .. 3
    BY <2>1
  <2>3. Children(b)[1] = "." /\ Children(b)[2] = ".." /\ Children(b)[3] = "info"
    BY <2>1
  <2>4. \A i \in 1 .. 3 : i = 1 \/ i = 2 \/ i = 3
    OBVIOUS
  <2>5. \A i \in 1 .. 3 : Children(b)[i] \notin Dynamic /\ Children(b)[i] \notin ProcessLists
    BY <2>3, <2>4 DEF Dynamic, ProcessLists
  <2>6. b \notin {"root", "byname"}
    BY <1>6
  <2> QED
    BY <2>2, <2>5, <2>6
<1> QED
  BY <1>1, <1>2, <1>3, <1>4, <1>5, <1>6 DEF DirBases

\* No release hides such a child.
LEMMA DynamicShown ==
  ASSUME NEW c \in Dynamic
  PROVE  ~Hidden(c)
BY DEF Dynamic, ProcessLists, Hidden

\* An entry takes four units, or five.
LEMMA DirentSizeType ==
  ASSUME NEW name
  PROVE  DirentSize(name) \in {4, 5}
BY DEF DirentSize

\* The daemon tells of descriptors, or of threads, of a process that is there.
LEMMA ObjectsFacts ==
  ASSUME TypeOK, NEW d, NEW c
  PROVE  /\ Objects(d, c) \subseteq Fds \cup Tids
         /\ c = "__File__" => Objects(d, c) \subseteq Fds
         /\ c # "__File__" => Objects(d, c) \subseteq Tids
<1>1. Objects(d, c) \subseteq AllObjects(d, c)
  BY Zenon DEF Objects
<1>2. CASE ~daemon \/ d.pid \notin live
  BY Zenon, <1>1, <1>2 DEF AllObjects
<1>3. CASE daemon /\ d.pid \in live
  <2>1. fds[d.pid] \subseteq Fds /\ tids[d.pid] \subseteq Tids
    BY <1>3 DEF TypeOK
  <2> QED
    BY Zenon, <1>1, <1>3, <2>1 DEF AllObjects
<1> QED
  BY <1>2, <1>3

\* A directory that can be opened is one of the tree, and belongs to a process
\* when its structure node does.
LEMMA OpenDirsFacts ==
  ASSUME TypeOK, NEW d \in OpenDirs
  PROVE  /\ d \in [base : DirBases \cup {"sys"}, pid : Pids \cup {NoPid}, object : Nat]
         /\ d.base = "sys" => d.object \in SysDirs /\ d.pid = NoPid
         /\ d.base \in {"root", "byname"} => d.pid = NoPid /\ d.object = NoObject
         /\ d.base \in ProcessNodes => d.pid \in VisiblePids
<1>1. CASE d \in {Node("root", NoPid, NoObject), Node("byname", NoPid, NoObject)}
  BY <1>1 DEF Node, NoObject, DirBases, ProcessNodes
<1>2. CASE d \in {Node("sys", NoPid, o) : o \in SysDirs}
  BY <1>2 DEF Node, NoObject, SysDirs, Kern, Random, ProcessNodes
<1>3. CASE d \in {Node(b, p, NoObject) : b \in {"__Process__", "fd", "threads"}, p \in VisiblePids}
  BY <1>3 DEF Node, NoObject, DirBases, ProcessNodes, VisiblePids, TypeOK
<1>4. ASSUME NEW p \in VisiblePids,
             d \in {Node("__Thread__", p, t) :
                      t \in {n \in Objects(Node("threads", p, NoObject), "__Thread__") : n <= IntMax}}
      PROVE  /\ d \in [base : DirBases \cup {"sys"}, pid : Pids \cup {NoPid}, object : Nat]
             /\ d.base = "__Thread__" /\ d.pid \in VisiblePids
  <2>1. p \in Pids
    BY DEF VisiblePids, TypeOK
  <2>2. "__Thread__" # "__File__"
    OBVIOUS
  <2>3. Objects(Node("threads", p, NoObject), "__Thread__") \subseteq Nat
    BY Zenon, <2>2, ObjectsFacts, ObjectsAssumption
  <2>4. PICK t \in Nat : d = Node("__Thread__", p, t)
    BY Zenon, <1>4, <2>3
  <2> QED
    BY <2>1, <2>4 DEF Node, DirBases
<1> QED
  BY <1>1, <1>2, <1>3, <1>4 DEF OpenDirs

-----------------------------------------------------------------------------
(* Types, and the shape of a call.                                         *)

\* The numbers of a call.
LEMMA CallTypes ==
  ASSUME TypeOK, Shape, Scanning
  PROVE  /\ count \in Nat /\ nextpos \in Nat /\ startpos \in Nat /\ child \in Nat /\ child > 0
         /\ buf \in Nat /\ buf >= 5 /\ resid \in Int /\ resid >= 0 /\ resid <= buf
         /\ (count = 0 => resid = buf) /\ (count > 0 => nextpos >= startpos)
<1>1. /\ count \in Nat /\ nextpos \in Nat /\ startpos \in Nat /\ child \in Nat
      /\ resid \in 0 .. buf
  BY Zenon DEF TypeOK
<1>2. buf \in Bufs /\ child > 0 /\ (count = 0 => resid = buf) /\ (count > 0 => nextpos >= startpos)
  BY Zenon DEF Shape
<1>3. buf \in Nat /\ buf >= 5
  BY <1>2, BufsAssumption
<1> QED
  BY <1>1, <1>2, <1>3

\* What is returned stays a sequence of what is returned.
LEMMA SameListed ==
  ASSUME Shape, listed' = listed
  PROVE  (listed \in Seq(Returned))'
BY Zenon DEF Shape, Returned

\* No scan is under way at the start.
LEMMA ShapeInit == Init => TypeOK /\ Shape
<1> SUFFICES ASSUME Init
             PROVE  TypeOK /\ Shape
  OBVIOUS
<1>1. TypeOK
  <2>1. (CHOOSE c \in Comms : TRUE) \in Comms
    BY PidsAssumption
  <2>2. comm \in [Pids -> Comms] /\ fds \in [Pids -> SUBSET Fds] /\ tids \in [Pids -> SUBSET Tids]
    BY Zenon, <2>1 DEF Init
  <2>3. changes \in 0 .. MaxChanges /\ resid \in 0 .. buf
    BY BufsAssumption DEF Init
  <2> QED
    BY Zenon, <2>2, <2>3, PidsAssumption DEF Init, TypeOK, Releases
<1>2. listed \in Seq(Returned)
  BY DEF Init, Returned
<1>3. Shape
  BY <1>2 DEF Init, Shape, Scanning, Listing
<1> QED
  BY <1>1, <1>3

\* A scan that is opened starts its first call.
LEMMA ShapeOpen ==
  ASSUME TypeOK, Shape, pc = "idle", NEW d \in OpenDirs, NEW b \in Bufs, NEW t \in BOOLEAN,
         Open(d, b, t)
  PROVE  TypeOK' /\ Shape'
<1>1. TypeOK'
  BY BufsAssumption DEF TypeOK, Open, systemVars
<1>2. /\ d \in [base : DirBases \cup {"sys"}, pid : Pids \cup {NoPid}, object : Nat]
      /\ d.base = "sys" => d.object \in SysDirs /\ d.pid = NoPid
      /\ d.base \in {"root", "byname"} => d.pid = NoPid /\ d.object = NoObject
  BY OpenDirsFacts
<1>3. (listed \in Seq(Returned))'
  BY SameListed DEF Open
<1>4. pc' = "walk" /\ dir' = d /\ buf' = b /\ resid' = buf' /\ child' > 0 /\ ~(count > 0)'
  BY DEF Open, Shape
<1>5. error' = "none" /\ list' = {} /\ probe' = {}
  BY DEF Open, Shape
<1>6. Shape'
  BY Zenon, <1>2, <1>3, <1>4, <1>5 DEF Shape, Scanning, Listing, OnSys
<1> QED
  BY <1>1, <1>6

\* The end of a call: the next one starts with the whole buffer.
LEMMA ShapeReturn ==
  ASSUME TypeOK, Shape, Scanning, NEW eofflag, NEW err \in {"none", "ENOENT", "ENOTSUP", "EPERM"},
         Return(eofflag, err)
  PROVE  TypeOK' /\ Shape'
<1>1. TypeOK'
  BY BufsAssumption DEF TypeOK, Return, systemVars
<1>2. (listed \in Seq(Returned))'
  BY SameListed DEF Return
<1>3. Shape'
  BY <1>2 DEF Return, Shape, Scanning, Listing, OnSys
<1> QED
  BY <1>1, <1>3

\* One more element at the end.
LEMMA SeqAppend ==
  ASSUME NEW S, NEW s \in Seq(S), NEW e
  PROVE  /\ Append(s, e) \in Seq(S \cup {e})
         /\ Len(s) \in Nat /\ DOMAIN s = 1 .. Len(s)
         /\ DOMAIN Append(s, e) = 1 .. Len(s) + 1
         /\ \A i \in DOMAIN s : Append(s, e)[i] = s[i]
         /\ Append(s, e)[Len(s) + 1] = e
<1>1. s \in Seq(S \cup {e})
  OBVIOUS
<1> QED
  BY <1>1

\* What a copy does to the sequence of the entries returned.
LEMMA Copied ==
  ASSUME TypeOK, Shape, NEW e, CopyOut(e)
  PROVE  /\ (listed \in Seq(Returned))'
         /\ Returned' = IF BeforeStart THEN Returned ELSE Returned \cup {e}
<1>1. CASE BeforeStart
  BY <1>1 DEF CopyOut, Shape, Returned
<1>2. CASE ~BeforeStart
  <2>1. listed \in Seq(Returned) /\ listed' = Append(listed, e)
    BY <1>2 DEF CopyOut, Shape
  <2> DEFINE n == Len(listed)
  <2>2. /\ Append(listed, e) \in Seq(Returned \cup {e})
        /\ n \in Nat /\ DOMAIN listed = 1 .. n
        /\ DOMAIN Append(listed, e) = 1 .. n + 1
        /\ \A i \in DOMAIN listed : Append(listed, e)[i] = listed[i]
        /\ Append(listed, e)[n + 1] = e
    BY <2>1, SeqAppend
  <2> HIDE DEF n
  <2>3. Returned' = Returned \cup {e}
    BY <2>1, <2>2 DEF Returned
  <2> QED
    BY <1>2, <2>1, <2>2, <2>3
<1> QED
  BY <1>1, <1>2

\* A copy in the walk goes on to the next child, one of a list leaves the child.
LEMMA ShapeCopy ==
  ASSUME TypeOK, Shape, Scanning, NEW e, CopyOut(e),
         pc' = pc,
         \/ pc = "walk" /\ child' = child + 1 /\ list' = list
         \/ pc = "emit" /\ child' = child /\ list' \subseteq list
  PROVE  TypeOK' /\ Shape'
<1>0. /\ count \in Nat /\ nextpos \in Nat /\ startpos \in Nat /\ child \in Nat /\ child > 0
      /\ resid \in Int /\ buf \in Nat /\ DirentSize(e.name) \in {4, 5}
      /\ (count = 0 => resid = buf) /\ (count > 0 => nextpos >= startpos)
  BY DirentSizeType, CallTypes
<1>1. TypeOK'
  <2>1. buf \in Nat /\ resid \in 0 .. buf /\ child' \in Nat
    BY BufsAssumption DEF TypeOK
  <2>2. resid' \in 0 .. buf /\ nextpos' \in Nat /\ count' \in Nat
    BY <1>0, <2>1 DEF CopyOut, BeforeStart
  <2>3. list' \subseteq Pids \cup Fds \cup Tids
    BY DEF TypeOK
  <2> QED
    BY <2>2, <2>3 DEF TypeOK, CopyOut, systemVars
<1>2. (listed \in Seq(Returned))'
  BY Copied
<1>3. (count = 0 => resid = buf)' /\ (count > 0 => nextpos >= startpos)' /\ child' > 0
  BY <1>0 DEF CopyOut, BeforeStart
<1>4. /\ error' = error /\ dir' = dir /\ buf' = buf /\ probe' = probe
  BY DEF CopyOut, Shape
<1>5. Shape'
  <2>1. CASE pc = "walk"
    BY <2>1, <1>2, <1>3, <1>4 DEF Shape, Scanning, Listing, OnSys, CopyOut
  <2>2. CASE pc = "emit"
    BY <2>2, <1>2, <1>3, <1>4 DEF Shape, Scanning, Listing, OnSys, SNode, CopyOut
  <2> QED
    BY <2>1, <2>2
<1> QED
  BY <1>1, <1>5

\* The walk meets the child that stands for others at the end of the children.
LEMMA ChildAtDynamic ==
  ASSUME TypeOK, Shape, AtDynamic
  PROVE  child = Len(Children(dir.base)) /\ ~OnSys /\ dir.base \in DirBases
<1>1. pc = "walk" /\ ~OnSys /\ ~AtEnd /\ SNode \in Dynamic /\ Scanning
  BY Zenon DEF AtDynamic, Scanning
<1>2. dir.base \in DirBases
  BY <1>1 DEF Shape, OnSys
<1>3. child \in 1 .. Len(Children(dir.base))
  BY <1>1, <1>2, CallTypes, ChildrenFacts DEF AtEnd
<1> QED
  BY <1>1, <1>2, <1>3, ChildrenFacts DEF SNode

\* A child that is not shown.
LEMMA ShapeSkipChild ==
  ASSUME TypeOK, Shape, SkipChild
  PROVE  TypeOK' /\ Shape'
<1>1. child \in Nat /\ child' = child + 1 /\ child' \in Nat /\ child' > 0
  BY DEF TypeOK, SkipChild
<1>2. TypeOK'
  BY Zenon, <1>1 DEF TypeOK, SkipChild, systemVars
<1>3. (listed \in Seq(Returned))'
  BY SameListed DEF SkipChild
<1>4. Shape'
  BY <1>1, <1>3 DEF SkipChild, Shape, Scanning, Listing, OnSys
<1> QED
  BY <1>2, <1>4

\* The list of processes is begun.
LEMMA ShapeListProcesses ==
  ASSUME TypeOK, Shape, ListProcesses
  PROVE  TypeOK' /\ Shape'
<1>1. TypeOK'
  BY Zenon DEF TypeOK, ListProcesses, systemVars
<1>2. (listed \in Seq(Returned))'
  BY SameListed DEF ListProcesses
<1>3. /\ pc = "walk" /\ ~OnSys /\ dir \in [base : DirBases \cup {"sys"}, pid : Pids \cup {NoPid}, object : Nat]
      /\ dir' = dir /\ child' = child /\ SNode \in ProcessLists
  BY Zenon DEF ListProcesses, AtDynamic, Shape, Scanning
<1>4. child = Len(Children(dir.base))
  BY <1>3, ChildAtDynamic DEF Dynamic, ListProcesses
<1>5. Shape'
  BY Zenon, <1>2, <1>3, <1>4 DEF ListProcesses, Shape, Scanning, Listing, OnSys, SNode, Dynamic
<1> QED
  BY <1>1, <1>5

\* One pid is tried.
LEMMA ShapeProbePid ==
  ASSUME TypeOK, Shape, ProbePid
  PROVE  TypeOK' /\ Shape'
<1>1. PICK pid \in First(probe) :
        /\ probe' = probe \ {pid}
        /\ list' = IF pid \in VisiblePids THEN list \cup {pid} ELSE list
  BY Zenon DEF ProbePid
<1>2. /\ pid \in probe /\ pid \in Pids /\ (\A m \in probe : pid <= m)
      /\ probe' \subseteq probe /\ list' \subseteq list \cup {pid}
  BY <1>1 DEF First, TypeOK
<1>3. TypeOK'
  BY Zenon, <1>2 DEF TypeOK, ProbePid, systemVars
<1>4. (listed \in Seq(Returned))'
  BY SameListed DEF ProbePid
<1>5. \A n \in list', m \in probe' : n < m
  <2>1. pc = "scan" /\ \A n \in list, m \in probe : n < m
    BY Zenon DEF ProbePid, Shape
  <2>2. \A m \in probe' : pid < m
    BY <1>1, <1>2, PidsAssumption DEF TypeOK
  <2> QED
    BY <1>2, <2>1, <2>2
<1>6. list' \subseteq Pids /\ SNode' = SNode /\ SNode \in ProcessLists /\ OnSys' = OnSys
  BY <1>2 DEF ProbePid, Shape, SNode, OnSys, Listing
<1>7. Shape'
  BY Zenon, <1>4, <1>5, <1>6 DEF ProbePid, Shape, Scanning, Listing
<1> QED
  BY <1>3, <1>7

\* The list of processes is done.
LEMMA ShapeEndOfProbe ==
  ASSUME TypeOK, Shape, EndOfProbe
  PROVE  TypeOK' /\ Shape'
<1>1. TypeOK'
  BY Zenon DEF TypeOK, EndOfProbe, systemVars, callVars
<1>2. (listed \in Seq(Returned))'
  BY SameListed DEF EndOfProbe, callVars
<1>3. Shape'
  BY Zenon, <1>2 DEF EndOfProbe, callVars, Shape, Scanning, Listing, SNode, OnSys
<1> QED
  BY <1>1, <1>3

\* The list of descriptors or threads.
LEMMA ShapeListObjects ==
  ASSUME TypeOK, Shape, ListObjects
  PROVE  TypeOK' /\ Shape'
<1>0. Scanning /\ pc = "walk" /\ AtDynamic /\ SNode \in Dynamic /\ SNode \notin ProcessLists
  BY Zenon DEF ListObjects, AtDynamic, Scanning
<1>1. CASE dir.pid \notin live
  BY Zenon, <1>0, <1>1, ShapeReturn DEF ListObjects
<1>2. CASE dir.pid \in live /\ SNode = "__Thread__" /\ ~daemon
  BY Zenon, <1>0, <1>2, ShapeReturn DEF ListObjects
<1>3. CASE dir.pid \in live /\ SNode = "__Thread__" /\ daemon /\ comm[dir.pid] \in Hardened
  BY Zenon, <1>0, <1>3, ShapeReturn DEF ListObjects
<1>4. CASE dir.pid \in live /\ ~(SNode = "__Thread__" /\ (~daemon \/ comm[dir.pid] \in Hardened))
  <2>1. /\ pc' = "emit" /\ list' = Objects(dir, SNode)
        /\ UNCHANGED <<systemVars, changes, historyVars, dir, trusts, buf, startpos,
                       nextpos, resid, child, probe, count, error, listed>>
    BY Zenon, <1>4 DEF ListObjects
  <2>2. list' \subseteq Fds \cup Tids
    BY Zenon, <2>1, ObjectsFacts
  <2>3. TypeOK'
    BY Zenon, <2>1, <2>2 DEF TypeOK, systemVars
  <2>4. (listed \in Seq(Returned))'
    BY <2>1, SameListed
  <2>5. child = Len(Children(dir.base)) /\ ~OnSys
    BY Zenon, <1>0, ChildAtDynamic DEF AtDynamic
  <2>6. Shape'
    BY Zenon, <1>0, <2>1, <2>2, <2>4, <2>5 DEF Shape, Scanning, Listing, SNode, OnSys
  <2> QED
    BY <2>3, <2>6
<1> QED
  BY <1>1, <1>2, <1>3, <1>4

\* A process of the list that is gone.
LEMMA ShapeDropGone ==
  ASSUME TypeOK, Shape, DropGone
  PROVE  TypeOK' /\ Shape'
<1>1. list' \subseteq list
  BY Zenon DEF DropGone
<1>2. TypeOK'
  BY Zenon, <1>1 DEF TypeOK, DropGone, systemVars
<1>3. (listed \in Seq(Returned))'
  BY SameListed DEF DropGone
<1>4. Shape'
  BY Zenon, <1>1, <1>3 DEF DropGone, Shape, Scanning, Listing, SNode, OnSys
<1> QED
  BY <1>2, <1>4

\* A change of the system leaves the scan where it is.
LEMMA ShapeChange ==
  ASSUME Shape, UNCHANGED scanVars
  PROVE  Shape'
<1>1. (listed \in Seq(Returned))'
  BY SameListed DEF scanVars, callVars
<1> QED
  BY Zenon, <1>1 DEF Shape, Scanning, Listing, SNode, OnSys, scanVars, callVars

\* A change counts, and leaves the scan alone.
LEMMA TypesOfChange ==
  ASSUME TypeOK, NEW bases, NEW p, Change(bases, p)
  PROVE  /\ changes' \in 0 .. MaxChanges /\ checked' \in BOOLEAN
         /\ pc' \in {"idle", "walk", "scan", "emit", "done"} /\ trusts' \in BOOLEAN
         /\ buf' \in Bufs \cup {0} /\ resid' \in 0 .. buf'
         /\ startpos' \in Nat /\ nextpos' \in Nat /\ child' \in Nat /\ count' \in Nat
         /\ probe' \subseteq Pids /\ list' \subseteq Pids \cup Fds \cup Tids
         /\ error' \in {"none", "ENOENT", "ENOTSUP", "EPERM"}
         /\ UNCHANGED scanVars
<1>1. changes' \in 0 .. MaxChanges
  <2>1. changes \in 0 .. MaxChanges /\ changes < MaxChanges /\ changes' = changes + 1
    BY Zenon DEF TypeOK, Change
  <2> QED
    BY <2>1, BufsAssumption
<1> QED
  BY Zenon, <1>1 DEF TypeOK, Change, scanVars, callVars

\* A process starts.
LEMMA TypesOfFork ==
  ASSUME TypeOK, NEW p \in Pids, Fork(p)
  PROVE  TypeOK' /\ UNCHANGED scanVars
<1>1. /\ live' \subseteq Pids /\ denied' \subseteq Pids /\ comm' \in [Pids -> Comms]
      /\ fds' \in [Pids -> SUBSET Fds] /\ tids' \in [Pids -> SUBSET Tids]
  BY DEF TypeOK, Fork
<1> QED
  BY Zenon, <1>1, TypesOfChange DEF TypeOK, Fork

\* A process ends.
LEMMA TypesOfExit ==
  ASSUME TypeOK, NEW p \in Pids, Exit(p)
  PROVE  TypeOK' /\ UNCHANGED scanVars
<1>1. live' \subseteq Pids
  BY Zenon DEF TypeOK, Exit
<1> QED
  BY Zenon, <1>1, TypesOfChange DEF TypeOK, Exit

\* A process runs another program.
LEMMA TypesOfExec ==
  ASSUME TypeOK, NEW p \in Pids, Exec(p)
  PROVE  TypeOK' /\ UNCHANGED scanVars
<1>1. denied' \subseteq Pids /\ comm' \in [Pids -> Comms]
  BY DEF TypeOK, Exec
<1> QED
  BY Zenon, <1>1, TypesOfChange DEF TypeOK, Exec

\* A descriptor is opened or closed.
LEMMA TypesOfChangeFd ==
  ASSUME TypeOK, NEW p \in Pids, NEW fd \in Fds, ChangeFd(p, fd)
  PROVE  TypeOK' /\ UNCHANGED scanVars
<1>1. fds' \in [Pids -> SUBSET Fds]
  BY DEF TypeOK, ChangeFd
<1> QED
  BY Zenon, <1>1, TypesOfChange DEF TypeOK, ChangeFd

\* A thread starts or ends.
LEMMA TypesOfChangeThread ==
  ASSUME TypeOK, NEW p \in Pids, NEW t \in Tids, ChangeThread(p, t)
  PROVE  TypeOK' /\ UNCHANGED scanVars
<1>1. tids' \in [Pids -> SUBSET Tids]
  BY DEF TypeOK, ChangeThread
<1> QED
  BY Zenon, <1>1, TypesOfChange DEF TypeOK, ChangeThread

\* The settings, the daemon and the oids change.
LEMMA TypesOfSettings ==
  ASSUME TypeOK,
         (\E r \in Releases : ChangeRelease(r)) \/ ChangeDaemon \/ (\E o \in Oids : ChangeOid(o))
  PROVE  TypeOK' /\ UNCHANGED scanVars
<1>1. CASE \E r \in Releases : ChangeRelease(r)
  BY Zenon, <1>1, TypesOfChange DEF TypeOK, ChangeRelease
<1>2. CASE ChangeDaemon
  <2>1. daemon' \in BOOLEAN
    BY Zenon, <1>2 DEF ChangeDaemon
  <2> QED
    BY Zenon, <1>2, <2>1, TypesOfChange DEF TypeOK, ChangeDaemon
<1>3. ASSUME NEW o \in Oids, ChangeOid(o)
      PROVE  TypeOK' /\ UNCHANGED scanVars
  <2>1. oids' \subseteq Oids
    BY Zenon, <1>3 DEF TypeOK, ChangeOid
  <2> QED
    BY Zenon, <1>3, <2>1, TypesOfChange DEF TypeOK, ChangeOid
<1> QED
  BY Zenon, <1>1, <1>2, <1>3

\* Every change of the system keeps the types, leaves the scan alone and is
\* observed.
LEMMA SystemFacts ==
  ASSUME TypeOK, System
  PROVE  /\ TypeOK' /\ UNCHANGED scanVars /\ Observe
         /\ pc # "done"
<1>1. Observe /\ pc # "done"
  BY Zenon DEF System, Fork, Exit, Exec, ChangeFd, ChangeThread, ChangeRelease, ChangeDaemon, ChangeOid,
           Change
<1>2. TypeOK' /\ UNCHANGED scanVars
  BY Zenon, TypesOfFork, TypesOfExit, TypesOfExec, TypesOfChangeFd, TypesOfChangeThread,
     TypesOfSettings DEF System
<1> QED
  BY <1>1, <1>2

\* Every step of a call keeps types and shape.
LEMMA ShapeScan ==
  ASSUME TypeOK, Shape, Scan
  PROVE  TypeOK' /\ Shape'
<1>1. CASE EndOfWalk
  BY Zenon, <1>1, ShapeReturn DEF EndOfWalk, Scanning
<1>2. CASE CopyChild
  <2>1. pc = "walk" /\ Scanning
    BY Zenon, <1>2 DEF CopyChild, Scanning
  <2>2. CASE NoRoom(StaticEntry(dir, child))
    BY Zenon, <2>1, <2>2, ShapeReturn DEF NoRoom
  <2>3. CASE CopyOut(StaticEntry(dir, child)) /\ child' = child + 1 /\ UNCHANGED <<pc, list>>
    BY Zenon, <2>1, <2>3, ShapeCopy
  <2> QED
    BY Zenon, <1>2, <2>2, <2>3 DEF CopyChild
<1>3. CASE CopySysDot
  <2>1. pc = "walk" /\ Scanning
    BY Zenon, <1>3 DEF CopySysDot, Scanning
  <2>2. CASE NoRoom(SysDot(dir, child))
    BY Zenon, <2>1, <2>2, ShapeReturn DEF NoRoom
  <2>3. CASE CopyOut(SysDot(dir, child)) /\ child' = child + 1 /\ UNCHANGED <<pc, list>>
    BY Zenon, <2>1, <2>3, ShapeCopy
  <2> QED
    BY Zenon, <1>3, <2>2, <2>3 DEF CopySysDot
<1>4. CASE CopySysChild
  <2>1. pc = "walk" /\ Scanning
    BY Zenon, <1>4 DEF CopySysChild, Scanning
  <2>2. ASSUME NEW o, NoRoom(SysEntry(dir, o))
        PROVE  TypeOK' /\ Shape'
    BY Zenon, <2>1, <2>2, ShapeReturn DEF NoRoom
  <2>3. ASSUME NEW o, CopyOut(SysEntry(dir, o)), child' = child + 1, UNCHANGED <<pc, list>>
        PROVE  TypeOK' /\ Shape'
    BY Zenon, <2>1, <2>3, ShapeCopy
  <2> QED
    BY Zenon, <1>4, <2>2, <2>3 DEF CopySysChild
<1>5. CASE CopyDynamic
  <2>1. pc = "emit" /\ Scanning
    BY Zenon, <1>5 DEF CopyDynamic, Scanning
  <2>2. ASSUME NEW n, NoRoom(DynamicEntry(dir, child, n))
        PROVE  TypeOK' /\ Shape'
    BY Zenon, <2>1, <2>2, ShapeReturn DEF NoRoom
  <2>3. ASSUME NEW n, CopyOut(DynamicEntry(dir, child, n)), list' = list \ {n}, UNCHANGED <<pc, child>>
        PROVE  TypeOK' /\ Shape'
    BY Zenon, <2>1, <2>3, ShapeCopy
  <2> QED
    BY Zenon, <1>5, <2>2, <2>3 DEF CopyDynamic
<1>6. CASE EndOfList
  BY Zenon, <1>6, ShapeReturn DEF EndOfList, Scanning
<1> QED
  BY Zenon, <1>1, <1>2, <1>3, <1>4, <1>5, <1>6, ShapeSkipChild, ShapeListProcesses, ShapeProbePid,
     ShapeEndOfProbe, ShapeListObjects, ShapeDropGone DEF Scan

\* Every step does.
LEMMA ShapeNext == TypeOK /\ Shape /\ [Next]_vars => TypeOK' /\ Shape'
<1> SUFFICES ASSUME TypeOK, Shape, [Next]_vars
             PROVE  TypeOK' /\ Shape'
  OBVIOUS
<1>1. CASE UNCHANGED vars
  <2>1. UNCHANGED scanVars
    BY Zenon, <1>1 DEF vars
  <2>2. TypeOK'
    BY Zenon, <1>1 DEF TypeOK, vars, systemVars, scanVars, callVars
  <2> QED
    BY <2>1, <2>2, ShapeChange
<1>2. CASE System
  BY Zenon, <1>2, SystemFacts, ShapeChange
<1> QED
  BY Zenon, <1>1, <1>2, ShapeOpen, ShapeScan DEF Next

\* The system, the position and the lists of a call keep their types: what is
\* left of the buffer never falls below zero, whatever is copied
\* (procfs_copyout_dirent checks before it copies).
THEOREM TypesAreKept == Spec => []TypeOK
<1>1. Spec => [](TypeOK /\ Shape)
  BY ShapeInit, ShapeNext, PTL DEF Spec
<1> QED
  BY <1>1, PTL

-----------------------------------------------------------------------------
(* What readdir lists, lookup finds.                                       *)

\* An oid is the only one of its directory with its name.
LEMMA SysFindsListed ==
  ASSUME TypeOK, NEW object \in SysDirs, NEW o \in SysChildren(object)
  PROVE  SysFind(object, OidName(o)) = o /\ o # NoObject /\ OidName(o) \notin {".", ".."}
<1>1. CASE object = NoObject
  <2>1. SysChildren(object) = {Kern}
    BY <1>1 DEF SysChildren, NoObject, Kern, Random
  <2>2. o = Kern /\ OidName(o) = "kern"
    BY <2>1 DEF OidName, Kern, Random, Uuid
  <2>3. SysFind(object, "kern") = CHOOSE q \in {Kern} : TRUE
    BY <2>1, <2>2 DEF SysFind
  <2> QED
    BY <2>2, <2>3 DEF Kern, NoObject
<1>2. CASE object = Random
  <2>1. SysChildren(object) = {Uuid}
    BY <1>2 DEF SysChildren, NoObject, Kern, Random
  <2>2. o = Uuid /\ OidName(o) = "uuid"
    BY <2>1 DEF OidName, Kern, Random, Uuid
  <2>3. SysFind(object, "uuid") = CHOOSE q \in {Uuid} : TRUE
    BY <1>2, <2>1, <2>2 DEF SysFind, NoObject, Random
  <2> QED
    BY <2>2, <2>3 DEF Uuid, NoObject
<1>3. CASE object = Kern
  <2>1. SysChildren(object) = oids \cup {Random}
    BY <1>3 DEF SysChildren, NoObject, Kern, Random
  <2>2. \A q \in oids : q \in Oids /\ q \in 1 .. 99 /\ OidName(q) = OidNames[q]
    BY OidsAssumption DEF TypeOK, OidName, Kern, Random, Uuid
  <2>3. OidName(Random) = "random" /\ Random = 101
    BY DEF OidName, Random, Kern, Uuid
  <2>4. \A q \in SysChildren(object) : OidName(q) = OidName(o) => q = o
    <3>1. \A q \in oids : OidName(q) # OidName(Random)
      BY <2>2, <2>3, OidsAssumption
    <3>2. \A q, r \in oids : OidName(q) = OidName(r) => q = r
      BY Zenon, <2>2, OidsAssumption
    <3> QED
      BY Zenon, <2>1, <3>1, <3>2
  <2>5. {q \in SysChildren(object) : OidName(q) = OidName(o)} = {o}
    BY <2>4
  <2>6. SysFind(object, OidName(o)) = CHOOSE q \in {o} : TRUE
    BY <1>3, <2>5 DEF SysFind, NoObject, Kern
  <2> QED
    BY <2>1, <2>2, <2>3, <2>6, OidsAssumption DEF NoObject
<1> QED
  BY <1>1, <1>2, <1>3 DEF SysDirs

\* Lookup finds what readdir lists in /proc/sys.
LEMMA SysResolves ==
  ASSUME TypeOK, NEW d, d.base = "sys", d.object \in SysDirs, NEW e \in Entries(d),
         e.name # Word("..")
  PROVE  Lookup(d, e.name) = e.id
<1>1. Lookup(d, e.name) = LookupSys(d, e.name)
  BY DEF Lookup
<1>2. ASSUME NEW i \in 1 .. 2, e = SysDot(d, i)
      PROVE  Lookup(d, e.name) = e.id
  BY <1>1, <1>2 DEF SysDot, LookupSys, Word
<1>3. ASSUME NEW o \in SysChildren(d.object), e = SysEntry(d, o)
      PROVE  Lookup(d, e.name) = e.id
  <2>1. SysFind(d.object, OidName(o)) = o /\ o # NoObject /\ OidName(o) \notin {".", ".."}
    BY SysFindsListed
  <2>2. e.name = Word(OidName(o)) /\ e.id = Node("sys", NoPid, o)
    BY <1>3 DEF SysEntry
  <2>3. e.name # Word(".") /\ e.name # Word("..") /\ e.name.word = OidName(o)
    BY <2>1, <2>2 DEF Word
  <2> QED
    BY <1>1, <2>1, <2>2, <2>3 DEF LookupSys
<1> QED
  BY <1>2, <1>3 DEF Entries

\* A child that stands for itself is found by its name.
LEMMA StaticResolves ==
  ASSUME NEW d, d.base \in DirBases, NEW i \in DOMAIN Children(d.base),
         ~Hidden(Children(d.base)[i])
  PROVE  Lookup(d, StaticEntry(d, i).name) = StaticEntry(d, i).id
<1> DEFINE c == Children(d.base)[i]
<1>1. StaticEntry(d, i).name = Word(c) /\ StaticEntry(d, i).id = StaticId(d, c)
  BY DEF StaticEntry
<1>2. d.base # "sys"
  BY DEF DirBases
<1>3. Word(c).word = c /\ (Word(c) = Word(".") <=> c = ".") /\ (Word(c) = Word("..") <=> c = "..")
  BY DEF Word
<1>4. \E k \in DOMAIN Children(d.base) :
        Word(c) = Word(Children(d.base)[k]) /\ ~Hidden(Children(d.base)[k])
  OBVIOUS
<1> HIDE DEF c
<1>5. Lookup(d, Word(c)) = StaticId(d, c)
  BY <1>2, <1>3, <1>4 DEF Lookup, StaticId
<1> QED
  BY <1>1, <1>5

\* What a child stands for has a number.
LEMMA MembersNat ==
  ASSUME TypeOK, NEW d, NEW c
  PROVE  Members(d, c) \subseteq Nat
<1>1. CASE c \in ProcessLists
  BY Zenon, <1>1, PidsAssumption DEF Members, VisiblePids, TypeOK
<1>2. CASE c \notin ProcessLists
  <2>1. Fds \cup Tids \subseteq Nat
    BY ObjectsAssumption
  <2> QED
    BY Zenon, <1>2, <2>1, ObjectsFacts DEF Members
<1> QED
  BY <1>1, <1>2

\* A process, descriptor or thread whose number is an int is found by it, or by
\* its name.
LEMMA DynamicResolves ==
  ASSUME TypeOK, NEW d \in OpenDirs, d.base \in DirBases, NEW i \in DOMAIN Children(d.base),
         Children(d.base)[i] \in Dynamic, NEW n \in Members(d, Children(d.base)[i]),
         n <= IntMax
  PROVE  Lookup(d, DynamicEntry(d, i, n).name) = DynamicEntry(d, i, n).id
<1> DEFINE c == Children(d.base)[i]
           name == DynamicEntry(d, i, n).name
<1>1. d.base # "sys" /\ i = Len(Children(d.base))
  BY ChildrenFacts DEF DirBases
<1>2. /\ c \in ProcessLists => d.pid = NoPid /\ d.object = NoObject
      /\ d.base \in ProcessNodes => d.pid \in VisiblePids
  BY OpenDirsFacts, ChildrenFacts
<1>3. c \in {"__Process__", "__Process_N__", "__File__", "__Thread__"}
  BY DEF Dynamic, ProcessLists
<1>4. n \in Nat
  BY Zenon, MembersNat
<1>5. /\ name = IF c = "__Process_N__" THEN DirName(n) ELSE Number(n)
      /\ DynamicEntry(d, i, n).id = IF c \in ProcessLists THEN Node(c, n, NoObject) ELSE Node(c, d.pid, n)
  BY DEF DynamicEntry
<1>6. /\ c = "__Process_N__" => name = DirName(n) /\ name.num = n
      /\ c # "__Process_N__" => name.num = n /\ name.word = ""
  <2>1. DirName(n).num = n /\ Number(n).num = n /\ Number(n).word = ""
    BY DEF DirName, Number
  <2> HIDE DEF name, c
  <2> QED
    BY Zenon, <1>5, <2>1
<1>7. name.num = n /\ Atoi(name.num) = n /\ \A w : name # Word(w)
  <2>1. \A w : Word(w).num = -1
    BY DEF Word
  <2>2. n # -1 /\ Atoi(n) = n
    BY <1>4 DEF Atoi
  <2> HIDE DEF name, c
  <2> QED
    BY Zenon, <1>6, <2>1, <2>2
<1>8. Lookup(d, name) = LookupDynamic(d, c, name)
  <2>1. /\ d.base # "sys" /\ name # Word(".") /\ name # Word("..") /\ c = Children(d.base)[Len(Children(d.base))]
        /\ ~\E k \in DOMAIN Children(d.base) : name = Word(Children(d.base)[k]) /\ ~Hidden(Children(d.base)[k])
        /\ c \in Dynamic
    BY Zenon, <1>1, <1>7
  <2> HIDE DEF name, c
  <2> QED
    BY <2>1 DEF Lookup
<1>9. d.base \notin {"root", "byname"} => d.base \in ProcessNodes
  BY DEF DirBases, ProcessNodes
<1>10. c \notin ProcessLists => d.base \notin {"root", "byname"}
  BY <1>1, ChildrenFacts
<1> HIDE DEF c, name
<1>11. ASSUME c = "__Process__"
       PROVE  Lookup(d, name) = DynamicEntry(d, i, n).id
  <2>1. n \in VisiblePids
    BY <1>11 DEF Members, ProcessLists, c
  <2>3. LookupDynamic(d, c, name) = IF name.word = "" /\ n \in live /\ (checked => CanAccess(n))
                                     THEN Node(c, n, d.object) ELSE NoNode
    BY <1>7, <1>11 DEF LookupDynamic
  <2>4. DynamicEntry(d, i, n).id = Node(c, n, NoObject)
    BY Zenon, <1>5, <1>11 DEF ProcessLists
  <2> QED
    BY Zenon, <1>2, <1>6, <1>7, <1>8, <1>11, <2>1, <2>3, <2>4 DEF VisiblePids, ProcessLists
<1>12. ASSUME c = "__Process_N__"
       PROVE  Lookup(d, name) = DynamicEntry(d, i, n).id
  <2>1. n \in VisiblePids
    BY <1>12 DEF Members, ProcessLists, c
  <2>3. LookupDynamic(d, c, name) = IF n \in live /\ name = DirName(n) /\ (checked => CanAccess(n))
                                     THEN Node(c, n, d.object) ELSE NoNode
    BY <1>7, <1>12 DEF LookupDynamic
  <2>4. DynamicEntry(d, i, n).id = Node(c, n, NoObject)
    BY Zenon, <1>5, <1>12 DEF ProcessLists
  <2> QED
    BY Zenon, <1>2, <1>6, <1>7, <1>8, <1>12, <2>1, <2>3, <2>4 DEF VisiblePids, ProcessLists
<1>13. ASSUME c = "__File__"
       PROVE  Lookup(d, name) = DynamicEntry(d, i, n).id
  <2>1. n \in Objects(d, c)
    BY <1>13 DEF Members, ProcessLists, c
  <2>3. LookupDynamic(d, c, name) = IF n \in Objects(d, c) THEN Node(c, d.pid, n) ELSE NoNode
    BY <1>7, <1>13 DEF LookupDynamic
  <2>4. DynamicEntry(d, i, n).id = Node(c, d.pid, n)
    BY Zenon, <1>5, <1>13 DEF ProcessLists
  <2> QED
    BY Zenon, <1>6, <1>7, <1>8, <1>13, <2>1, <2>3, <2>4
<1>14. ASSUME c = "__Thread__"
       PROVE  Lookup(d, name) = DynamicEntry(d, i, n).id
  <2>1. n \in Objects(d, c)
    BY <1>14 DEF Members, ProcessLists, c
  <2>2. checked => CanAccess(d.pid)
    BY <1>2, <1>9, <1>10, <1>14 DEF VisiblePids, ProcessLists
  <2>3. LookupDynamic(d, c, name) = IF /\ name.word = "" /\ (checked => CanAccess(d.pid))
                                        /\ n \in Objects(d, c)
                                     THEN Node(c, d.pid, n) ELSE NoNode
    BY <1>7, <1>14 DEF LookupDynamic
  <2>4. DynamicEntry(d, i, n).id = Node(c, d.pid, n)
    BY Zenon, <1>5, <1>14 DEF ProcessLists
  <2> QED
    BY Zenon, <1>6, <1>7, <1>8, <1>14, <2>1, <2>2, <2>3, <2>4
<1> QED
  BY <1>3, <1>11, <1>12, <1>13, <1>14 DEF name

\* Lookup finds what readdir lists in every directory that can be opened.
LEMMA Resolves == TypeOK => ListedResolves
<1> SUFFICES ASSUME TypeOK, NEW d \in OpenDirs, NEW e \in Entries(d),
                    ~(d.base = "sys" /\ e.name = Word("..")), ~(e.name.num > IntMax)
             PROVE  Lookup(d, e.name) = e.id
  BY DEF ListedResolves
<1>1. CASE d.base = "sys"
  BY <1>1, OpenDirsFacts, SysResolves
<1>2. CASE d.base # "sys"
  <2>1. d.base \in DirBases
    BY <1>2, OpenDirsFacts
  <2>2. PICK i \in DOMAIN Children(d.base) : ~Hidden(Children(d.base)[i]) /\ e \in SlotEntries(d, i)
    BY <1>2 DEF Entries
  <2>3. CASE Children(d.base)[i] \in Dynamic
    <3>1. PICK n \in Members(d, Children(d.base)[i]) : e = DynamicEntry(d, i, n)
      BY Zenon, <2>2, <2>3 DEF SlotEntries
    <3>2. n \in Nat /\ e.name.num = n
      <4>1. Members(d, Children(d.base)[i]) \subseteq Nat
        BY MembersNat
      <4> QED
        BY Zenon, <3>1, <4>1 DEF DynamicEntry, DirName, Number
    <3>3. n <= IntMax
      BY <3>2, IntAssumption
    <3> QED
      BY Zenon, <2>1, <2>3, <3>1, <3>3, DynamicResolves
  <2>4. CASE Children(d.base)[i] \notin Dynamic
    BY <2>1, <2>2, <2>4, StaticResolves DEF SlotEntries
  <2> QED
    BY <2>3, <2>4
<1> QED
  BY <1>1, <1>2

\* Whatever the state of processes, threads, descriptors, sysctls and settings,
\* procfs_vnop_lookup finds every entry procfs_vnop_readdir would list, and
\* under the node id readdir gave it, but for ".." of /proc/sys and threads
\* whose id is larger than an int.
THEOREM ListedAlwaysResolves == Spec => []ListedResolves
  BY TypesAreKept, Resolves, PTL

-----------------------------------------------------------------------------
(* What the scan has in view.                                              *)

\* The place of an entry tells which one it is.
EntryAt(i, n) ==
    IF OnSys THEN IF i = 3 THEN SysEntry(dir, n) ELSE SysDot(dir, i)
    ELSE IF Children(dir.base)[i] \in Dynamic THEN DynamicEntry(dir, i, n) ELSE StaticEntry(dir, i)

\* The numbers an entry can have at its place.
Keys == Pids \cup Fds \cup Tids \cup Oids \cup {0, Kern, Random, Uuid}

\* There are finitely many.
LEMMA KeysFacts ==
  ASSUME FiniteFacts
  PROVE  Keys \subseteq Nat /\ IsFiniteSet(Keys)
<1>1. IsFiniteSet(Oids)
  <2>1. Oids \in SUBSET Nat /\ 99 \in Nat /\ \A o \in Oids : o <= 99
    BY OidsAssumption
  <2> QED
    BY Zenon, <2>1, FiniteBounded
<1>2. IsFiniteSet({0, Kern, Random, Uuid})
  <2>1. IsFiniteSet({} \cup {0})
    BY Zenon, FiniteEmpty, FiniteAdd
  <2>2. IsFiniteSet({} \cup {0} \cup {Kern} \cup {Random} \cup {Uuid})
    BY Zenon, <2>1, FiniteAdd
  <2>3. {0, Kern, Random, Uuid} = {} \cup {0} \cup {Kern} \cup {Random} \cup {Uuid}
    OBVIOUS
  <2> QED
    BY <2>2, <2>3
<1>3. IsFiniteSet(Pids \cup Fds \cup Tids)
  BY Zenon, PidsAssumption, ObjectsAssumption, FiniteBoth
<1>4. IsFiniteSet(Keys)
  BY Zenon, <1>1, <1>2, <1>3, FiniteBoth DEF Keys
<1> QED
  BY <1>4, PidsAssumption, ObjectsAssumption, OidsAssumption DEF Keys, Kern, Random, Uuid

\* The directory of a scan is one of the tree or of the mirror.
LEMMA DirectoryFacts ==
  ASSUME Shape, Scanning
  PROVE  /\ ~OnSys => dir.base \in DirBases
         /\ OnSys => dir.object \in SysDirs
         /\ dir.base \in {"root", "byname"} => ~OnSys /\ dir.pid = NoPid
BY DEF Shape, OnSys

\* What a child stands for has such a number.
LEMMA MembersKeys ==
  ASSUME TypeOK, NEW d, NEW c
  PROVE  Members(d, c) \subseteq Pids \cup Fds \cup Tids
<1>1. VisiblePids \subseteq Pids
  BY Zenon DEF VisiblePids, TypeOK
<1>2. Objects(d, c) \subseteq Fds \cup Tids
  BY ObjectsFacts
<1> QED
  BY Zenon, <1>1, <1>2 DEF Members

\* So does an oid.
LEMMA SysKeys ==
  ASSUME TypeOK, NEW object \in SysDirs
  PROVE  SysChildren(object) \subseteq Keys
<1>1. oids \subseteq Oids
  BY Zenon DEF TypeOK
<1> QED
  BY <1>1 DEF SysChildren, SysDirs, Keys, NoObject, Kern, Random

\* The entries of a directory of the tree ...
LEMMA TreeEntries ==
  ASSUME TypeOK, Shape, Scanning, ~OnSys, NEW x \in Here
  PROVE  /\ x.slot \in 1 .. Len(Children(dir.base)) /\ x.key \in Keys
         /\ x = EntryAt(x.slot, x.key)
         /\ ~Hidden(Children(dir.base)[x.slot]) /\ MayShow(dir.pid)
         /\ Children(dir.base)[x.slot] \in Dynamic => x.key \in Members(dir, Children(dir.base)[x.slot])
<1>1. dir.base \in DirBases /\ dir.base # "sys"
  BY DirectoryFacts DEF OnSys
<1>2. DOMAIN Children(dir.base) = 1 .. Len(Children(dir.base))
  BY <1>1, ChildrenFacts
<1>3. PICK i \in DOMAIN Children(dir.base) :
        ~Hidden(Children(dir.base)[i]) /\ MayShow(dir.pid) /\ x \in SlotEntries(dir, i)
  BY Zenon, <1>1 DEF Here, Entries
<1>4. CASE Children(dir.base)[i] \in Dynamic
  <2>1. PICK n \in Members(dir, Children(dir.base)[i]) : x = DynamicEntry(dir, i, n)
    BY Zenon, <1>3, <1>4 DEF SlotEntries
  <2>2. x.slot = i /\ x.key = n
    BY <2>1 DEF DynamicEntry
  <2>3. n \in Keys
    BY Zenon, MembersKeys DEF Keys
  <2> QED
    BY Zenon, <1>2, <1>3, <1>4, <2>1, <2>2, <2>3 DEF EntryAt
<1>5. CASE Children(dir.base)[i] \notin Dynamic
  <2>1. x = StaticEntry(dir, i)
    BY Zenon, <1>3, <1>5 DEF SlotEntries
  <2>2. x.slot = i /\ x.key = 0
    BY <2>1 DEF StaticEntry
  <2> QED
    BY Zenon, <1>2, <1>3, <1>5, <2>1, <2>2 DEF EntryAt, Keys
<1> QED
  BY <1>4, <1>5

\* ... each of them, by its place ...
LEMMA TreeEntry ==
  ASSUME Shape, Scanning, ~OnSys, NEW i \in 1 .. Len(Children(dir.base)), NEW n,
         ~Hidden(Children(dir.base)[i]), MayShow(dir.pid),
         Children(dir.base)[i] \in Dynamic => n \in Members(dir, Children(dir.base)[i])
  PROVE  EntryAt(i, n) \in Here
<1>1. dir.base \in DirBases /\ dir.base # "sys"
  BY DirectoryFacts DEF OnSys
<1>2. i \in DOMAIN Children(dir.base)
  BY <1>1, ChildrenFacts
<1>3. EntryAt(i, n) \in SlotEntries(dir, i)
  BY Zenon DEF EntryAt, SlotEntries
<1> QED
  BY Zenon, <1>1, <1>2, <1>3 DEF Here, Entries

\* ... and those of a directory of /proc/sys.
LEMMA SysEntries ==
  ASSUME TypeOK, Shape, Scanning, OnSys, NEW x \in Here
  PROVE  /\ x.slot \in 1 .. 3 /\ x.key \in Keys /\ x = EntryAt(x.slot, x.key)
         /\ x.slot = 3 => x.key \in SysChildren(dir.object)
         /\ x.slot # 3 => x.key = 0
<1>1. ASSUME NEW i \in 1 .. 2, x = SysDot(dir, i)
      PROVE  x.slot = i /\ x.key = 0 /\ x = EntryAt(x.slot, x.key) /\ i # 3
  <2>1. i # 3 /\ x.slot = i /\ x.key = 0
    BY <1>1 DEF SysDot
  <2> QED
    BY Zenon, <1>1, <2>1 DEF EntryAt
<1>2. ASSUME NEW o \in SysChildren(dir.object), x = SysEntry(dir, o)
      PROVE  x.slot = 3 /\ x.key = o /\ x = EntryAt(x.slot, x.key)
  <2>1. x.slot = 3 /\ x.key = o
    BY <1>2 DEF SysEntry
  <2> QED
    BY Zenon, <1>2, <2>1 DEF EntryAt
<1>3. SysChildren(dir.object) \subseteq Keys
  BY SysKeys, DirectoryFacts
<1>4. (\E i \in 1 .. 2 : x = SysDot(dir, i)) \/ (\E o \in SysChildren(dir.object) : x = SysEntry(dir, o))
  BY Zenon DEF Here, Entries, OnSys
<1>5. 0 \in Keys
  BY DEF Keys
<1>6. \A i \in 1 .. 2 : i \in 1 .. 3 /\ i # 3
  OBVIOUS
<1>7. 3 \in 1 .. 3
  OBVIOUS
<1> QED
  BY Zenon, <1>1, <1>2, <1>3, <1>4, <1>5, <1>6, <1>7

\* What is in the list, as it would be copied now ...
LEMMA PendingEntries ==
  ASSUME TypeOK, Shape, NEW x \in Pending
  PROVE  /\ Listing /\ ~OnSys /\ x.slot = child /\ x.key \in list /\ x.key \in Keys
         /\ x = EntryAt(x.slot, x.key) /\ x.slot \in 1 .. Len(Children(dir.base))
<1>1. Listing /\ ~OnSys /\ SNode \in Dynamic /\ Scanning /\ child = Len(Children(dir.base))
  BY Zenon DEF Pending, Listing, Scanning, Shape
<1>2. PICK n \in list : x = DynamicEntry(dir, child, n)
  BY Zenon, <1>1 DEF Pending
<1>3. x.slot = child /\ x.key = n
  BY <1>2 DEF DynamicEntry
<1>4. n \in Keys
  BY Zenon DEF TypeOK, Keys
<1>5. child \in 1 .. Len(Children(dir.base))
  BY <1>1, DirectoryFacts, ChildrenFacts
<1> QED
  BY Zenon, <1>1, <1>2, <1>3, <1>4, <1>5 DEF EntryAt, SNode

\* ... and what of the directory is in the list.
LEMMA ListedPending ==
  ASSUME TypeOK, Shape, Listing, NEW x \in Here, x.slot = child, x.key \in list
  PROVE  x \in Pending
<1>1. Scanning /\ ~OnSys /\ SNode \in Dynamic /\ pc \in {"scan", "emit"}
  BY Zenon DEF Listing, Scanning, Shape
<1>2. x = DynamicEntry(dir, child, x.key) /\ x.key \in Members(dir, SNode)
  BY Zenon, <1>1, TreeEntries DEF EntryAt, SNode
<1>3. SNode = "__Process_N__" => x.key \in live
  BY Zenon, <1>2 DEF Members, ProcessLists, VisiblePids
<1> QED
  BY Zenon, <1>1, <1>2, <1>3 DEF Pending

\* No two entries in view share a place, and there are finitely many.
Placed(S) ==
    /\ IsFiniteSet(S)
    /\ \A x \in S : x.slot \in Nat /\ x.key \in Nat
    /\ \A x, y \in S : x.slot = y.slot /\ x.key = y.key => x = y

\* The entries in view have places of their own.
LEMMA InViewPlaced ==
  ASSUME FiniteFacts, TypeOK, Shape, Scanning
  PROVE  Placed(InView)
<1>1. \A x \in InView : x.slot \in 1 .. 7 /\ x.key \in Keys /\ x = EntryAt(x.slot, x.key)
  <2>1. ASSUME NEW x \in Here, OnSys
        PROVE  x.slot \in 1 .. 7 /\ x.key \in Keys /\ x = EntryAt(x.slot, x.key)
    BY <2>1, SysEntries
  <2>2. ~OnSys => \A i \in 1 .. Len(Children(dir.base)) : i \in 1 .. 7
    <3>1. ~OnSys => Len(Children(dir.base)) \in 3 .. 7
      BY Zenon, DirectoryFacts, ChildrenFacts
    <3>2. \A m \in 3 .. 7 : \A i \in 1 .. m : i \in 1 .. 7
      OBVIOUS
    <3> QED
      BY Zenon, <3>1, <3>2
  <2>3. ASSUME NEW x \in Here, ~OnSys
        PROVE  x.slot \in 1 .. 7 /\ x.key \in Keys /\ x = EntryAt(x.slot, x.key)
    BY Zenon, <2>2, <2>3, TreeEntries
  <2>4. ASSUME NEW x \in Pending
        PROVE  x.slot \in 1 .. 7 /\ x.key \in Keys /\ x = EntryAt(x.slot, x.key)
    BY Zenon, <2>2, PendingEntries
  <2> QED
    BY Zenon, <2>1, <2>3, <2>4 DEF InView, Here
<1> DEFINE f == [x \in InView |-> <<x.slot, x.key>>]
<1>2. \A x, y \in InView : x.slot = y.slot /\ x.key = y.key => x = y
  BY Zenon, <1>1
<1>3. /\ f \in [InView -> (1 .. 7) \X Keys]
      /\ \A a, b \in InView : f[a] = f[b] => a = b
  <2>1. \A x \in InView : <<x.slot, x.key>> \in (1 .. 7) \X Keys
    BY Zenon, <1>1
  <2>2. f \in [InView -> (1 .. 7) \X Keys]
    BY Zenon, <2>1
  <2>3. ASSUME NEW a \in InView, NEW b \in InView, f[a] = f[b]
        PROVE  a = b
    <3>1. <<a.slot, a.key>> = <<b.slot, b.key>>
      BY Zenon, <2>3
    <3>2. a.slot = b.slot /\ a.key = b.key
      BY <3>1
    <3> QED
      BY Zenon, <1>2, <3>2
  <2> HIDE DEF f
  <2> QED
    BY Zenon, <2>2, <2>3
<1>4. IsFiniteSet((1 .. 7) \X Keys)
  <2>1. IsFiniteSet(1 .. 7)
    <3>1. (1 .. 7) \in SUBSET Nat /\ 7 \in Nat /\ \A i \in 1 .. 7 : i <= 7
      OBVIOUS
    <3> QED
      BY Zenon, <3>1, FiniteBounded
  <2> QED
    BY Zenon, <2>1, KeysFacts, FiniteBoth
<1> HIDE DEF f
<1>5. IsFiniteSet(InView)
  BY Zenon, <1>3, <1>4, FiniteInjection
<1>6. \A x \in InView : x.slot \in Nat /\ x.key \in Nat
  <2>1. \A i \in 1 .. 7 : i \in Nat
    OBVIOUS
  <2> QED
    BY Zenon, <1>1, <2>1, KeysFacts
<1> QED
  BY Zenon, <1>2, <1>5, <1>6 DEF Placed

\* In the root and in byname the processes that can be seen are the entries of
\* the last child.
LEMMA ProcessEntries ==
  ASSUME TypeOK, Shape, Scanning, dir.base \in {"root", "byname"}
  PROVE  /\ \A x \in Here : OnProcess(x) => x.key \in VisiblePids
         /\ \A q \in VisiblePids : \E x \in Here : OnProcess(x) /\ x.key = q
<1> DEFINE last == Len(Children(dir.base))
<1>1. /\ ~OnSys /\ dir.pid = NoPid /\ dir.base \in DirBases
      /\ last \in 1 .. last /\ Children(dir.base)[last] \in ProcessLists
  BY DirectoryFacts, ChildrenFacts
<1> HIDE DEF last
<1>2. Children(dir.base)[last] \in Dynamic /\ Members(dir, Children(dir.base)[last]) = VisiblePids
  BY Zenon, <1>1 DEF Dynamic, Members
<1>3. ~Hidden(Children(dir.base)[last]) /\ MayShow(dir.pid)
  BY Zenon, <1>1, <1>2, DynamicShown DEF MayShow
<1>4. ASSUME NEW x \in Here, OnProcess(x)
      PROVE  x.key \in VisiblePids
  BY Zenon, <1>1, <1>2, <1>4, TreeEntries DEF OnProcess, last
<1>5. ASSUME NEW q \in VisiblePids
      PROVE  \E x \in Here : OnProcess(x) /\ x.key = q
  <2>1. EntryAt(last, q) \in Here
    BY Zenon, <1>1, <1>2, <1>3, TreeEntry DEF last
  <2>2. EntryAt(last, q) = DynamicEntry(dir, last, q)
    BY Zenon, <1>1, <1>2 DEF EntryAt
  <2>3. DynamicEntry(dir, last, q).slot = last /\ DynamicEntry(dir, last, q).key = q
    BY DEF DynamicEntry
  <2> QED
    BY Zenon, <2>1, <2>2, <2>3 DEF OnProcess, last
<1> QED
  BY <1>4, <1>5

\* A list is made at the last child, of processes in the root directory and byname.
LEMMA ListingProcesses ==
  ASSUME TypeOK, Shape, Listing
  PROVE  /\ ~OnSys /\ dir.base \in DirBases /\ child = Len(Children(dir.base))
         /\ child \in DOMAIN Children(dir.base)
         /\ SNode \in ProcessLists <=> dir.base \in {"root", "byname"}
         /\ pc = "scan" => dir.base \in {"root", "byname"}
<1>1. Scanning /\ ~OnSys /\ child = Len(Children(dir.base)) /\ (pc = "scan" => SNode \in ProcessLists)
  <2>1. "scan" # "emit"
    OBVIOUS
  <2> QED
    BY Zenon, <2>1 DEF Shape, Listing, Scanning
<1>2. dir.base \in DirBases
  BY <1>1, DirectoryFacts
<1>3. child \in DOMAIN Children(dir.base)
  BY <1>1, <1>2, ChildrenFacts
<1>4. SNode \in ProcessLists <=> dir.base \in {"root", "byname"}
  BY <1>1, <1>2, <1>3, ChildrenFacts DEF SNode
<1> QED
  BY <1>1, <1>2, <1>3, <1>4

\* The order of the entries.
LEMMA PlacedOrder ==
  ASSUME NEW S, Placed(S)
  PROVE  /\ \A x \in S : ~Before(x, x)
         /\ \A x, y \in S : x # y => Before(x, y) \/ Before(y, x)
         /\ \A x, y \in S : ~(Before(x, y) /\ Before(y, x))
         /\ \A x, y, z \in S : Before(x, y) /\ Before(y, z) => Before(x, z)
<1>1. /\ \A x \in S : x.slot \in Nat /\ x.key \in Nat
      /\ \A x, y \in S : x.slot = y.slot /\ x.key = y.key => x = y
  BY Zenon DEF Placed
<1> QED
  BY <1>1 DEF Before

\* More numbers lie below a larger number of a set.
LEMMA RankGrows ==
  ASSUME FiniteFacts, NEW S \in SUBSET Nat, IsFiniteSet(S), NEW a \in S, NEW b \in Nat, a < b
  PROVE  /\ Cardinality({q \in S : q < a}) \in Nat /\ Cardinality({q \in S : q < b}) \in Nat
         /\ Cardinality({q \in S : q < a}) < Cardinality({q \in S : q < b})
<1> DEFINE A == {q \in S : q < a}
           B == {q \in S : q < b}
<1>1. A \in SUBSET S /\ B \in SUBSET S /\ a \notin A /\ A \cup {a} \in SUBSET B
  <2>1. \A q \in S : q \in Nat /\ (q < a => q < b) /\ ~(a < a)
    OBVIOUS
  <2> QED
    BY Zenon, <2>1
<1> HIDE DEF A, B
<1>2. IsFiniteSet(A) /\ IsFiniteSet(B)
  BY Zenon, <1>1, FiniteSubset
<1>3. Cardinality(A \cup {a}) = Cardinality(A) + 1 /\ IsFiniteSet(A \cup {a})
  BY Zenon, <1>1, <1>2, FiniteAdd
<1>4. Cardinality(A \cup {a}) <= Cardinality(B)
  BY Zenon, <1>1, <1>2, FiniteSubset
<1>5. Cardinality(A) \in Nat /\ Cardinality(B) \in Nat
  BY Zenon, <1>2, FiniteCardinality
<1>6. Cardinality(A) < Cardinality(B)
  BY <1>3, <1>4, <1>5
<1> QED
  BY Zenon, <1>5, <1>6 DEF A, B

\* The children of an oid by their index: procfs_sysctl_child_at.
LEMMA SysIndex ==
  ASSUME FiniteFacts, TypeOK, Shape, Scanning, OnSys
  PROVE  /\ \A x \in Here : Index(x) \in Nat
         /\ \A x \in Here : x.slot < 3 => Index(x) = x.slot
         /\ \A x \in Here : x.slot = 3 => Index(x) >= 3
         /\ \A x \in Here : Index(x) <= 2 + Cardinality(SysChildren(dir.object))
         /\ \A x, y \in Here : Before(x, y) => Index(x) < Index(y)
         /\ Cardinality(SysChildren(dir.object)) \in Nat
<1> DEFINE S == SysChildren(dir.object)
           R(k) == Cardinality({q \in S : q < k})
<1>1. S \subseteq Keys
  BY Zenon, SysKeys, DirectoryFacts
<1>2. IsFiniteSet(S) /\ S \in SUBSET Nat
  BY Zenon, <1>1, KeysFacts, FiniteSubset
<1>3. \A x \in Here : x.slot \in 1 .. 3 /\ x.key \in Nat /\ (x.slot = 3 => x.key \in S) /\ (x.slot # 3 => x.key = 0)
  BY Zenon, SysEntries, KeysFacts
<1>4. Cardinality(S) \in Nat
  BY Zenon, <1>2, FiniteCardinality
<1>5. \A x \in Here : Index(x) = IF x.slot = 3 THEN 3 + R(x.key) ELSE x.slot
  BY Zenon DEF Index
<1>6. \A a, b \in S : a < b => R(a) < R(b)
  BY Zenon, <1>2, RankGrows
<1>7. \A a \in S : R(a) \in Nat /\ R(a) < Cardinality(S)
  <2> SUFFICES ASSUME NEW a \in S
               PROVE  R(a) \in Nat /\ R(a) < Cardinality(S)
    OBVIOUS
  <2> DEFINE A == {q \in S : q < a}
  <2>1. A \in SUBSET S /\ a \notin A
    BY <1>2
  <2> HIDE DEF A
  <2>2. IsFiniteSet(A) /\ Cardinality(A) <= Cardinality(S) /\ (Cardinality(S) = Cardinality(A) => S = A)
    BY Zenon, <1>2, <2>1, FiniteSubset
  <2>3. Cardinality(A) \in Nat
    BY Zenon, <2>2, FiniteCardinality
  <2>4. Cardinality(A) \in Nat /\ Cardinality(A) < Cardinality(S)
    BY <1>4, <2>1, <2>2, <2>3
  <2> QED
    BY Zenon, <2>4 DEF A
<1> HIDE DEF S, R
<1>8. \A x \in Here : /\ Index(x) \in Nat /\ (x.slot < 3 => Index(x) = x.slot)
                      /\ (x.slot = 3 => Index(x) >= 3) /\ Index(x) <= 2 + Cardinality(S)
  BY <1>3, <1>4, <1>5, <1>7
<1>9. \A x, y \in Here : Before(x, y) => Index(x) < Index(y)
  <2> SUFFICES ASSUME NEW x \in Here, NEW y \in Here, Before(x, y)
               PROVE  Index(x) < Index(y)
    OBVIOUS
  <2>1. CASE x.slot = 3 /\ y.slot = 3
    <3>1. x.key \in S /\ y.key \in S /\ x.key < y.key
      BY <1>3, <2>1 DEF Before
    <3>2. R(x.key) < R(y.key) /\ R(x.key) \in Nat /\ R(y.key) \in Nat
      BY Zenon, <1>6, <1>7, <3>1
    <3> QED
      BY <1>5, <2>1, <3>2
  <2>2. CASE x.slot # 3 \/ y.slot # 3
    <3>1. x.slot < y.slot /\ x.slot < 3
      BY <1>3, <2>2 DEF Before
    <3>2. y.slot = 3 => R(y.key) \in Nat
      BY Zenon, <1>3, <1>7
    <3> QED
      BY <1>3, <1>5, <3>1, <3>2
  <2> QED
    BY <2>1, <2>2
<1> QED
  BY Zenon, <1>4, <1>8, <1>9 DEF S

\* The walk comes to the children of an oid in their order.
LEMMA SysIndexPreceding ==
  ASSUME TypeOK, Shape, Scanning, OnSys, NEW x \in Here
  PROVE  Index(x) = IF x.slot = 3
                    THEN 3 + Cardinality({y.key : y \in {z \in Preceding(Here, x) : z.slot = 3}})
                    ELSE x.slot
<1> SUFFICES ASSUME x.slot = 3
             PROVE  {q \in SysChildren(dir.object) : q < x.key}
                      = {y.key : y \in {z \in Preceding(Here, x) : z.slot = 3}}
  BY Zenon DEF Index
<1>1. ASSUME NEW q \in SysChildren(dir.object), q < x.key
      PROVE  \E y \in Preceding(Here, x) : y.slot = 3 /\ y.key = q
  <2>1. SysEntry(dir, q) \in Here
    BY Zenon DEF Here, Entries, OnSys
  <2>2. SysEntry(dir, q).slot = 3 /\ SysEntry(dir, q).key = q
    BY DEF SysEntry
  <2>3. Before(SysEntry(dir, q), x)
    BY Zenon, <1>1, <2>2 DEF Before
  <2> QED
    BY Zenon, <2>1, <2>2, <2>3 DEF Preceding
<1>2. ASSUME NEW y \in Preceding(Here, x), y.slot = 3
      PROVE  y.key \in SysChildren(dir.object) /\ y.key < x.key
  <2>1. y \in Here /\ Before(y, x)
    BY Zenon DEF Preceding
  <2>2. y.key \in SysChildren(dir.object)
    BY Zenon, <1>2, <2>1, SysEntries
  <2>3. y.key < x.key
    <3>1. ~(3 < 3)
      OBVIOUS
    <3> QED
      BY Zenon, <1>2, <2>1, <3>1 DEF Before
  <2> QED
    BY <2>2, <2>3
<1> QED
  BY Zenon, <1>1, <1>2

\* What is due, by the state of the call.
LEMMA DueIs ==
  /\ pc = "walk" => Due = {x \in Here : Index(x) >= child}
  /\ pc = "scan" => Due = Pending \cup {x \in Here : x.slot = child /\ x.key \in probe}
  /\ pc = "emit" => Due = Pending
<1>1. "walk" # "scan" /\ "walk" # "emit" /\ "scan" # "emit"
  OBVIOUS
<1> QED
  BY <1>1 DEF Due

\* The same after the step.
LEMMA DueIsNext ==
  /\ pc' = "walk" => Due' = {x \in Here' : Index(x)' >= child'}
  /\ pc' = "scan" => Due' = Pending' \cup {x \in Here' : x.slot = child' /\ x.key \in probe'}
  /\ pc' = "emit" => Due' = Pending'
<1>1. "walk" # "scan" /\ "walk" # "emit" /\ "scan" # "emit"
  OBVIOUS
<1> QED
  BY <1>1 DEF Due

\* What a step has to know of the entries in view, before it and after it.
View ==
    Scanning =>
        /\ Placed(InView) /\ InView = Here \cup Pending
        /\ Pending \subseteq Due /\ Due \subseteq InView
        /\ \A x \in Pending : Listing /\ x.slot = child /\ x.key \in list
        /\ Listing => \A x \in Here : x.slot = child /\ x.key \in list => x \in Pending
        /\ Listing => \A x \in Due : x.slot = child
        /\ OnSys => Pending = {}
        /\ pc = "walk" => Pending = {} /\ Due = {x \in Here : Index(x) >= child}
        /\ pc = "scan" => Due = Pending \cup {x \in Here : x.slot = child /\ x.key \in probe}
        /\ pc = "emit" => Due = Pending
        /\ ~OnSys => \A x \in Here : Index(x) = x.slot
        /\ OnSys => \A x \in Here :
             Index(x) = IF x.slot = 3
                        THEN 3 + Cardinality({y.key : y \in {z \in Preceding(Here, x) : z.slot = 3}})
                        ELSE x.slot
        /\ dir.base \in {"root", "byname"} =>
             /\ \A x \in Here : OnProcess(x) => x.key \in VisiblePids
             /\ \A q \in VisiblePids : \E x \in Here : OnProcess(x) /\ x.key = q

\* It follows from types and shape,
LEMMA ViewHolds == FiniteFacts /\ TypeOK /\ Shape => View
<1> SUFFICES ASSUME FiniteFacts, TypeOK, Shape, Scanning
             PROVE  View
  BY Zenon DEF View
<1>1. InView = Here \cup Pending
  BY Zenon DEF InView, Here
<1>2. \A x \in Pending : Listing /\ x.slot = child /\ x.key \in list
  BY Zenon, PendingEntries
<1>3. Listing => \A x \in Here : x.slot = child /\ x.key \in list => x \in Pending
  BY Zenon, ListedPending
<1>4. pc = "walk" => Pending = {}
  <2>1. "walk" \notin {"scan", "emit"}
    OBVIOUS
  <2> QED
    BY Zenon, <2>1 DEF Pending
<1>8. OnSys => Pending = {}
  BY Zenon, PendingEntries
<1>5. Listing => \A x \in Due : x.slot = child
  BY Zenon, <1>2, DueIs DEF Listing
<1>6. Pending \subseteq Due /\ Due \subseteq InView
  BY Zenon, <1>1, <1>4, DueIs DEF Scanning
<1>7. ~OnSys => \A x \in Here : Index(x) = x.slot
  BY Zenon DEF Index
<1> QED
  BY Zenon, <1>1, <1>2, <1>3, <1>4, <1>5, <1>6, <1>7, <1>8, InViewPlaced, DueIs,
     SysIndexPreceding, ProcessEntries DEF View

\* after the step too.
LEMMA ViewHoldsNext == FiniteFacts /\ TypeOK' /\ Shape' => View'
<1>1. FiniteFacts => FiniteFacts'
  BY Zenon DEF FiniteFacts
<1> QED
  BY <1>1, ViewHolds, PTL

-----------------------------------------------------------------------------
(* A change of the system during a call.                                   *)

\* What is due and still there stays due ...
LEMMA DueStays ==
  ASSUME View, View', Scanning, UNCHANGED scanVars, NEW x \in Due, x \in Here',
         OnSys => Preceding(Here, x) = Preceding(Here', x)
  PROVE  x \in Due'
<1>1. /\ pc' = pc /\ child' = child /\ list' = list /\ probe' = probe /\ (Scanning)' /\ OnSys' = OnSys
      /\ Listing' = Listing
  BY Zenon DEF scanVars, callVars, Scanning, OnSys, Listing
<1>2. CASE pc = "walk"
  <2>1. x \in Here /\ Index(x) >= child
    BY Zenon, <1>2 DEF View
  <2>2. Index(x)' = Index(x)
    <3>1. CASE OnSys
      <4>1. Index(x) = IF x.slot = 3
                       THEN 3 + Cardinality({y.key : y \in {z \in Preceding(Here, x) : z.slot = 3}})
                       ELSE x.slot
        BY Zenon, <2>1, <3>1 DEF View
      <4>2. Index(x)' = IF x.slot = 3
                        THEN 3 + Cardinality({y.key : y \in {z \in Preceding(Here', x) : z.slot = 3}})
                        ELSE x.slot
        BY Zenon, <1>1, <3>1 DEF View
      <4> QED
        BY Zenon, <3>1, <4>1, <4>2
    <3>2. CASE ~OnSys
      <4>1. Index(x) = x.slot
        BY Zenon, <2>1, <3>2 DEF View
      <4>2. Index(x)' = x.slot
        BY Zenon, <1>1, <2>1, <3>2 DEF View
      <4> QED
        BY <4>1, <4>2
    <3> QED
      BY <3>1, <3>2
  <2>3. Due' = {z \in Here : Index(z) >= child}'
    BY Zenon, <1>1, <1>2 DEF View
  <2> QED
    BY Zenon, <1>1, <2>1, <2>2, <2>3
<1>3. CASE x \in Pending
  <2>1. Listing /\ x.slot = child /\ x.key \in list
    BY Zenon, <1>3 DEF View
  <2>2. x \in Pending'
    BY Zenon, <1>1, <2>1 DEF View
  <2> QED
    BY Zenon, <1>1, <2>2 DEF View
<1>4. CASE pc # "walk" /\ x \notin Pending
  <2>1. pc = "scan" /\ x.slot = child /\ x.key \in probe
    <3>1. pc = "scan" \/ pc = "emit"
      BY Zenon, <1>4 DEF Scanning
    <3>2. pc # "emit"
      BY Zenon, <1>4 DEF View
    <3>3. Due = Pending \cup {z \in Here : z.slot = child /\ z.key \in probe}
      BY Zenon, <3>1, <3>2 DEF View
    <3> QED
      BY Zenon, <1>4, <3>1, <3>2, <3>3
  <2> QED
    BY Zenon, <1>1, <2>1 DEF View
<1> QED
  BY <1>2, <1>3, <1>4

\* ... and nothing that was in view becomes due.
LEMMA DueBefore ==
  ASSUME View, View', Scanning, UNCHANGED scanVars, NEW x \in Due', x \in InView,
         OnSys => Preceding(Here, x) = Preceding(Here', x)
  PROVE  x \in Due
<1>1. /\ pc' = pc /\ child' = child /\ list' = list /\ probe' = probe /\ (Scanning)' /\ OnSys' = OnSys
      /\ Listing' = Listing
  BY Zenon DEF scanVars, callVars, Scanning, OnSys, Listing
<1>2. x \in Here \/ x \in Pending
  BY Zenon DEF View
<1>3. CASE x \in Pending
  BY Zenon, <1>3 DEF View
<1>4. CASE pc = "walk"
  <2>1. x \in Here' /\ Index(x)' >= child /\ x \in Here
    BY Zenon, <1>1, <1>2, <1>4 DEF View
  <2>2. Index(x)' = Index(x)
    <3>1. CASE OnSys
      <4>1. Index(x) = IF x.slot = 3
                       THEN 3 + Cardinality({y.key : y \in {z \in Preceding(Here, x) : z.slot = 3}})
                       ELSE x.slot
        BY Zenon, <2>1, <3>1 DEF View
      <4>2. Index(x)' = IF x.slot = 3
                        THEN 3 + Cardinality({y.key : y \in {z \in Preceding(Here', x) : z.slot = 3}})
                        ELSE x.slot
        BY Zenon, <1>1, <2>1, <3>1 DEF View
      <4> QED
        BY Zenon, <3>1, <4>1, <4>2
    <3>2. CASE ~OnSys
      <4>1. Index(x) = x.slot
        BY Zenon, <2>1, <3>2 DEF View
      <4>2. Index(x)' = x.slot
        BY Zenon, <1>1, <2>1, <3>2 DEF View
      <4> QED
        BY <4>1, <4>2
    <3> QED
      BY <3>1, <3>2
  <2>3. Due = {z \in Here : Index(z) >= child}
    BY Zenon, <1>4 DEF View
  <2> QED
    BY Zenon, <2>1, <2>2, <2>3
<1>5. CASE x \in Here /\ pc \in {"scan", "emit"} /\ x \in Pending'
  <2>1. x.slot = child /\ x.key \in list /\ Listing
    BY Zenon, <1>1, <1>5 DEF View
  <2> QED
    BY Zenon, <1>5, <2>1 DEF View
<1>6. CASE x \in Here /\ pc \in {"scan", "emit"} /\ x \notin Pending'
  <2>1. pc = "scan" /\ x.slot = child /\ x.key \in probe
    BY Zenon, <1>1, <1>6 DEF View
  <2> QED
    BY Zenon, <1>6, <2>1 DEF View
<1> QED
  BY Zenon, <1>2, <1>3, <1>4, <1>5, <1>6 DEF Scanning

\* What the history says of a change.
LEMMA Observed ==
  ASSUME Scanning, Observe
  PROVE  /\ \A e \in steady' :
              /\ e \in steady /\ e \in Within(dir)' /\ Preceding(Here, e) \subseteq Here'
              /\ OnSys => Preceding(InView', e) \subseteq InView
         /\ pushed \subseteq pushed'
         /\ \A e \in InView' : e \notin pushed' => e \in InView
         /\ \A e \in InView' \cup Returned : e \notin pushed' =>
              /\ Preceding(InView', e) \subseteq InView
              /\ OnSys => Preceding(Here, e) \subseteq Here'
<1>1. pc \notin {"idle", "done"}
  BY DEF Scanning
<1> DEFINE gone(e) == Preceding(Here, e) \ Here'
           new(e) == Preceding(InView', e) \ InView
<1>2. /\ steady' = {e \in steady \cap Within(dir)' : gone(e) = {} /\ (OnSys => new(e) = {})}
      /\ pushed' = pushed \cup (InView' \ InView) \cup
                     {e \in InView' \cup Returned : new(e) # {} \/ (OnSys /\ gone(e) # {})}
  BY Zenon, <1>1 DEF Observe, Here
<1>3. \A e : (gone(e) = {} <=> Preceding(Here, e) \subseteq Here')
             /\ (new(e) = {} <=> Preceding(InView', e) \subseteq InView)
  BY Zenon
<1> HIDE DEF gone, new
<1> QED
  BY Zenon, <1>2, <1>3

\* An entry before which nothing came or went has the same entries before it.
LEMMA SamePreceding ==
  ASSUME View, View', Scanning, UNCHANGED scanVars, NEW e, e \in InView, e \in InView',
         OnSys => Preceding(Here, e) \subseteq Here' /\ Preceding(InView', e) \subseteq InView
  PROVE  OnSys => /\ Preceding(Here, e) = Preceding(Here', e)
                  /\ \A x \in Here \cup Here' : Before(x, e) => Preceding(Here, x) = Preceding(Here', x)
<1> SUFFICES ASSUME OnSys
             PROVE  /\ Preceding(Here, e) = Preceding(Here', e)
                    /\ \A x \in Here \cup Here' : Before(x, e) => Preceding(Here, x) = Preceding(Here', x)
  OBVIOUS
<1>1. OnSys' /\ Scanning'
  BY Zenon DEF scanVars, OnSys, Scanning
<1>2. InView = Here /\ Placed(Here)
  <2>1. InView = Here \cup Pending /\ Pending = {} /\ Placed(InView)
    BY Zenon DEF View
  <2>2. InView = Here
    BY Zenon, <2>1
  <2> QED
    BY Zenon, <2>1, <2>2
<1>3. InView' = Here' /\ Placed(Here')
  <2>1. InView' = Here' \cup Pending' /\ Pending' = {} /\ Placed(InView')
    BY Zenon, <1>1 DEF View, Placed
  <2>2. InView' = Here'
    BY Zenon, <2>1
  <2> QED
    BY Zenon, <2>1, <2>2
<1>4. Preceding(Here, e) = Preceding(Here', e)
  BY Zenon, <1>2, <1>3 DEF Preceding
<1>5. /\ \A x, y, z \in Here : Before(x, y) /\ Before(y, z) => Before(x, z)
      /\ \A x, y, z \in Here' : Before(x, y) /\ Before(y, z) => Before(x, z)
  <2>1. \A S : Placed(S) => \A x, y, z \in S : Before(x, y) /\ Before(y, z) => Before(x, z)
    BY Zenon, PlacedOrder
  <2> QED
    BY Zenon, <1>2, <1>3, <2>1
<1>6. ASSUME NEW x \in Here \cup Here', Before(x, e)
      PROVE  Preceding(Here, x) = Preceding(Here', x)
  <2>1. x \in Here /\ x \in Here' /\ e \in Here /\ e \in Here'
    BY Zenon, <1>2, <1>3, <1>4, <1>6 DEF Preceding
  <2>2. \A y \in Here : Before(y, x) => y \in Preceding(Here, e)
    BY Zenon, <1>5, <1>6, <2>1 DEF Preceding
  <2>3. \A y \in Here' : Before(y, x) => y \in Preceding(Here', e)
    BY Zenon, <1>5, <1>6, <2>1 DEF Preceding
  <2> QED
    BY Zenon, <1>4, <2>2, <2>3 DEF Preceding
<1> QED
  BY <1>4, <1>6

\* What is there and what is due is finite,
LEMMA ViewFinite ==
  ASSUME FiniteFacts, View, Scanning
  PROVE  IsFiniteSet(Here) /\ IsFiniteSet(Due) /\ IsFiniteSet(Here \ Due)
<1>1. IsFiniteSet(InView) /\ Here \in SUBSET InView /\ Due \in SUBSET InView /\ (Here \ Due) \in SUBSET InView
  BY Zenon DEF View, Placed
<1> QED
  BY Zenon, <1>1, FiniteSubset

\* after the step too.
LEMMA ViewFiniteNext ==
  ASSUME FiniteFacts, View', Scanning'
  PROVE  IsFiniteSet(Here') /\ IsFiniteSet(Due') /\ IsFiniteSet(Here' \ Due')
<1>1. /\ IsFiniteSet(InView') /\ Here' \in SUBSET InView' /\ Due' \in SUBSET InView'
      /\ (Here' \ Due') \in SUBSET InView'
  BY Zenon DEF View, Placed
<1> QED
  BY Zenon, <1>1, FiniteSubset

\* A change of the system leaves the call where it is.
LEMMA SameCall ==
  ASSUME UNCHANGED scanVars
  PROVE  /\ pc' = pc /\ child' = child /\ list' = list /\ probe' = probe /\ dir' = dir
         /\ startpos' = startpos /\ nextpos' = nextpos /\ listed' = listed
         /\ Scanning' = Scanning /\ Listing' = Listing /\ OnSys' = OnSys /\ Returned' = Returned
BY Zenon DEF scanVars, callVars, Scanning, Listing, OnSys, Returned

\* What is due before an entry that is still to come is there: the list holds
\* nothing that is gone.
LEMMA ComingBefore ==
  ASSUME TypeOK, View, Scanning, NEW e, Coming(e), NEW x \in Due, Before(x, e)
  PROVE  x \in Here
<1> SUFFICES ASSUME x \notin Here
             PROVE  FALSE
  OBVIOUS
<1>1. x \in Pending /\ x \in InView
  BY Zenon DEF View
<1>2. Listing /\ x.slot = child /\ x.key \in list /\ e.slot = child
  BY Zenon, <1>1 DEF View, Coming
<1>3. x.key < e.key
  <2>1. child \in Nat
    BY Zenon DEF TypeOK
  <2>2. ~(child < child)
    BY <2>1
  <2> QED
    BY Zenon, <1>2, <2>2 DEF Before
<1>4. PICK y \in Here : y.slot = child /\ y.key = x.key
  BY Zenon, <1>2, <1>3 DEF Coming
<1>5. y \in InView
  BY Zenon DEF View
<1>6. \A a, b \in InView : a.slot = b.slot /\ a.key = b.key => a = b
  BY Zenon DEF View, Placed
<1> QED
  BY Zenon, <1>1, <1>2, <1>4, <1>5, <1>6

\* An entry that was there and before which nothing went away is still to come.
LEMMA ChangeMissing ==
  ASSUME FiniteFacts, TypeOK, View, View', Scanning, UNCHANGED scanVars, Observe, Missing
  PROVE  Missing'
<1>0. nextpos \in Nat /\ startpos \in Nat
  BY Zenon DEF TypeOK
<1>1. Scanning' /\ Returned' = Returned /\ OnSys' = OnSys
  BY Zenon, SameCall
<1> SUFFICES ASSUME NEW e \in steady', e \notin Returned
             PROVE  e \in Within(dir)' /\ Coming(e)'
  <2>1. \A e \in steady' : e \in Within(dir)'
    BY Zenon, Observed
  <2> QED
    BY Zenon, <1>1, <2>1 DEF Missing
<1>2. /\ e \in steady /\ e \in Within(dir)' /\ Preceding(Here, e) \subseteq Here'
      /\ OnSys => Preceding(InView', e) \subseteq InView
  BY Zenon, Observed
<1>3. /\ e \in Due /\ nextpos <= Size(Preceding(Here \ Due, e))
      /\ startpos <= nextpos + Size(Preceding(Due, e))
      /\ Listing => \A n \in list : n < e.key => \E x \in Here : x.slot = child /\ x.key = n
  BY Zenon, <1>2 DEF Missing, Coming
<1>4. e \in Here' /\ e \in InView /\ e \in InView'
  BY Zenon, <1>1, <1>2, <1>3 DEF View, Within, Here
<1>5. OnSys => /\ Preceding(Here, e) = Preceding(Here', e)
               /\ \A x \in Here \cup Here' : Before(x, e) => Preceding(Here, x) = Preceding(Here', x)
  BY Zenon, <1>2, <1>4, SamePreceding
<1>6. e \in Due'
  BY Zenon, <1>3, <1>4, <1>5, DueStays
<1>7. Preceding(Here \ Due, e) \subseteq Here' \ Due'
  <2>1. ASSUME NEW x \in Here, x \notin Due, Before(x, e)
        PROVE  x \in Here' /\ x \notin Due'
    <3>1. x \in Here' /\ x \in InView
      BY Zenon, <1>2, <2>1 DEF Preceding, View
    <3> QED
      BY Zenon, <1>5, <2>1, <3>1, DueBefore
  <2> QED
    BY Zenon, <2>1 DEF Preceding
<1>8. \A x \in Due : Before(x, e) => x \in Here
  BY Zenon, <1>2, ComingBefore DEF Missing
<1>9. Preceding(Due, e) \subseteq Due'
  <2>1. ASSUME NEW x \in Due, Before(x, e)
        PROVE  x \in Due'
    <3>1. x \in Here /\ x \in Here'
      BY Zenon, <1>2, <1>8, <2>1 DEF Preceding
    <3> QED
      BY Zenon, <1>5, <2>1, <3>1, DueStays
  <2> QED
    BY Zenon, <2>1 DEF Preceding
<1>10. /\ Size(Preceding(Here \ Due, e)) \in Nat /\ Size(Preceding(Here' \ Due', e)) \in Nat
       /\ Size(Preceding(Here \ Due, e)) <= Size(Preceding(Here' \ Due', e))
       /\ Size(Preceding(Due, e)) \in Nat /\ Size(Preceding(Due', e)) \in Nat
       /\ Size(Preceding(Due, e)) <= Size(Preceding(Due', e))
  BY Zenon, <1>1, <1>7, <1>9, ViewFiniteNext, PrecedingMonotone
<1>11. nextpos <= Size(Preceding(Here' \ Due', e)) /\ startpos <= nextpos + Size(Preceding(Due', e))
  BY <1>0, <1>3, <1>10
<1>12. ASSUME Listing, NEW n \in list, n < e.key
       PROVE  \E x \in Here' : x.slot = child /\ x.key = n
  <2>1. PICK x \in Here : x.slot = child /\ x.key = n
    BY Zenon, <1>3, <1>12
  <2>2. e.slot = child
    BY Zenon, <1>3, <1>12 DEF View
  <2>3. Before(x, e)
    BY Zenon, <1>12, <2>1, <2>2 DEF Before
  <2> QED
    BY Zenon, <1>2, <2>1, <2>3 DEF Preceding
<1>13. (nextpos <= Size(Preceding(Here \ Due, e)))' /\ (startpos <= nextpos + Size(Preceding(Due, e)))'
  BY <1>11, SameCall
<1>14. (Listing => \A n \in list : n < e.key => \E x \in Here : x.slot = child /\ x.key = n)'
  BY Zenon, <1>12, SameCall
<1> QED
  BY Zenon, <1>2, <1>6, <1>13, <1>14 DEF Coming

\* An entry nothing new came before: what is due before it was due, and what was
\* due before it and is there is due.
LEMMA Unpushed ==
  ASSUME View, View', Scanning, UNCHANGED scanVars, Observe, NEW e \in InView', e \notin pushed'
  PROVE  /\ e \in InView /\ e \notin pushed /\ Preceding(InView', e) \subseteq InView
         /\ \A x \in Due' : x = e \/ Before(x, e) => x \in Due
         /\ \A x \in Due : (x = e \/ Before(x, e)) /\ x \in Here' => x \in Due'
<1>1. /\ e \in InView /\ e \notin pushed /\ Preceding(InView', e) \subseteq InView
      /\ OnSys => Preceding(Here, e) \subseteq Here'
  BY Zenon, Observed
<1>2. OnSys => /\ Preceding(Here, e) = Preceding(Here', e)
               /\ \A x \in Here \cup Here' : Before(x, e) => Preceding(Here, x) = Preceding(Here', x)
  BY Zenon, <1>1, SamePreceding
<1>3. Scanning' /\ OnSys' = OnSys
  BY Zenon, SameCall
<1>4. Due' \subseteq InView' /\ InView' = Here' \cup Pending' /\ (OnSys => Pending' = {})
  BY Zenon, <1>3 DEF View
<1>5. ASSUME NEW x \in Due', x = e \/ Before(x, e)
      PROVE  x \in Due
  <2>1. x \in InView' /\ (OnSys => x \in Here')
    BY Zenon, <1>4
  <2>2. x \in InView
    BY Zenon, <1>1, <1>5, <2>1 DEF Preceding
  <2>3. OnSys => Preceding(Here, x) = Preceding(Here', x)
    BY Zenon, <1>2, <1>5, <2>1
  <2> QED
    BY Zenon, <2>2, <2>3, DueBefore
<1>6. ASSUME NEW x \in Due, x = e \/ Before(x, e), x \in Here'
      PROVE  x \in Due'
  <2>1. OnSys => Preceding(Here, x) = Preceding(Here', x)
    BY Zenon, <1>2, <1>6
  <2> QED
    BY Zenon, <1>6, <2>1, DueStays
<1> QED
  BY <1>1, <1>5, <1>6

\* What was returned is still passed over: if nothing came before it, the call
\* is at least as close to the start position.
LEMMA ChangeRepeat ==
  ASSUME FiniteFacts, TypeOK, View, View', Scanning, UNCHANGED scanVars, Observe, Repeat
  PROVE  Repeat'
<1>0. nextpos \in Nat /\ startpos \in Nat /\ Scanning' /\ Due' \subseteq InView'
  BY Zenon, SameCall DEF TypeOK, View
<1> SUFFICES ASSUME NEW e \in Due', e \in Returned, e \notin pushed'
             PROVE  nextpos + Size(Preceding(Due', e)) + DirentSize(e.name) <= startpos
  BY Zenon, SameCall DEF Repeat
<1>1. /\ e \notin pushed /\ e \in Due
      /\ \A x \in Due' : x = e \/ Before(x, e) => x \in Due
  BY Zenon, <1>0, Unpushed
<1>2. nextpos + Size(Preceding(Due, e)) + DirentSize(e.name) <= startpos
  BY Zenon, <1>1 DEF Repeat
<1>3. Preceding(Due', e) \subseteq Due
  BY Zenon, <1>1 DEF Preceding
<1>4. /\ Size(Preceding(Due', e)) \in Nat /\ Size(Preceding(Due, e)) \in Nat
      /\ Size(Preceding(Due', e)) <= Size(Preceding(Due, e))
  BY Zenon, <1>3, ViewFinite, PrecedingMonotone
<1> QED
  BY <1>0, <1>2, <1>4, DirentSizeType

\* What the call has left behind only becomes smaller.
LEMMA ChangeReached ==
  ASSUME FiniteFacts, TypeOK, View, View', Scanning, UNCHANGED scanVars, Observe, Reached
  PROVE  Reached'
<1>0. nextpos \in Nat /\ Scanning' /\ Due' \subseteq InView' /\ Here' \subseteq InView'
  BY Zenon, SameCall DEF TypeOK, View
<1> SUFFICES ASSUME NEW e \in Due', e \notin pushed'
             PROVE  Size(Preceding(Here' \ Due', e)) <= nextpos
  BY Zenon, SameCall DEF Reached
<1>1. /\ e \notin pushed /\ e \in Due /\ Preceding(InView', e) \subseteq InView
      /\ \A x \in Due : (x = e \/ Before(x, e)) /\ x \in Here' => x \in Due'
  BY Zenon, <1>0, Unpushed
<1>2. Size(Preceding(Here \ Due, e)) <= nextpos
  BY Zenon, <1>1 DEF Reached
<1>3. Preceding(Here' \ Due', e) \subseteq Here \ Due
  <2>1. ASSUME NEW x \in Here', x \notin Due', Before(x, e)
        PROVE  x \in Here /\ x \notin Due
    <3>1. x \in InView /\ x \notin Due
      BY Zenon, <1>0, <1>1, <2>1 DEF Preceding
    <3> QED
      BY Zenon, <3>1 DEF View
  <2> QED
    BY Zenon, <2>1 DEF Preceding
<1>4. /\ Size(Preceding(Here' \ Due', e)) \in Nat /\ Size(Preceding(Here \ Due, e)) \in Nat
      /\ Size(Preceding(Here' \ Due', e)) <= Size(Preceding(Here \ Due, e))
  BY Zenon, <1>3, ViewFinite, PrecedingMonotone
<1> QED
  BY <1>0, <1>2, <1>4

\* What was passed stays behind.
LEMMA ChangePassed ==
  ASSUME FiniteFacts, TypeOK, View, View', Scanning, UNCHANGED scanVars, Observe, Passed
  PROVE  Passed'
<1>0. nextpos \in Nat /\ Scanning' /\ Due' \subseteq InView' /\ Here' \subseteq InView'
  BY Zenon, SameCall DEF TypeOK, View
<1> SUFFICES ASSUME NEW e \in Here', e \in Returned, e \notin Due', e \notin pushed'
             PROVE  /\ Preceding(Due', e) = {}
                    /\ Size(Preceding(Here', e)) + DirentSize(e.name) <= nextpos
  BY Zenon, SameCall DEF Passed
<1>1. /\ e \in InView /\ e \notin pushed /\ e \notin Due /\ Preceding(InView', e) \subseteq InView
      /\ \A x \in Due' : x = e \/ Before(x, e) => x \in Due
  BY Zenon, <1>0, Unpushed
<1>2. e \in Here
  BY Zenon, <1>1 DEF View
<1>3. Preceding(Due, e) = {} /\ Size(Preceding(Here, e)) + DirentSize(e.name) <= nextpos
  BY Zenon, <1>1, <1>2 DEF Passed
<1>4. Preceding(Due', e) = {}
  BY Zenon, <1>1, <1>3 DEF Preceding
<1>5. Preceding(Here', e) \subseteq Here
  <2>1. ASSUME NEW x \in Here', Before(x, e)
        PROVE  x \in Here
    <3>1. x \in InView /\ x \notin Due
      BY Zenon, <1>0, <1>1, <1>3, <2>1 DEF Preceding
    <3> QED
      BY Zenon, <3>1 DEF View
  <2> QED
    BY Zenon, <2>1 DEF Preceding
<1>6. /\ Size(Preceding(Here', e)) \in Nat /\ Size(Preceding(Here, e)) \in Nat
      /\ Size(Preceding(Here', e)) <= Size(Preceding(Here, e))
  BY Zenon, <1>5, ViewFinite, PrecedingMonotone
<1> QED
  BY <1>0, <1>3, <1>4, <1>6, DirentSizeType

\* A process that can be seen now and came before an entry of the last child was
\* in the list or could be seen.
LEMMA NoNewPid ==
  ASSUME View, View', Scanning, UNCHANGED scanVars, NEW e, Preceding(InView', e) \subseteq InView,
         OnProcess(e), NEW q \in VisiblePids', q < e.key
  PROVE  q \in list \cup VisiblePids
<1>1. Scanning' /\ dir' = dir
  BY Zenon, SameCall
<1>2. PICK x \in Here' : OnProcess(x)' /\ x.key = q
  BY Zenon, <1>1 DEF View, OnProcess
<1>3. OnProcess(x) /\ Before(x, e)
  BY Zenon, <1>1, <1>2 DEF OnProcess, Before
<1>4. x \in InView
  BY Zenon, <1>1, <1>2, <1>3 DEF View, Preceding
<1> QED
  BY Zenon, <1>2, <1>3, <1>4 DEF View, OnProcess

\* The pids of the list and those that may be seen are finitely many.
LEMMA PidsFinite ==
  ASSUME FiniteFacts, TypeOK, NEW k
  PROVE  IsFiniteSet({q \in list \cup VisiblePids : q < k}) /\ IsFiniteSet(list \cup VisiblePids)
<1>1. list \cup VisiblePids \in SUBSET Keys
  BY Zenon DEF TypeOK, VisiblePids, Keys
<1>2. {q \in list \cup VisiblePids : q < k} \in SUBSET Keys
  BY Zenon, <1>1
<1> QED
  BY Zenon, <1>1, <1>2, KeysFacts, FiniteSubset

\* No process came before an entry that is not excused.
LEMMA ChangeFits ==
  ASSUME FiniteFacts, TypeOK, TypeOK', View, View', Scanning, UNCHANGED scanVars, Observe, Fits
  PROVE  Fits'
<1>0. Scanning' /\ list' = list /\ Returned' = Returned /\ dir' = dir
  BY Zenon, SameCall
<1> SUFFICES ASSUME NEW e \in Returned \cup Pending', e \notin pushed', OnProcess(e)
             PROVE  Cardinality({q \in list \cup VisiblePids' : q < e.key}) < MaxProcs
  BY Zenon, <1>0 DEF Fits, OnProcess
<1>1. e \in Returned \cup InView' /\ Preceding(InView', e) \subseteq InView /\ e \notin pushed
  <2>1. e \in Returned \cup InView'
    BY Zenon, <1>0 DEF View
  <2> QED
    BY Zenon, <2>1, Observed
<1>2. e \in Returned \cup Pending
  <2>1. CASE e \in Pending'
    <3>1. e \in InView /\ Listing /\ e.slot = child /\ e.key \in list
      <4>1. e \in InView' /\ Listing' /\ e.slot = child' /\ e.key \in list'
        BY Zenon, <1>0, <2>1 DEF View
      <4>2. e \in InView
        BY Zenon, <4>1, Observed
      <4> QED
        BY Zenon, <4>1, <4>2, SameCall
    <3> QED
      BY Zenon, <3>1 DEF View
  <2> QED
    BY <2>1
<1>3. Cardinality({q \in list \cup VisiblePids : q < e.key}) < MaxProcs
  BY Zenon, <1>1, <1>2 DEF Fits
<1> DEFINE A == {q \in list \cup VisiblePids' : q < e.key}
           B == {q \in list \cup VisiblePids : q < e.key}
<1>4. A \in SUBSET B
  BY Zenon, <1>1, NoNewPid
<1>5. IsFiniteSet(B)
  BY Zenon, PidsFinite
<1> HIDE DEF A, B
<1>6. Cardinality(A) <= Cardinality(B) /\ IsFiniteSet(A)
  BY Zenon, <1>4, <1>5, FiniteSubset
<1>7. Cardinality(A) \in Nat /\ Cardinality(B) \in Nat
  BY Zenon, <1>5, <1>6, FiniteCardinality
<1>8. Cardinality(B) < MaxProcs
  BY Zenon, <1>3 DEF B
<1>9. Cardinality(A) < MaxProcs
  BY <1>6, <1>7, <1>8, PidsAssumption
<1> QED
  BY Zenon, <1>9 DEF A

\* The same for the pids that are still to be tried.
LEMMA ChangeProbed ==
  ASSUME TypeOK, Shape, View, View', Scanning, UNCHANGED scanVars, Observe, Probed
  PROVE  Probed'
<1>0. Scanning' /\ pc' = pc /\ list' = list /\ probe' = probe /\ child' = child /\ dir' = dir
  BY Zenon, SameCall
<1> SUFFICES ASSUME pc = "scan", NEW e \in Here', e \notin pushed', e.slot = child, e.key \in probe,
                    NEW q \in VisiblePids', q < e.key
             PROVE  q \in list \cup probe
  BY Zenon, <1>0 DEF Probed
<1>1. Listing /\ OnProcess(e)
  <2>1. Listing
    BY Zenon DEF Listing
  <2> QED
    BY Zenon, <2>1, ListingProcesses DEF OnProcess
<1>2. e \in InView /\ e \notin pushed /\ Preceding(InView', e) \subseteq InView
  <2>1. e \in InView'
    BY Zenon, <1>0 DEF View
  <2> QED
    BY Zenon, <2>1, Observed
<1>3. e \in Here
  <2>1. ASSUME e.key \in list
        PROVE  FALSE
    <3>1. e.key < e.key /\ e.key \in Pids
      BY Zenon, <2>1 DEF Shape, TypeOK
    <3>2. e.key \in Nat
      BY Zenon, <3>1, PidsAssumption
    <3> QED
      BY <3>1, <3>2
  <2> QED
    BY Zenon, <1>2, <2>1 DEF View
<1>4. q \in list \/ q \in VisiblePids
  BY Zenon, <1>1, <1>2, NoNewPid
<1> QED
  BY Zenon, <1>2, <1>3, <1>4 DEF Probed

\* What is kept of a scan between its steps and those of the system.
ScanInv == Missing /\ Repeat /\ Reached /\ Passed /\ Fits /\ Probed

\* A change of the system keeps the invariant.
LEMMA ScanInvSystem ==
  ASSUME FiniteFacts, TypeOK, Shape, TypeOK', Shape', ScanInv, System
  PROVE  ScanInv'
<1>1. UNCHANGED scanVars /\ Observe
  BY Zenon, SystemFacts
<1>2. CASE Scanning
  BY ZenonT(30), <1>1, <1>2, ViewHolds, ViewHoldsNext, ChangeMissing, ChangeRepeat, ChangeReached,
     ChangePassed, ChangeFits, ChangeProbed DEF ScanInv
<1>3. CASE ~Scanning
  <2>1. ~Scanning' /\ ~(pc = "scan")'
    BY Zenon, <1>1, <1>3, SameCall DEF Scanning
  <2> QED
    BY Zenon, <2>1 DEF ScanInv, Missing, Repeat, Reached, Passed, Fits, Probed
<1> QED
  BY <1>2, <1>3

-----------------------------------------------------------------------------
(* The steps of a call.                                                    *)

\* The entries of a directory depend on nothing but the system.
LEMMA SameEntries ==
  ASSUME UNCHANGED systemVars, NEW d, dir' = d
  PROVE  /\ Entries(dir)' = Entries(d) /\ Within(dir)' = Within(d) /\ VisiblePids' = VisiblePids
         /\ SysChildren(dir.object)' = SysChildren(d.object)
         /\ \A i, n : DynamicEntry(dir, i, n)' = DynamicEntry(d, i, n)
<1>0. /\ live' = live /\ denied' = denied /\ comm' = comm /\ fds' = fds /\ tids' = tids
      /\ release' = release /\ daemon' = daemon /\ oids' = oids /\ checked' = checked /\ dir' = d
  BY Zenon DEF systemVars
<1>1. VisiblePids' = VisiblePids
  BY Zenon, <1>0 DEF VisiblePids, CanAccess
<1>2. \A w : Hidden(w)' = Hidden(w)
  BY Zenon, <1>0 DEF Hidden
<1>3. MayShow(dir.pid)' = MayShow(d.pid)
  BY Zenon, <1>0 DEF MayShow, CanAccess
<1>4. \A i, n : DynamicEntry(dir, i, n)' = DynamicEntry(d, i, n)
  BY Zenon, <1>0 DEF DynamicEntry, DirName
<1>5. \A i : StaticEntry(dir, i)' = StaticEntry(d, i)
  BY Zenon, <1>0 DEF StaticEntry
<1>6. \A c : Members(dir, c)' = Members(d, c)
  BY Zenon, <1>0, <1>1 DEF Members, Objects, AllObjects
<1>7. \A i : SlotEntries(dir, i)' = SlotEntries(d, i)
  BY Zenon, <1>0, <1>4, <1>5, <1>6 DEF SlotEntries
<1>8. SysChildren(dir.object)' = SysChildren(d.object)
  BY Zenon, <1>0 DEF SysChildren
<1>9. Entries(dir)' = Entries(d)
  BY Zenon, <1>0, <1>2, <1>3, <1>7, <1>8 DEF Entries
<1>10. Within(dir)' = Within(d)
  BY ZenonT(30), <1>0, <1>1, <1>9 DEF Within
<1> QED
  BY Zenon, <1>1, <1>4, <1>8, <1>9, <1>10

\* A step of the scan leaves the directory as it is.
LEMMA SameDirectory ==
  ASSUME UNCHANGED <<systemVars, dir>>
  PROVE  /\ Here' = Here /\ Within(dir)' = Within(dir) /\ VisiblePids' = VisiblePids
         /\ OnSys' = OnSys /\ \A e : OnProcess(e)' = OnProcess(e)
         /\ \A e : Index(e)' = Index(e)
         /\ \A i, n : DynamicEntry(dir, i, n)' = DynamicEntry(dir, i, n)
<1>1. dir' = dir /\ UNCHANGED systemVars
  BY Zenon
<1>2. /\ Entries(dir)' = Entries(dir) /\ Within(dir)' = Within(dir) /\ VisiblePids' = VisiblePids
      /\ SysChildren(dir.object)' = SysChildren(dir.object)
      /\ \A i, n : DynamicEntry(dir, i, n)' = DynamicEntry(dir, i, n)
  BY Zenon, <1>1, SameEntries
<1>3. \A e : Index(e)' = Index(e)
  BY Zenon, <1>1, <1>2 DEF Index, OnSys
<1> QED
  BY Zenon, <1>1, <1>2, <1>3 DEF Here, OnSys, OnProcess

\* The entries of the list after a step that stays at the same child.
LEMMA PendingNext ==
  ASSUME UNCHANGED <<systemVars, dir, child>>, Listing'
  PROVE  Pending' = {DynamicEntry(dir, child, n) :
                        n \in {k \in list' : SNode = "__Process_N__" => k \in live}}
<1>1. live' = live /\ SNode' = SNode /\ dir' = dir /\ child' = child
  BY Zenon DEF systemVars, SNode
<1>2. \A i, n : DynamicEntry(dir, i, n)' = DynamicEntry(dir, i, n)
  BY Zenon, SameDirectory
<1>3. ~(pc' \notin {"scan", "emit"})
  BY Zenon DEF Listing
<1> QED
  BY Zenon, <1>1, <1>2, <1>3 DEF Pending

\* The next entry is copied, or passed over as it lies before the start
\* position: none is missed and none copied twice.
LEMMA VisitMissing ==
  ASSUME FiniteFacts, TypeOK, Shape, View, Scanning, Scanning', Missing, NEW x \in Due, CopyOut(x),
         \A y \in Due : y # x => Before(x, y), Due' = Due \ {x},
         list' \subseteq list, Listing' => Listing /\ child' = child
  PROVE  Missing'
<1>1. /\ Here' = Here /\ Within(dir)' = Within(dir) /\ steady' = steady /\ startpos' = startpos
      /\ nextpos' = nextpos + DirentSize(x.name)
  BY Zenon, SameDirectory DEF CopyOut, historyVars
<1>2. /\ nextpos \in Nat /\ startpos \in Nat /\ DirentSize(x.name) \in Nat
      /\ Returned' = IF BeforeStart THEN Returned ELSE Returned \cup {x}
  <2>1. DirentSize(x.name) \in Nat
    BY DirentSizeType
  <2> QED
    BY Zenon, <2>1, Copied DEF TypeOK
<1>3. IsFiniteSet(Here) /\ IsFiniteSet(Due)
  BY Zenon, ViewFinite
<1> SUFFICES ASSUME NEW e \in steady, e \notin Returned'
             PROVE  Coming(e)'
  BY Zenon, <1>1 DEF Missing
<1>4. e \in Within(dir) /\ Coming(e)
  BY Zenon, <1>2 DEF Missing
<1>5. /\ e \in Due /\ nextpos <= Size(Preceding(Here \ Due, e))
      /\ startpos <= nextpos + Size(Preceding(Due, e))
      /\ Listing => \A n \in list : n < e.key => \E y \in Here : y.slot = child /\ y.key = n
  BY Zenon, <1>4 DEF Coming
<1>6. e # x
  <2> SUFFICES ASSUME e = x
               PROVE  FALSE
    OBVIOUS
  <2>1. Preceding(Due, e) = {}
    <3>1. \A y, z \in Due : ~(Before(y, z) /\ Before(z, y)) /\ ~Before(y, y)
      <4>1. Placed(InView) /\ Due \subseteq InView
        BY Zenon DEF View
      <4> QED
        BY Zenon, <4>1, PlacedOrder
    <3> QED
      BY Zenon, <3>1 DEF Preceding
  <2>2. nextpos < startpos
    BY Zenon, <1>2 DEF BeforeStart
  <2> QED
    BY <1>2, <1>5, <2>1, <2>2, SizeEmpty
<1>7. Before(x, e) /\ x \in Here
  BY Zenon, <1>4, <1>5, <1>6, ComingBefore
<1>8. /\ Size(Preceding(Due \ {x}, e)) \in Nat
      /\ Size(Preceding(Due, e)) = Size(Preceding(Due \ {x}, e)) + DirentSize(x.name)
  BY Zenon, <1>3, <1>7, PrecedingShrinks
<1>9. /\ Size(Preceding(Here \ Due, e)) \in Nat
      /\ Size(Preceding(Here \ (Due \ {x}), e)) = Size(Preceding(Here \ Due, e)) + DirentSize(x.name)
  <2>1. Size(Preceding(Here \ (Due \ {x}), e)) = Size(Preceding(Here \ Due, e)) + DirentSize(x.name)
    BY <1>3, <1>7, PrecedingGrowsBy
  <2>2. Size(Preceding(Here \ Due, e)) \in Nat
    BY Zenon, <1>3, PrecedingGrows
  <2> QED
    BY Zenon, <2>1, <2>2
<1>10. /\ nextpos' <= Size(Preceding(Here' \ Due', e))
       /\ startpos' <= nextpos' + Size(Preceding(Due', e))
  <2>1. /\ nextpos + DirentSize(x.name) <= Size(Preceding(Here \ (Due \ {x}), e))
        /\ startpos <= nextpos + DirentSize(x.name) + Size(Preceding(Due \ {x}, e))
    BY <1>2, <1>5, <1>8, <1>9
  <2> QED
    BY Zenon, <1>1, <2>1
<1>11. (Listing => \A n \in list : n < e.key => \E y \in Here : y.slot = child /\ y.key = n)'
  BY Zenon, <1>1, <1>5
<1>12. e \in Due'
  BY Zenon, <1>5, <1>6
<1> QED
  BY Zenon, <1>10, <1>11, <1>12 DEF Coming

\* The call moves by what is no longer before an entry that is due.
LEMMA VisitRepeat ==
  ASSUME FiniteFacts, TypeOK, Shape, View, Scanning, Scanning', Repeat, NEW x \in Due, CopyOut(x),
         \A y \in Due : y # x => Before(x, y), Due' = Due \ {x}
  PROVE  Repeat'
<1>1. /\ pushed' = pushed /\ startpos' = startpos /\ nextpos' = nextpos + DirentSize(x.name)
  BY Zenon DEF CopyOut, historyVars
<1>2. /\ nextpos \in Nat /\ startpos \in Nat /\ DirentSize(x.name) \in Nat
      /\ Returned' = IF BeforeStart THEN Returned ELSE Returned \cup {x}
  <2>1. DirentSize(x.name) \in Nat
    BY DirentSizeType
  <2> QED
    BY Zenon, <2>1, Copied DEF TypeOK
<1> SUFFICES ASSUME NEW e \in Due \ {x}, e \in Returned', e \notin pushed
             PROVE  nextpos' + Size(Preceding(Due', e)) + DirentSize(e.name) <= startpos
  BY Zenon, <1>1 DEF Repeat
<1>3. e \in Due /\ e \in Returned /\ Before(x, e)
  BY Zenon, <1>2
<1>4. nextpos + Size(Preceding(Due, e)) + DirentSize(e.name) <= startpos
  BY Zenon, <1>3 DEF Repeat
<1>5. /\ Size(Preceding(Due \ {x}, e)) \in Nat
      /\ Size(Preceding(Due, e)) = Size(Preceding(Due \ {x}, e)) + DirentSize(x.name)
  BY Zenon, <1>3, ViewFinite, PrecedingShrinks
<1>6. nextpos + DirentSize(x.name) + Size(Preceding(Due \ {x}, e)) + DirentSize(e.name) <= startpos
  BY <1>2, <1>4, <1>5, DirentSizeType
<1> QED
  BY Zenon, <1>1, <1>6

\* It moves by what it leaves behind.
LEMMA VisitReached ==
  ASSUME FiniteFacts, TypeOK, View, Scanning, Scanning', Reached, NEW x \in Due, CopyOut(x), Due' = Due \ {x}
  PROVE  Reached'
<1>1. Here' = Here /\ pushed' = pushed /\ nextpos' = nextpos + DirentSize(x.name)
  BY Zenon, SameDirectory DEF CopyOut, historyVars
<1>2. nextpos \in Nat /\ DirentSize(x.name) \in Nat
  BY DirentSizeType DEF TypeOK
<1> SUFFICES ASSUME NEW e \in Due \ {x}, e \notin pushed
             PROVE  Size(Preceding(Here \ (Due \ {x}), e)) <= nextpos'
  BY Zenon, <1>1 DEF Reached
<1>3. Size(Preceding(Here \ Due, e)) <= nextpos
  BY Zenon DEF Reached
<1>4. /\ Size(Preceding(Here \ Due, e)) \in Nat /\ Size(Preceding(Here \ (Due \ {x}), e)) \in Nat
      /\ Size(Preceding(Here \ (Due \ {x}), e)) <= Size(Preceding(Here \ Due, e)) + DirentSize(x.name)
  BY Zenon, ViewFinite, PrecedingGrows
<1> QED
  BY <1>1, <1>2, <1>3, <1>4

\* The entry it has copied, or passed over, is behind it.
LEMMA VisitPassed ==
  ASSUME FiniteFacts, TypeOK, Shape, View, Scanning, Scanning', Reached, Passed, NEW x \in Due, CopyOut(x),
         \A y \in Due : y # x => Before(x, y), Due' = Due \ {x}
  PROVE  Passed'
<1>1. Here' = Here /\ pushed' = pushed /\ nextpos' = nextpos + DirentSize(x.name)
  BY Zenon, SameDirectory DEF CopyOut, historyVars
<1>2. /\ nextpos \in Nat /\ DirentSize(x.name) \in Nat
      /\ Returned' = IF BeforeStart THEN Returned ELSE Returned \cup {x}
  <2>1. DirentSize(x.name) \in Nat
    BY DirentSizeType
  <2> QED
    BY Zenon, <2>1, Copied DEF TypeOK
<1>3. /\ Placed(InView) /\ Due \subseteq InView /\ Here \subseteq InView
      /\ IsFiniteSet(Here) /\ IsFiniteSet(Due)
  BY Zenon, ViewFinite DEF View
<1> SUFFICES ASSUME NEW e \in Here, e \in Returned', e \notin Due \ {x}, e \notin pushed
             PROVE  /\ Preceding(Due \ {x}, e) = {}
                    /\ Size(Preceding(Here, e)) + DirentSize(e.name) <= nextpos'
  BY Zenon, <1>1 DEF Passed
<1>4. CASE e = x
  <2>1. Preceding(Due, x) = {}
    <3>1. \A y, z \in Due : ~(Before(y, z) /\ Before(z, y)) /\ ~Before(y, y)
      BY Zenon, <1>3, PlacedOrder
    <3> QED
      BY Zenon, <3>1 DEF Preceding
  <2>2. Preceding(Due \ {x}, x) = {} /\ Preceding(Here, x) = Preceding(Here \ Due, x)
    BY Zenon, <2>1 DEF Preceding
  <2>3. Size(Preceding(Here \ Due, x)) <= nextpos
    BY Zenon, <1>4 DEF Reached
  <2>4. Size(Preceding(Here \ Due, x)) \in Nat
    BY Zenon, <1>3, PrecedingGrows
  <2>5. Size(Preceding(Here \ Due, x)) + DirentSize(x.name) <= nextpos + DirentSize(x.name)
    BY <1>2, <2>3, <2>4
  <2> QED
    BY Zenon, <1>1, <1>4, <2>2, <2>5
<1>5. CASE e # x
  <2>1. Preceding(Due, e) = {} /\ Size(Preceding(Here, e)) + DirentSize(e.name) <= nextpos
    BY Zenon, <1>2, <1>5 DEF Passed
  <2>2. Preceding(Due \ {x}, e) = {}
    BY Zenon, <2>1 DEF Preceding
  <2>3. Size(Preceding(Here, e)) \in Nat
    <3>1. Preceding(Here, e) \in SUBSET Here
      BY Zenon DEF Preceding
    <3> QED
      BY Zenon, <1>3, <3>1, SizeMonotone
  <2>4. Size(Preceding(Here, e)) + DirentSize(e.name) <= nextpos + DirentSize(x.name)
    BY <1>2, <2>1, <2>3, DirentSizeType
  <2> QED
    BY Zenon, <1>1, <2>2, <2>4
<1> QED
  BY Zenon, <1>4, <1>5

\* The pids that count against an entry only become fewer.
LEMMA FewerPids ==
  ASSUME FiniteFacts, TypeOK, NEW S, NEW T, IsFiniteSet(T), S \subseteq T, NEW k,
         Cardinality({q \in T : q < k}) < MaxProcs
  PROVE  Cardinality({q \in S : q < k}) < MaxProcs
<1> DEFINE U == {q \in T : q < k}
           V == {q \in S : q < k}
<1>1. V \subseteq U /\ U \subseteq T
  OBVIOUS
<1>2. Cardinality(U) < MaxProcs
  OBVIOUS
<1> HIDE DEF U, V
<1>3. IsFiniteSet(U) /\ IsFiniteSet(V)
  BY Zenon, <1>1, FiniteSubset
<1>4. Cardinality(V) <= Cardinality(U) /\ Cardinality(V) \in Nat /\ Cardinality(U) \in Nat
  BY Zenon, <1>1, <1>3, FiniteSubset, FiniteCardinality
<1>5. Cardinality(V) < MaxProcs
  BY <1>2, <1>4, PidsAssumption
<1> QED
  BY Zenon, <1>5 DEF V

\* The entry was in the list, or is not one for a process.
LEMMA VisitFits ==
  ASSUME FiniteFacts, TypeOK, Shape, View, Scanning, Scanning', Fits, NEW x \in Due, CopyOut(x),
         list' \subseteq list, Pending' \subseteq Pending, x \in Pending \/ ~OnProcess(x)
  PROVE  Fits'
<1>1. /\ VisiblePids' = VisiblePids /\ pushed' = pushed /\ \A e : OnProcess(e)' = OnProcess(e)
      /\ Returned' = IF BeforeStart THEN Returned ELSE Returned \cup {x}
  BY Zenon, SameDirectory, Copied DEF CopyOut, historyVars
<1> SUFFICES ASSUME NEW e, e \in Returned' \/ e \in Pending', e \notin pushed, OnProcess(e)
             PROVE  Cardinality({q \in list' \cup VisiblePids : q < e.key}) < MaxProcs
  BY Zenon, <1>1 DEF Fits
<1>2. e \in Returned \/ e \in Pending
  BY Zenon, <1>1
<1>3. Cardinality({q \in list \cup VisiblePids : q < e.key}) < MaxProcs
  BY Zenon, <1>2 DEF Fits
<1> QED
  BY Zenon, <1>3, PidsFinite, FewerPids

\* An entry that is copied was not returned before.
LEMMA VisitTwice ==
  ASSUME FiniteFacts, TypeOK, Shape, View, Scanning, Repeat, NoneTwice, NEW x \in Due, CopyOut(x)
  PROVE  NoneTwice'
<1>1. CASE BeforeStart
  <2>1. listed' = listed /\ pushed' = pushed
    BY Zenon, <1>1 DEF CopyOut, historyVars
  <2> QED
    BY Zenon, <2>1 DEF NoneTwice
<1>2. CASE ~BeforeStart
  <2>1. listed' = Append(listed, x) /\ pushed' = pushed
    BY Zenon, <1>2 DEF CopyOut, historyVars
  <2>2. /\ Len(listed) \in Nat /\ DOMAIN listed = 1 .. Len(listed)
        /\ DOMAIN Append(listed, x) = 1 .. Len(listed) + 1
        /\ \A i \in DOMAIN listed : Append(listed, x)[i] = listed[i]
        /\ Append(listed, x)[Len(listed) + 1] = x
    <3>1. listed \in Seq(Returned)
      BY Zenon DEF Shape
    <3> QED
      BY <3>1, SeqAppend
  <2>3. x \in Returned => x \in pushed
    <3> SUFFICES ASSUME x \in Returned, x \notin pushed
                 PROVE  FALSE
      OBVIOUS
    <3>1. nextpos + Size(Preceding(Due, x)) + DirentSize(x.name) <= startpos
      BY Zenon DEF Repeat
    <3>2. Size(Preceding(Due, x)) \in Nat
      <4>1. Preceding(Due, x) \in SUBSET Due
        BY Zenon DEF Preceding
      <4> QED
        BY Zenon, <4>1, ViewFinite, SizeMonotone
    <3>3. nextpos \in Nat /\ startpos \in Nat /\ ~(nextpos < startpos)
      BY Zenon, <1>2 DEF TypeOK, BeforeStart
    <3> QED
      BY <3>1, <3>2, <3>3, DirentSizeType
  <2> SUFFICES ASSUME NEW i \in DOMAIN Append(listed, x), NEW j \in DOMAIN Append(listed, x), i < j,
                      Append(listed, x)[i] = Append(listed, x)[j]
               PROVE  Append(listed, x)[i] \in pushed
    BY Zenon, <2>1 DEF NoneTwice
  <2>4. i \in DOMAIN listed /\ (j \in DOMAIN listed \/ j = Len(listed) + 1)
    BY <2>2
  <2>5. Append(listed, x)[i] = listed[i] /\ listed[i] \in Returned
    BY Zenon, <2>2, <2>4 DEF Returned
  <2> QED
    BY Zenon, <2>2, <2>3, <2>4, <2>5 DEF NoneTwice
<1> QED
  BY Zenon, <1>1, <1>2

\* The invariant, when the next entry is copied or passed over.
LEMMA Visit ==
  ASSUME FiniteFacts, TypeOK, Shape, ScanInv, NoneTwice, NEW x \in Due, CopyOut(x),
         pc \in {"walk", "emit"}, pc' = pc,
         \A y \in Due : y # x => Before(x, y), Due' = Due \ {x},
         list' \subseteq list, Listing' => child' = child,
         Pending' \subseteq Pending, x \in Pending \/ ~OnProcess(x)
  PROVE  ScanInv' /\ NoneMissed' /\ NoneTwice'
<1>1. Scanning /\ Scanning' /\ pc' # "scan" /\ pc' # "done" /\ (Listing' => Listing)
  BY DEF Scanning, Listing
<1>2. View
  BY Zenon, ViewHolds
<1>3. Missing'
  BY ZenonT(30), <1>1, <1>2, VisitMissing DEF ScanInv
<1>4. Repeat'
  BY Zenon, <1>1, <1>2, VisitRepeat DEF ScanInv
<1>5. Reached'
  BY Zenon, <1>1, <1>2, VisitReached DEF ScanInv
<1>6. Passed'
  BY Zenon, <1>1, <1>2, VisitPassed DEF ScanInv
<1>7. Fits'
  BY Zenon, <1>1, <1>2, VisitFits DEF ScanInv
<1>8. NoneTwice'
  BY Zenon, <1>1, <1>2, VisitTwice DEF ScanInv
<1>9. Probed' /\ NoneMissed'
  BY Zenon, <1>1 DEF Probed, NoneMissed, Finished
<1> QED
  BY Zenon, <1>3, <1>4, <1>5, <1>6, <1>7, <1>8, <1>9 DEF ScanInv

\* The walk copies the child it is at.
LEMMA WalkVisit ==
  ASSUME FiniteFacts, TypeOK, Shape, ScanInv, NoneTwice, pc = "walk", NEW x \in Here, Index(x) >= child,
         \A y \in Here : y # x /\ Index(y) >= child => Index(y) >= child + 1 /\ Before(x, y),
         ~(Index(x) >= child + 1), \A y \in Here : Index(y) >= child + 1 => Index(y) >= child,
         ~OnProcess(x), CopyOut(x), child' = child + 1, UNCHANGED <<pc, list>>
  PROVE  ScanInv' /\ NoneMissed' /\ NoneTwice'
<1>1. Here' = Here /\ \A e : Index(e)' = Index(e)
  BY Zenon, SameDirectory DEF CopyOut
<1>2. Due = {y \in Here : Index(y) >= child}
  BY Zenon, DueIs
<1>3. Due' = {y \in Here : Index(y) >= child + 1}
  <2>1. pc' = "walk"
    BY Zenon
  <2>2. Due' = {y \in Here' : Index(y)' >= child'}
    BY Zenon, <2>1, DueIsNext
  <2> QED
    BY Zenon, <1>1, <2>2
<1>4. x \in Due /\ (\A y \in Due : y # x => Before(x, y)) /\ Due' = Due \ {x}
  BY Zenon, <1>2, <1>3
<1>5. pc \in {"walk", "emit"} /\ pc' = pc /\ list' \subseteq list /\ ~Listing' /\ Pending' = {}
  <2>1. "walk" \notin {"scan", "emit"}
    OBVIOUS
  <2> QED
    BY Zenon, <2>1 DEF Listing, Pending
<1> QED
  BY Zenon, <1>4, <1>5, Visit

\* A child that stands for itself.
LEMMA CopyChildStep ==
  ASSUME FiniteFacts, TypeOK, Shape, ScanInv, NoneTwice, pc = "walk", ~OnSys, ~AtEnd,
         ~Hidden(SNode), MayShow(dir.pid), SNode \notin Dynamic,
         CopyOut(StaticEntry(dir, child)), child' = child + 1, UNCHANGED <<pc, list>>
  PROVE  ScanInv' /\ NoneMissed' /\ NoneTwice'
<1> DEFINE x == StaticEntry(dir, child)
<1>1. Scanning /\ child \in Nat /\ child > 0 /\ dir.base \in DirBases
  BY CallTypes, DirectoryFacts DEF Scanning
<1>2. child \in 1 .. Len(Children(dir.base)) /\ child \in DOMAIN Children(dir.base)
  <2>1. Len(Children(dir.base)) \in 3 .. 7 /\ DOMAIN Children(dir.base) = 1 .. Len(Children(dir.base))
    BY Zenon, <1>1, ChildrenFacts
  <2>2. ~(child > Len(Children(dir.base)))
    BY Zenon DEF AtEnd
  <2> QED
    BY <1>1, <2>1, <2>2
<1>3. \A n : EntryAt(child, n) = x
  BY Zenon DEF EntryAt, SNode
<1>4. x \in Here
  BY Zenon, <1>1, <1>2, <1>3, TreeEntry DEF SNode
<1>5. x.slot = child
  BY DEF StaticEntry
<1> HIDE DEF x
<1>6. \A y \in Here : Index(y) = y.slot /\ y.slot \in Nat /\ y = EntryAt(y.slot, y.key)
  <2>1. \A y \in Here : Index(y) = y.slot
    BY Zenon DEF Index
  <2>2. \A y \in Here : y.slot \in 1 .. Len(Children(dir.base)) /\ y = EntryAt(y.slot, y.key)
    BY Zenon, <1>1, TreeEntries
  <2>3. \A y \in Here : y.slot \in Nat
    BY <2>2
  <2> QED
    BY Zenon, <2>1, <2>2, <2>3
<1>7. \A y \in Here : y # x => Index(y) # child
  BY Zenon, <1>3, <1>6
<1>8. \A y \in Here : /\ y # x /\ Index(y) >= child => Index(y) >= child + 1 /\ x.slot < y.slot
                      /\ Index(y) >= child + 1 => Index(y) >= child
  <2> SUFFICES ASSUME NEW y \in Here
               PROVE  /\ y # x /\ Index(y) >= child => Index(y) >= child + 1 /\ x.slot < y.slot
                      /\ Index(y) >= child + 1 => Index(y) >= child
    OBVIOUS
  <2>1. Index(y) = y.slot /\ y.slot \in Nat /\ (y # x => Index(y) # child)
    BY Zenon, <1>6, <1>7
  <2> QED
    BY <1>1, <1>5, <2>1
<1>9. Index(x) >= child /\ ~(Index(x) >= child + 1)
  <2>1. Index(x) = child
    BY Zenon, <1>4, <1>5, <1>6
  <2> QED
    BY <1>1, <2>1
<1>10. ~OnProcess(x)
  <2>1. dir.base \in {"root", "byname"} => Children(dir.base)[Len(Children(dir.base))] \in Dynamic
    BY Zenon, <1>1, ChildrenFacts DEF Dynamic
  <2> QED
    BY Zenon, <1>5, <2>1 DEF OnProcess, SNode
<1>11. \A y \in Here : y # x /\ Index(y) >= child => Index(y) >= child + 1 /\ Before(x, y)
  BY Zenon, <1>8 DEF Before
<1>12. CopyOut(x)
  BY Zenon DEF x
<1> QED
  BY Zenon, <1>4, <1>8, <1>9, <1>10, <1>11, <1>12, WalkVisit

\* The entry of /proc/sys with the index the walk is at.
LEMMA SysVisit ==
  ASSUME FiniteFacts, TypeOK, Shape, ScanInv, NoneTwice, pc = "walk", OnSys, NEW x \in Here, Index(x) = child,
         CopyOut(x), child' = child + 1, UNCHANGED <<pc, list>>
  PROVE  ScanInv' /\ NoneMissed' /\ NoneTwice'
<1>1. Scanning /\ child \in Nat
  BY CallTypes DEF Scanning
<1>2. /\ \A y \in Here : Index(y) \in Nat
      /\ \A y, z \in Here : Before(y, z) => Index(y) < Index(z)
  BY Zenon, <1>1, SysIndex
<1>3. \A y \in Here : y # x => Before(x, y) \/ Before(y, x)
  <2>1. Placed(InView) /\ Here \subseteq InView
    BY Zenon, <1>1, ViewHolds DEF View
  <2> QED
    BY Zenon, <2>1, PlacedOrder
<1>4. \A y \in Here : /\ y # x /\ Index(y) >= child => Index(y) >= child + 1 /\ Before(x, y)
                      /\ Index(y) >= child + 1 => Index(y) >= child
  <2> SUFFICES ASSUME NEW y \in Here
               PROVE  /\ y # x /\ Index(y) >= child => Index(y) >= child + 1 /\ Before(x, y)
                      /\ Index(y) >= child + 1 => Index(y) >= child
    OBVIOUS
  <2>1. /\ Index(y) \in Nat /\ (y # x => Before(x, y) \/ Before(y, x))
        /\ Before(x, y) => child < Index(y)
        /\ Before(y, x) => Index(y) < child
    BY Zenon, <1>2, <1>3
  <2> QED
    BY <1>1, <2>1
<1>5. Index(x) >= child /\ ~(Index(x) >= child + 1)
  BY <1>1
<1>6. ~OnProcess(x)
  BY DEF OnProcess, OnSys
<1> QED
  BY Zenon, <1>4, <1>5, <1>6, WalkVisit

\* A dot of /proc/sys.
LEMMA CopySysDotStep ==
  ASSUME FiniteFacts, TypeOK, Shape, ScanInv, NoneTwice, pc = "walk", OnSys, child <= 2,
         CopyOut(SysDot(dir, child)), child' = child + 1, UNCHANGED <<pc, list>>
  PROVE  ScanInv' /\ NoneMissed' /\ NoneTwice'
<1> DEFINE x == SysDot(dir, child)
<1>1. Scanning /\ child \in Nat /\ child > 0
  BY CallTypes DEF Scanning
<1>2. child \in 1 .. 2 /\ child < 3
  BY <1>1
<1>3. x \in Here
  BY Zenon, <1>2 DEF Here, Entries, OnSys
<1>4. x.slot = child
  BY DEF SysDot
<1> HIDE DEF x
<1>5. Index(x) = child
  BY Zenon, <1>1, <1>2, <1>3, <1>4, SysIndex
<1>6. CopyOut(x)
  BY Zenon DEF x
<1> QED
  BY Zenon, <1>3, <1>5, <1>6, SysVisit

\* A child of the oid, found by its index.
LEMMA CopySysChildStep ==
  ASSUME FiniteFacts, TypeOK, Shape, ScanInv, NoneTwice, pc = "walk", OnSys, child > 2,
         NEW o \in SysChildAt(dir.object, child - 3),
         CopyOut(SysEntry(dir, o)), child' = child + 1, UNCHANGED <<pc, list>>
  PROVE  ScanInv' /\ NoneMissed' /\ NoneTwice'
<1> DEFINE x == SysEntry(dir, o)
<1>1. Scanning /\ child \in Nat
  BY CallTypes DEF Scanning
<1>2. /\ o \in SysChildren(dir.object)
      /\ Cardinality({q \in SysChildren(dir.object) : q < o}) = child - 3
  BY Zenon DEF SysChildAt
<1>3. x \in Here
  BY Zenon, <1>2 DEF Here, Entries, OnSys
<1>4. x.slot = 3 /\ x.key = o
  BY DEF SysEntry
<1> HIDE DEF x
<1>5. Index(x) = 3 + (child - 3)
  BY Zenon, <1>2, <1>4 DEF Index
<1>6. Index(x) = child
  BY <1>1, <1>5
<1>7. CopyOut(x)
  BY Zenon DEF x
<1> QED
  BY Zenon, <1>3, <1>6, <1>7, SysVisit

\* The first of the list is copied.
LEMMA CopyDynamicStep ==
  ASSUME FiniteFacts, TypeOK, Shape, ScanInv, NoneTwice, pc = "emit", NEW n \in First(list),
         SNode = "__Process_N__" => n \in live,
         CopyOut(DynamicEntry(dir, child, n)), list' = list \ {n}, UNCHANGED <<pc, child>>
  PROVE  ScanInv' /\ NoneMissed' /\ NoneTwice'
<1> DEFINE e(k) == DynamicEntry(dir, child, k)
           ok(k) == SNode = "__Process_N__" => k \in live
<1>1. Scanning /\ Listing /\ Listing' /\ pc \in {"walk", "emit"} /\ pc' = "emit"
  BY DEF Scanning, Listing
<1>2. \A k : e(k).slot = child /\ e(k).key = k
  BY DEF DynamicEntry
<1>3. Pending = {e(k) : k \in {m \in list : ok(m)}} /\ Pending' = {e(k) : k \in {m \in list' : ok(m)}}
  <2>1. UNCHANGED <<systemVars, dir, child>>
    BY Zenon DEF CopyOut
  <2>2. Pending' = {e(k) : k \in {m \in list' : ok(m)}}
    BY Zenon, <1>1, <2>1, PendingNext
  <2>3. ~(pc \notin {"scan", "emit"})
    BY Zenon, <1>1 DEF Listing
  <2> QED
    BY Zenon, <2>2, <2>3 DEF Pending
<1>4. ok(n) /\ CopyOut(e(n))
  BY Zenon
<1> HIDE DEF e, ok
<1>5. Due = Pending /\ Due' = Pending'
  BY Zenon, <1>1, DueIs, DueIsNext
<1>6. n \in list /\ \A k \in list : n <= k
  BY Zenon DEF First
<1>7. e(n) \in Pending /\ Pending' = Pending \ {e(n)}
  <2>1. \A y : y \in Pending <=> \E k \in list : ok(k) /\ y = e(k)
    BY Zenon, <1>3
  <2>2. \A y : y \in Pending' <=> \E k \in list : k # n /\ ok(k) /\ y = e(k)
    BY Zenon, <1>3
  <2>3. \A k : e(k) = e(n) => k = n
    BY <1>2
  <2>4. \A y : y \in Pending' <=> y \in Pending /\ y # e(n)
    BY Zenon, <2>1, <2>2, <2>3
  <2> QED
    BY Zenon, <1>4, <1>6, <2>1, <2>4
<1>8. \A y \in Pending : y # e(n) => Before(e(n), y)
  <2> SUFFICES ASSUME NEW k \in list, k # n
               PROVE  n < k
    BY Zenon, <1>2, <1>3 DEF Before
  <2>1. n \in Nat /\ k \in Nat /\ n <= k
    <3>1. list \subseteq Nat
      BY Zenon, PidsAssumption, ObjectsAssumption DEF TypeOK
    <3> QED
      BY Zenon, <1>6, <3>1
  <2> QED
    BY <2>1
<1> QED
  BY Zenon, <1>1, <1>4, <1>5, <1>7, <1>8, Visit

\* A step that copies nothing and leaves what is due as it is.
LEMMA Stay ==
  ASSUME TypeOK, Shape, ScanInv, NoneTwice, Scanning, Scanning', Due' = Due,
         UNCHANGED <<systemVars, dir, historyVars, startpos, nextpos, listed>>,
         Listing => child' = child,
         \A n \in list' : (Listing /\ n \in list) \/ \E x \in Here : x.slot = child' /\ x.key = n,
         Fits', Probed'
  PROVE  ScanInv' /\ NoneMissed' /\ NoneTwice'
<1>1. /\ Here' = Here /\ Within(dir)' = Within(dir) /\ steady' = steady /\ pushed' = pushed
      /\ startpos' = startpos /\ nextpos' = nextpos /\ listed' = listed
  BY Zenon, SameDirectory DEF historyVars
<1>2. Returned' = Returned
  BY Zenon, <1>1 DEF Returned
<1>3. Missing'
  <2> SUFFICES ASSUME NEW e \in steady, e \notin Returned
               PROVE  Coming(e)'
    BY Zenon, <1>1, <1>2 DEF ScanInv, Missing
  <2>1. Coming(e)
    BY Zenon DEF ScanInv, Missing
  <2>2. (Listing => \A n \in list : n < e.key => \E x \in Here : x.slot = child /\ x.key = n)'
    BY Zenon, <1>1, <2>1 DEF Coming
  <2>3. /\ e \in Due' /\ nextpos' <= Size(Preceding(Here' \ Due', e))
        /\ startpos' <= nextpos' + Size(Preceding(Due', e))
    BY Zenon, <1>1, <2>1 DEF Coming
  <2> QED
    BY Zenon, <2>1, <2>2, <2>3 DEF Coming
<1>4. Repeat'
  BY Zenon, <1>1, <1>2 DEF ScanInv, Repeat
<1>5. Reached'
  BY Zenon, <1>1 DEF ScanInv, Reached
<1>6. Passed'
  BY Zenon, <1>1, <1>2 DEF ScanInv, Passed
<1>7. NoneMissed' /\ NoneTwice'
  <2>1. pc' # "done"
    BY DEF Scanning
  <2> QED
    BY Zenon, <1>1, <2>1 DEF NoneMissed, NoneTwice, Finished
<1> QED
  BY Zenon, <1>3, <1>4, <1>5, <1>6, <1>7 DEF ScanInv

\* The list only becomes shorter.
LEMMA FitsFewer ==
  ASSUME FiniteFacts, TypeOK, Scanning, Scanning', Fits,
         UNCHANGED <<systemVars, dir, historyVars, listed>>,
         list' \subseteq list, Pending' \subseteq Pending
  PROVE  Fits'
<1>1. /\ VisiblePids' = VisiblePids /\ pushed' = pushed /\ \A e : OnProcess(e)' = OnProcess(e)
  BY Zenon, SameDirectory DEF historyVars
<1>2. Returned' = Returned
  BY Zenon DEF Returned
<1> SUFFICES ASSUME NEW e, e \in Returned \/ e \in Pending, e \notin pushed, OnProcess(e)
             PROVE  Cardinality({q \in list' \cup VisiblePids : q < e.key}) < MaxProcs
  BY Zenon, <1>1, <1>2 DEF Fits
<1>3. Cardinality({q \in list \cup VisiblePids : q < e.key}) < MaxProcs
  BY Zenon DEF Fits
<1> QED
  BY Zenon, <1>3, PidsFinite, FewerPids

\* A child that is not shown has no entries.
LEMMA SkipChildStep ==
  ASSUME FiniteFacts, TypeOK, Shape, ScanInv, NoneTwice, SkipChild
  PROVE  ScanInv' /\ NoneMissed' /\ NoneTwice'
<1>1. /\ pc = "walk" /\ pc' = "walk" /\ ~OnSys /\ list' = list /\ child' = child + 1
      /\ UNCHANGED <<systemVars, dir, historyVars, startpos, nextpos, listed>>
      /\ Hidden(SNode) \/ ~MayShow(dir.pid)
  BY Zenon DEF SkipChild
<1>2. /\ Scanning /\ Scanning' /\ ~Listing /\ pc' \notin {"scan", "emit"} /\ pc' # "scan"
      /\ child \in Nat
  BY <1>1 DEF Scanning, Listing, TypeOK
<1>3. list' = {} /\ Pending' = {} /\ Probed'
  BY Zenon, <1>1, <1>2 DEF Shape, Pending, Probed
<1>4. Due' = Due
  <2>1. Due = {y \in Here : Index(y) >= child} /\ Due' = {y \in Here' : Index(y)' >= child + 1}
    BY Zenon, <1>1, DueIs, DueIsNext
  <2>2. Here' = Here /\ \A y : Index(y)' = Index(y)
    BY Zenon, <1>1, SameDirectory
  <2>3. ASSUME NEW y \in Here
        PROVE  Index(y) >= child <=> Index(y) >= child + 1
    <3>1. y.slot \in 1 .. Len(Children(dir.base)) /\ y.slot # child
      BY Zenon, <1>1, <1>2, TreeEntries DEF SNode
    <3>2. Index(y) = y.slot
      BY Zenon, <1>1 DEF Index
    <3> QED
      BY <1>2, <3>1, <3>2
  <2> QED
    BY Zenon, <2>1, <2>2, <2>3
<1>5. Fits'
  BY Zenon, <1>1, <1>2, <1>3, FitsFewer DEF ScanInv
<1> QED
  BY Zenon, <1>1, <1>2, <1>3, <1>4, <1>5, Stay

\* A process of the list that is gone had no entry in byname.
LEMMA DropGoneStep ==
  ASSUME FiniteFacts, TypeOK, Shape, ScanInv, NoneTwice, DropGone
  PROVE  ScanInv' /\ NoneMissed' /\ NoneTwice'
<1>1. /\ pc = "emit" /\ pc' = "emit" /\ child' = child /\ SNode = "__Process_N__"
      /\ UNCHANGED <<systemVars, dir, historyVars, startpos, nextpos, listed>>
      /\ UNCHANGED <<systemVars, dir, child>>
  BY Zenon DEF DropGone
<1>2. PICK n : n \notin live /\ list' = list \ {n}
  BY Zenon DEF DropGone
<1>3. /\ Scanning /\ Scanning' /\ Listing /\ Listing' /\ pc' # "scan"
  BY <1>1 DEF Scanning, Listing
<1>4. Pending' = Pending
  <2>1. Pending = {DynamicEntry(dir, child, k) : k \in {m \in list : m \in live}}
    BY Zenon, <1>1, <1>3 DEF Pending, Listing
  <2>2. Pending' = {DynamicEntry(dir, child, k) : k \in {m \in list' : m \in live}}
    BY Zenon, <1>1, <1>3, PendingNext
  <2>3. {m \in list : m \in live} = {m \in list' : m \in live}
    BY Zenon, <1>2
  <2> QED
    BY Zenon, <2>1, <2>2, <2>3
<1>5. Due' = Due /\ Probed'
  BY Zenon, <1>1, <1>3, <1>4, DueIs, DueIsNext DEF Probed
<1>6. Fits'
  BY Zenon, <1>1, <1>2, <1>3, <1>4, FitsFewer DEF ScanInv
<1> QED
  BY Zenon, <1>1, <1>2, <1>3, <1>5, <1>6, Stay

\* What the walk finds at the child that stands for others.
LEMMA AtDynamicFacts ==
  ASSUME TypeOK, Shape, AtDynamic
  PROVE  /\ pc = "walk" /\ Scanning /\ ~Listing /\ ~OnSys /\ list = {} /\ child \in Nat
         /\ SNode \in ProcessLists <=> dir.base \in {"root", "byname"}
         /\ Due = {x \in Here : x.slot = child}
         /\ \A x \in Here : x.slot = child =>
              x.key \in Members(dir, SNode) /\ x = DynamicEntry(dir, child, x.key)
         /\ \A n \in Members(dir, SNode) :
              /\ DynamicEntry(dir, child, n) \in Here
              /\ DynamicEntry(dir, child, n).slot = child /\ DynamicEntry(dir, child, n).key = n
<1>1. pc = "walk" /\ MayShow(dir.pid) /\ SNode \in Dynamic /\ ~Hidden(SNode)
  BY Zenon, DynamicShown DEF AtDynamic
<1>2. Scanning /\ ~Listing
  BY <1>1 DEF Scanning, Listing
<1>3. child = Len(Children(dir.base)) /\ ~OnSys /\ dir.base \in DirBases
  BY Zenon, ChildAtDynamic
<1>4. child \in 1 .. Len(Children(dir.base)) /\ child \in Nat /\ child \in DOMAIN Children(dir.base)
  <2>1. Len(Children(dir.base)) \in 3 .. 7 /\ DOMAIN Children(dir.base) = 1 .. Len(Children(dir.base))
    BY Zenon, <1>3, ChildrenFacts
  <2>2. \A l \in 3 .. 7 : l \in 1 .. l /\ l \in Nat
    OBVIOUS
  <2> QED
    BY Zenon, <1>3, <2>1, <2>2
<1>5. SNode \in ProcessLists <=> dir.base \in {"root", "byname"}
  BY Zenon, <1>3, <1>4, ChildrenFacts DEF SNode
<1>6. Due = {x \in Here : x.slot = child}
  <2>1. Due = {x \in Here : Index(x) >= child}
    BY Zenon, <1>1, DueIs
  <2>2. ASSUME NEW x \in Here
        PROVE  Index(x) >= child <=> x.slot = child
    <3>1. Index(x) = x.slot
      BY Zenon, <1>3 DEF Index
    <3>2. x.slot \in 1 .. Len(Children(dir.base))
      BY Zenon, <1>2, <1>3, TreeEntries
    <3> QED
      BY <1>3, <1>4, <3>1, <3>2
  <2> QED
    BY Zenon, <2>1, <2>2
<1>7. \A n : EntryAt(child, n) = DynamicEntry(dir, child, n)
  BY Zenon, <1>1, <1>3 DEF EntryAt, SNode
<1>8. \A n : DynamicEntry(dir, child, n).slot = child /\ DynamicEntry(dir, child, n).key = n
  BY DEF DynamicEntry
<1>9. \A x \in Here : x.slot = child =>
        x.key \in Members(dir, SNode) /\ x = DynamicEntry(dir, child, x.key)
  BY Zenon, <1>1, <1>2, <1>3, <1>7, TreeEntries DEF SNode
<1>10. \A n \in Members(dir, SNode) : DynamicEntry(dir, child, n) \in Here
  BY Zenon, <1>1, <1>2, <1>3, <1>4, <1>7, TreeEntry DEF SNode
<1>11. list = {}
  BY Zenon, <1>1 DEF Shape
<1> QED
  BY Zenon, <1>1, <1>2, <1>3, <1>4, <1>5, <1>6, <1>8, <1>9, <1>10, <1>11

\* All processes are still due when their list is begun.
LEMMA ListProcessesStep ==
  ASSUME FiniteFacts, TypeOK, Shape, ScanInv, NoneTwice, ListProcesses
  PROVE  ScanInv' /\ NoneMissed' /\ NoneTwice'
<1>1. /\ AtDynamic /\ SNode \in ProcessLists /\ pc' = "scan" /\ probe' = Pids
      /\ list' = list /\ child' = child
      /\ UNCHANGED <<systemVars, dir, historyVars, startpos, nextpos, listed>>
      /\ UNCHANGED <<systemVars, dir, child>>
  BY Zenon DEF ListProcesses
<1>2. /\ pc = "walk" /\ Scanning /\ ~Listing /\ list = {}
      /\ Due = {x \in Here : x.slot = child}
      /\ \A x \in Here : x.slot = child => x.key \in Members(dir, SNode)
  BY Zenon, <1>1, AtDynamicFacts
<1>3. Scanning' /\ Listing'
  BY <1>1 DEF Scanning, Listing
<1>4. Here' = Here /\ VisiblePids' = VisiblePids
  BY Zenon, <1>1, SameDirectory
<1>5. list' = {} /\ Pending' = {}
  BY Zenon, <1>1, <1>2, <1>3, PendingNext
<1>6. VisiblePids \subseteq Pids /\ Members(dir, SNode) = VisiblePids
  BY Zenon, <1>1 DEF TypeOK, VisiblePids, Members
<1>7. Due' = Due
  <2>1. Due' = Pending' \cup {x \in Here' : x.slot = child' /\ x.key \in probe'}
    BY Zenon, <1>1, DueIsNext
  <2>2. Due' = {x \in Here : x.slot = child /\ x.key \in Pids}
    BY Zenon, <1>1, <1>4, <1>5, <2>1
  <2>3. \A x \in Here : x.slot = child => x.key \in Pids
    BY Zenon, <1>2, <1>6
  <2> QED
    BY Zenon, <1>2, <2>2, <2>3
<1>8. Probed'
  BY Zenon, <1>1, <1>4, <1>6 DEF Probed
<1>9. Fits'
  BY Zenon, <1>1, <1>2, <1>3, <1>5, FitsFewer DEF ScanInv
<1> QED
  BY Zenon, <1>1, <1>2, <1>3, <1>5, <1>7, <1>8, <1>9, Stay

\* The list has the descriptors, or the threads, that are there.
LEMMA ListObjectsStep ==
  ASSUME TypeOK, Shape, ScanInv, NoneTwice, AtDynamic, SNode \notin ProcessLists,
         pc' = "emit", list' = Objects(dir, SNode),
         UNCHANGED <<systemVars, changes, historyVars, dir, trusts, buf, startpos,
                     nextpos, resid, child, probe, count, error, listed>>
  PROVE  ScanInv' /\ NoneMissed' /\ NoneTwice'
<1>1. /\ child' = child /\ UNCHANGED <<systemVars, dir, historyVars, startpos, nextpos, listed>>
      /\ UNCHANGED <<systemVars, dir, child>>
  BY Zenon
<1>2. /\ pc = "walk" /\ Scanning /\ ~Listing /\ list = {} /\ dir.base \notin {"root", "byname"}
      /\ Due = {x \in Here : x.slot = child}
      /\ \A x \in Here : x.slot = child =>
              x.key \in Members(dir, SNode) /\ x = DynamicEntry(dir, child, x.key)
      /\ \A n \in Members(dir, SNode) :
              /\ DynamicEntry(dir, child, n) \in Here
              /\ DynamicEntry(dir, child, n).slot = child /\ DynamicEntry(dir, child, n).key = n
  BY Zenon, AtDynamicFacts
<1>3. Scanning' /\ Listing' /\ pc' # "scan"
  BY DEF Scanning, Listing
<1>4. list' = Members(dir, SNode)
  BY Zenon DEF Members
<1>5. Pending' = {DynamicEntry(dir, child, n) : n \in list'}
  <2>1. SNode # "__Process_N__"
    BY Zenon DEF ProcessLists
  <2>2. {k \in list' : SNode = "__Process_N__" => k \in live} = list'
    BY Zenon, <2>1
  <2>3. Pending' = {DynamicEntry(dir, child, n) :
                      n \in {k \in list' : SNode = "__Process_N__" => k \in live}}
    BY Zenon, <1>1, <1>3, PendingNext
  <2> QED
    BY Zenon, <2>2, <2>3
<1>6. Due' = Due
  <2>1. \A x : x \in Due' <=> \E n \in Members(dir, SNode) : x = DynamicEntry(dir, child, n)
    BY Zenon, <1>4, <1>5, DueIsNext
  <2>2. \A x : x \in Due <=> x \in Here /\ x.slot = child
    BY Zenon, <1>2
  <2>3. \A n \in Members(dir, SNode) : DynamicEntry(dir, child, n) \in Due
    BY Zenon, <1>2, <2>2
  <2>4. \A x \in Due : \E n \in Members(dir, SNode) : x = DynamicEntry(dir, child, n)
    BY Zenon, <1>2, <2>2
  <2> QED
    BY Zenon, <2>1, <2>3, <2>4
<1>7. Fits' /\ Probed'
  <2>1. dir' = dir
    BY Zenon
  <2> QED
    BY Zenon, <1>2, <1>3, <2>1 DEF Fits, OnProcess, Probed
<1> QED
  BY Zenon, <1>1, <1>2, <1>3, <1>4, <1>6, <1>7, Stay

\* What the list of processes stands for while it is made.
LEMMA ProbeFacts ==
  ASSUME TypeOK, Shape, pc = "scan"
  PROVE  /\ Scanning /\ Listing /\ dir.base \in {"root", "byname"} /\ child \in Nat
         /\ child = Len(Children(dir.base))
         /\ list \subseteq Pids /\ probe \subseteq Pids /\ VisiblePids \subseteq live
         /\ \A n \in list, m \in probe : n < m
         /\ \A x \in Here : x.slot = child =>
              x.key \in VisiblePids /\ x = DynamicEntry(dir, child, x.key)
         /\ \A n \in VisiblePids : DynamicEntry(dir, child, n) \in Here
         /\ \A n : DynamicEntry(dir, child, n).slot = child /\ DynamicEntry(dir, child, n).key = n
         /\ Due = Pending \cup {x \in Here : x.slot = child /\ x.key \in probe}
<1>1. Scanning /\ Listing
  BY DEF Scanning, Listing
<1>2. /\ ~OnSys /\ dir.base \in DirBases /\ child = Len(Children(dir.base))
      /\ child \in DOMAIN Children(dir.base) /\ dir.base \in {"root", "byname"}
      /\ SNode \in ProcessLists
  BY Zenon, <1>1, ListingProcesses
<1>3. SNode \in Dynamic /\ ~Hidden(SNode)
  BY Zenon, <1>2, DynamicShown DEF Dynamic
<1>4. MayShow(dir.pid)
  BY Zenon, <1>1, <1>2 DEF Shape, MayShow
<1>5. child \in 1 .. Len(Children(dir.base)) /\ child \in Nat
  BY Zenon, <1>2, ChildrenFacts DEF TypeOK
<1>6. Members(dir, SNode) = VisiblePids
  BY Zenon, <1>2 DEF Members
<1>7. \A n : EntryAt(child, n) = DynamicEntry(dir, child, n)
  BY Zenon, <1>2, <1>3 DEF EntryAt, SNode
<1>8. \A n : DynamicEntry(dir, child, n).slot = child /\ DynamicEntry(dir, child, n).key = n
  BY DEF DynamicEntry
<1>9. \A x \in Here : x.slot = child =>
        x.key \in VisiblePids /\ x = DynamicEntry(dir, child, x.key)
  BY ZenonT(30), <1>1, <1>2, <1>3, <1>6, <1>7, TreeEntries DEF SNode
<1>10. \A n \in VisiblePids : DynamicEntry(dir, child, n) \in Here
  BY ZenonT(30), <1>1, <1>2, <1>3, <1>4, <1>5, <1>6, <1>7, TreeEntry DEF SNode
<1>11. /\ list \subseteq Pids /\ probe \subseteq Pids /\ VisiblePids \subseteq live
       /\ \A n \in list, m \in probe : n < m
  BY Zenon, <1>1, <1>2 DEF Shape, TypeOK, VisiblePids
<1>12. Due = Pending \cup {x \in Here : x.slot = child /\ x.key \in probe}
  BY Zenon, DueIs
<1> QED
  BY Zenon, <1>1, <1>2, <1>5, <1>8, <1>9, <1>10, <1>11, <1>12

\* A pid is tried that is not there, or may not be seen.
LEMMA ProbeNoneStep ==
  ASSUME FiniteFacts, TypeOK, Shape, ScanInv, NoneTwice, pc = "scan", NEW pid \in First(probe),
         pid \notin VisiblePids, probe' = probe \ {pid}, list' = list,
         UNCHANGED <<systemVars, historyVars, pc, dir, startpos, nextpos, child, listed>>
  PROVE  ScanInv' /\ NoneMissed' /\ NoneTwice'
<1>1. /\ pc' = "scan" /\ child' = child
      /\ UNCHANGED <<systemVars, dir, historyVars, startpos, nextpos, listed>>
      /\ UNCHANGED <<systemVars, dir, child>>
  BY Zenon
<1>2. /\ Scanning /\ Listing
      /\ \A x \in Here : x.slot = child => x.key \in VisiblePids
      /\ Due = Pending \cup {x \in Here : x.slot = child /\ x.key \in probe}
  BY Zenon, ProbeFacts
<1>3. Scanning' /\ Listing'
  BY <1>1 DEF Scanning, Listing
<1>4. Here' = Here /\ VisiblePids' = VisiblePids /\ pushed' = pushed
  BY Zenon, <1>1, SameDirectory DEF historyVars
<1>5. Pending' = Pending
  <2>1. Pending' = {DynamicEntry(dir, child, n) :
                      n \in {k \in list : SNode = "__Process_N__" => k \in live}}
    BY Zenon, <1>1, <1>3, PendingNext
  <2> QED
    BY Zenon, <1>2, <2>1 DEF Pending, Listing
<1>6. Due' = Due
  <2>1. Due' = Pending' \cup {x \in Here' : x.slot = child' /\ x.key \in probe'}
    BY Zenon, <1>1, DueIsNext
  <2>2. Due' = Pending \cup {x \in Here : x.slot = child /\ x.key \in probe \ {pid}}
    BY Zenon, <1>1, <1>4, <1>5, <2>1
  <2>3. \A x \in Here : x.slot = child => x.key # pid
    BY Zenon, <1>2
  <2> QED
    BY Zenon, <1>2, <2>2, <2>3
<1>7. Fits'
  BY Zenon, <1>1, <1>2, <1>3, <1>5, FitsFewer DEF ScanInv
<1>8. Probed'
  <2> SUFFICES ASSUME NEW e \in Here, e \notin pushed, e.slot = child, e.key \in probe,
                      NEW q \in VisiblePids, q < e.key
               PROVE  q \in list \cup (probe \ {pid})
    BY Zenon, <1>1, <1>4 DEF Probed
  <2> QED
    BY Zenon DEF ScanInv, Probed
<1> QED
  BY Zenon, <1>1, <1>2, <1>3, <1>6, <1>7, <1>8, Stay

\* A pid is tried and goes into the list.
LEMMA ProbeOneStep ==
  ASSUME FiniteFacts, TypeOK, Shape, ScanInv, NoneTwice, pc = "scan", NEW pid \in First(probe),
         pid \in VisiblePids, Cardinality(list) < MaxProcs,
         probe' = probe \ {pid}, list' = list \cup {pid},
         UNCHANGED <<systemVars, historyVars, pc, dir, startpos, nextpos, child, listed>>
  PROVE  ScanInv' /\ NoneMissed' /\ NoneTwice'
<1> DEFINE e(k) == DynamicEntry(dir, child, k)
           ok(k) == SNode = "__Process_N__" => k \in live
<1>1. /\ pc' = "scan" /\ child' = child
      /\ UNCHANGED <<systemVars, dir, historyVars, startpos, nextpos, listed>>
      /\ UNCHANGED <<systemVars, dir, child>>
  BY Zenon
<1>2. /\ Scanning /\ Listing /\ list \subseteq Pids /\ probe \subseteq Pids
      /\ VisiblePids \subseteq live
      /\ \A x \in Here : x.slot = child => x.key \in VisiblePids /\ x = e(x.key)
      /\ \A n \in VisiblePids : e(n) \in Here
      /\ \A n : e(n).slot = child /\ e(n).key = n
      /\ Due = Pending \cup {x \in Here : x.slot = child /\ x.key \in probe}
  BY Zenon, ProbeFacts
<1>3. Scanning' /\ Listing'
  BY <1>1 DEF Scanning, Listing
<1>4. /\ Here' = Here /\ VisiblePids' = VisiblePids /\ pushed' = pushed
      /\ \A x : OnProcess(x)' = OnProcess(x)
  BY Zenon, <1>1, SameDirectory DEF historyVars
<1>5. Pending = {e(k) : k \in {m \in list : ok(m)}} /\ Pending' = {e(k) : k \in {m \in list' : ok(m)}}
  <2>1. Pending' = {e(k) : k \in {m \in list' : ok(m)}}
    BY Zenon, <1>1, <1>3, PendingNext
  <2> QED
    BY Zenon, <1>2, <2>1 DEF Pending, Listing
<1>6. ok(pid)
  BY Zenon, <1>2
<1>7. pid \in probe /\ \A m \in probe : pid <= m
  BY Zenon DEF First
<1> HIDE DEF e, ok
<1>8. Pending' = Pending \cup {e(pid)}
  BY Zenon, <1>5, <1>6
<1>9. e(pid) \in Here
  BY Zenon, <1>2
<1>10. Due' = Due
  <2>1. Due' = Pending' \cup {x \in Here' : x.slot = child' /\ x.key \in probe'}
    BY Zenon, <1>1, DueIsNext
  <2>2. Due' = Pending \cup {e(pid)} \cup {x \in Here : x.slot = child /\ x.key \in probe \ {pid}}
    BY Zenon, <1>1, <1>4, <1>8, <2>1
  <2>3. /\ e(pid) \in Here /\ e(pid).slot = child /\ e(pid).key \in probe
        /\ \A x \in Here : x.slot = child /\ x.key = pid => x = e(pid)
    BY Zenon, <1>2, <1>7, <1>9
  <2>4. Due = Pending \cup {x \in Here : x.slot = child /\ x.key \in probe}
    BY Zenon, <1>2
  <2>5. \A x : x \in Due' <=> x \in Pending \/ x = e(pid) \/
                (x \in Here /\ x.slot = child /\ x.key \in probe /\ x.key # pid)
    BY Zenon, <2>2
  <2>6. \A x : x \in Due <=> x \in Pending \/ (x \in Here /\ x.slot = child /\ x.key \in probe)
    BY Zenon, <2>4
  <2>7. \A x : x \in Due' <=> x \in Due
    BY Zenon, <2>3, <2>5, <2>6
  <2> QED
    BY Zenon, <2>7
<1>11. Fits'
  <2>1. Returned' = Returned
    BY Zenon DEF Returned
  <2>2. list' \cup VisiblePids' = list \cup VisiblePids
    BY Zenon, <1>4
  <2> SUFFICES ASSUME NEW x, x \in Returned \/ x \in Pending', x \notin pushed, OnProcess(x)
               PROVE  Cardinality({q \in list \cup VisiblePids : q < x.key}) < MaxProcs
    BY Zenon, <1>4, <2>1, <2>2 DEF Fits
  <2>3. CASE x \in Returned \cup Pending
    BY Zenon, <1>2, <2>3 DEF ScanInv, Fits
  <2>4. CASE x = e(pid)
    <3>1. x \in Here /\ x.slot = child /\ x.key = pid
      BY Zenon, <1>2, <1>9, <2>4
    <3>2. \A q \in VisiblePids : q < pid => q \in list \cup probe
      BY Zenon, <1>7, <3>1 DEF ScanInv, Probed
    <3>3. \A q \in probe : ~(q < pid)
      <4>1. pid \in Nat /\ probe \subseteq Nat
        BY Zenon, <1>2, <1>7, PidsAssumption
      <4> QED
        BY <1>7, <4>1
    <3>4. {q \in list \cup VisiblePids : q < x.key} \in SUBSET list
      BY Zenon, <3>1, <3>2, <3>3
    <3>5. IsFiniteSet(list)
      BY Zenon, <1>2, PidsAssumption, FiniteSubset
    <3>6. /\ Cardinality({q \in list \cup VisiblePids : q < x.key}) <= Cardinality(list)
          /\ Cardinality({q \in list \cup VisiblePids : q < x.key}) \in Nat
          /\ Cardinality(list) \in Nat
      BY Zenon, <3>4, <3>5, FiniteSubset, FiniteCardinality
    <3> QED
      BY <3>6, PidsAssumption
  <2> QED
    BY Zenon, <1>8, <2>3, <2>4
<1>12. Probed'
  <2> SUFFICES ASSUME NEW x \in Here, x \notin pushed, x.slot = child, x.key \in probe,
                      NEW q \in VisiblePids, q < x.key
               PROVE  q \in list \cup {pid} \cup (probe \ {pid})
    BY Zenon, <1>1, <1>4 DEF Probed
  <2> QED
    BY Zenon DEF ScanInv, Probed
<1>13. \A n \in list' : (Listing /\ n \in list) \/ \E x \in Here : x.slot = child' /\ x.key = n
  BY Zenon, <1>1, <1>2, <1>9
<1> QED
  BY Zenon, <1>1, <1>2, <1>3, <1>10, <1>11, <1>12, <1>13, Stay

\* Either of the two.
LEMMA ProbePidStep ==
  ASSUME FiniteFacts, TypeOK, Shape, ScanInv, NoneTwice, ProbePid
  PROVE  ScanInv' /\ NoneMissed' /\ NoneTwice'
<1>1. /\ pc = "scan" /\ Cardinality(list) < MaxProcs
      /\ UNCHANGED <<systemVars, historyVars, pc, dir, startpos, nextpos, child, listed>>
  BY Zenon DEF ProbePid
<1>2. PICK pid \in First(probe) :
        /\ probe' = probe \ {pid}
        /\ list' = IF pid \in VisiblePids THEN list \cup {pid} ELSE list
  BY Zenon DEF ProbePid
<1>3. CASE pid \in VisiblePids
  BY Zenon, <1>1, <1>2, <1>3, ProbeOneStep
<1>4. CASE pid \notin VisiblePids
  BY Zenon, <1>1, <1>2, <1>4, ProbeNoneStep
<1> QED
  BY Zenon, <1>3, <1>4

\* The list is complete, or it is full: what does not fit was neither there all
\* the time nor returned before.
LEMMA EndOfProbeStep ==
  ASSUME FiniteFacts, TypeOK, Shape, ScanInv, NoneTwice, EndOfProbe
  PROVE  ScanInv' /\ NoneMissed' /\ NoneTwice'
<1>1. /\ pc = "scan" /\ pc' = "emit" /\ child' = child /\ list' = list /\ startpos' = startpos
      /\ nextpos' = nextpos /\ listed' = listed
      /\ probe = {} \/ Cardinality(list) = MaxProcs
      /\ UNCHANGED <<systemVars, dir, historyVars, listed>> /\ UNCHANGED <<systemVars, dir, child>>
  BY Zenon DEF EndOfProbe, callVars
<1>2. /\ Scanning /\ Listing /\ dir.base \in {"root", "byname"} /\ child \in Nat
      /\ child = Len(Children(dir.base)) /\ list \subseteq Pids /\ probe \subseteq Pids
      /\ \A n \in list, m \in probe : n < m
      /\ \A x \in Here : x.slot = child => x.key \in VisiblePids
      /\ Due = Pending \cup {x \in Here : x.slot = child /\ x.key \in probe}
  BY Zenon, <1>1, ProbeFacts
<1>3. Scanning' /\ Listing' /\ pc' # "scan" /\ pc' # "done"
  BY <1>1 DEF Scanning, Listing
<1>4. /\ Here' = Here /\ Within(dir)' = Within(dir) /\ steady' = steady /\ pushed' = pushed
      /\ Returned' = Returned
  BY Zenon, <1>1, SameDirectory DEF historyVars, Returned
<1>5. Pending' = Pending /\ Due' = Pending
  <2>1. Pending' = {DynamicEntry(dir, child, n) :
                      n \in {k \in list : SNode = "__Process_N__" => k \in live}}
    BY Zenon, <1>1, <1>3, PendingNext
  <2> QED
    BY Zenon, <1>1, <1>2, <2>1, DueIsNext DEF Pending, Listing
<1>6. \A x \in Pending : x.slot = child /\ x.key \in list
  BY Zenon, <1>2, ViewHolds DEF View
<1>7. \A x \in Due \ Pending : /\ x \in Here /\ x.slot = child /\ x.key \in probe
                               /\ Cardinality(list) = MaxProcs
  BY Zenon, <1>1, <1>2
<1>8. ASSUME NEW e \in Pending
      PROVE  /\ Preceding(Pending, e) = Preceding(Due, e)
             /\ Preceding(Here \ Pending, e) = Preceding(Here \ Due, e)
  <2>1. e.slot = child /\ e.key \in list
    BY Zenon, <1>6
  <2>2. ASSUME NEW x \in Due \ Pending
        PROVE  ~Before(x, e)
    <3>1. x.slot = child /\ x.key \in probe /\ e.key < x.key
      BY Zenon, <1>2, <1>7, <2>1
    <3>2. x.key \in Nat /\ e.key \in Nat
      BY Zenon, <1>2, <2>1, <3>1, PidsAssumption
    <3>3. ~(x.slot < e.slot) /\ ~(x.key < e.key)
      BY <1>2, <2>1, <3>1, <3>2
    <3> QED
      BY Zenon, <3>3 DEF Before
  <2>3. Pending \subseteq Due
    BY Zenon, <1>2
  <2> QED
    BY Zenon, <2>2, <2>3 DEF Preceding
<1>9. ASSUME NEW e \in Due \ Pending, NEW S, IsFiniteSet(S), list \subseteq S
      PROVE  ~(Cardinality({q \in S : q < e.key}) < MaxProcs)
  <2> DEFINE U == {q \in S : q < e.key}
  <2>1. e.key \in probe /\ Cardinality(list) = MaxProcs
    BY Zenon, <1>7
  <2>2. \A n \in list : n < e.key
    BY Zenon, <1>2, <2>1
  <2>3. list \in SUBSET U /\ U \in SUBSET S
    BY Zenon, <1>9, <2>2
  <2> HIDE DEF U
  <2>4. IsFiniteSet(U)
    BY Zenon, <1>9, <2>3, FiniteSubset
  <2>5. Cardinality(list) <= Cardinality(U) /\ Cardinality(U) \in Nat
    BY Zenon, <2>3, <2>4, FiniteSubset, FiniteCardinality
  <2>6. ~(Cardinality(U) < MaxProcs)
    BY <2>1, <2>5, PidsAssumption
  <2> QED
    BY Zenon, <2>6 DEF U
<1>10. Missing'
  <2> SUFFICES ASSUME NEW e \in steady, e \notin Returned
               PROVE  Coming(e)'
    BY Zenon, <1>2, <1>4 DEF ScanInv, Missing
  <2>1. e \in Within(dir) /\ Coming(e)
    BY Zenon, <1>2 DEF ScanInv, Missing
  <2>2. e \in Pending
    <3> SUFFICES ASSUME e \in Due \ Pending
                 PROVE  FALSE
      BY Zenon, <2>1 DEF Coming
    <3>1. \A n \in list : n < e.key
      BY Zenon, <1>2, <1>7
    <3>2. list \subseteq VisiblePids
      BY Zenon, <1>2, <2>1, <3>1 DEF Coming
    <3>3. IsFiniteSet(VisiblePids)
      <4>1. VisiblePids \in SUBSET Pids
        BY Zenon DEF TypeOK, VisiblePids
      <4> QED
        BY Zenon, <4>1, PidsAssumption, FiniteSubset
    <3>4. dir.base # "sys" /\ Children(dir.base)[e.slot] \in ProcessLists
      <4>1. "sys" \notin {"root", "byname"} /\ {"root", "byname"} \subseteq DirBases
        BY DEF DirBases
      <4> QED
        BY Zenon, <1>2, <1>7, <4>1, ChildrenFacts
    <3>5. Cardinality({p \in VisiblePids : p < e.key}) < MaxProcs
      BY Zenon, <2>1, <3>4 DEF Within
    <3> QED
      BY Zenon, <1>9, <3>2, <3>3, <3>5
  <2>3. /\ nextpos <= Size(Preceding(Here \ Pending, e))
        /\ startpos <= nextpos + Size(Preceding(Pending, e))
    BY Zenon, <1>8, <2>1, <2>2 DEF Coming
  <2>4. (Listing => \A n \in list : n < e.key => \E x \in Here : x.slot = child /\ x.key = n)'
    BY Zenon, <1>1, <1>2, <1>4, <2>1 DEF Coming
  <2>5. /\ e \in Due' /\ nextpos' <= Size(Preceding(Here' \ Due', e))
        /\ startpos' <= nextpos' + Size(Preceding(Due', e))
    BY Zenon, <1>1, <1>4, <1>5, <2>2, <2>3
  <2> QED
    BY Zenon, <2>4, <2>5 DEF Coming
<1>11. Repeat'
  <2>1. Pending \subseteq Due
    BY Zenon, <1>2
  <2> SUFFICES ASSUME NEW e \in Pending, e \in Returned, e \notin pushed
               PROVE  nextpos + Size(Preceding(Pending, e)) + DirentSize(e.name) <= startpos
    BY Zenon, <1>1, <1>4, <1>5 DEF Repeat
  <2> QED
    BY Zenon, <1>2, <1>8, <2>1 DEF ScanInv, Repeat
<1>12. Reached'
  <2>1. Pending \subseteq Due
    BY Zenon, <1>2
  <2> SUFFICES ASSUME NEW e \in Pending, e \notin pushed
               PROVE  Size(Preceding(Here \ Pending, e)) <= nextpos
    BY Zenon, <1>1, <1>4, <1>5 DEF Reached
  <2> QED
    BY Zenon, <1>2, <1>8, <2>1 DEF ScanInv, Reached
<1>13. Passed'
  <2> SUFFICES ASSUME NEW e \in Here, e \in Returned, e \notin Pending, e \notin pushed
               PROVE  /\ Preceding(Pending, e) = {}
                      /\ Size(Preceding(Here, e)) + DirentSize(e.name) <= nextpos
    BY Zenon, <1>1, <1>4, <1>5 DEF Passed
  <2>1. e \notin Due
    <3> SUFFICES ASSUME e \in Due \ Pending
                 PROVE  FALSE
      BY Zenon
    <3>1. OnProcess(e)
      BY Zenon, <1>2, <1>7 DEF OnProcess
    <3>2. Cardinality({q \in list \cup VisiblePids : q < e.key}) < MaxProcs
      BY Zenon, <1>2, <3>1 DEF ScanInv, Fits
    <3>3. IsFiniteSet(list \cup VisiblePids) /\ list \subseteq list \cup VisiblePids
      BY Zenon, PidsFinite
    <3> QED
      BY Zenon, <1>9, <3>2, <3>3
  <2>2. Preceding(Due, e) = {} /\ Size(Preceding(Here, e)) + DirentSize(e.name) <= nextpos
    BY Zenon, <1>2, <2>1 DEF ScanInv, Passed
  <2> QED
    BY Zenon, <1>2, <2>2 DEF Preceding
<1>14. Fits'
  BY Zenon, <1>1, <1>2, <1>3, <1>5, FitsFewer DEF ScanInv
<1>15. Probed' /\ NoneMissed' /\ NoneTwice'
  BY Zenon, <1>1, <1>3, <1>4 DEF Probed, NoneMissed, NoneTwice, Finished
<1> QED
  BY Zenon, <1>10, <1>11, <1>12, <1>13, <1>14, <1>15 DEF ScanInv

\* The walk starts before every entry.
Counted == Scanning => \A x \in Here : Index(x) >= 1

\* It follows from types and shape,
LEMMA IndexPositive == FiniteFacts /\ TypeOK /\ Shape => Counted
<1> SUFFICES ASSUME FiniteFacts, TypeOK, Shape, Scanning, NEW x \in Here
             PROVE  Index(x) >= 1
  BY Zenon DEF Counted
<1>1. CASE OnSys
  <2>1. Index(x) \in Nat /\ (x.slot < 3 => Index(x) = x.slot) /\ (x.slot = 3 => Index(x) >= 3)
    BY Zenon, <1>1, SysIndex
  <2>2. x.slot \in 1 .. 3
    BY Zenon, <1>1, SysEntries
  <2> QED
    BY <2>1, <2>2
<1>2. CASE ~OnSys
  <2>1. Index(x) = x.slot
    BY Zenon, <1>2 DEF Index
  <2>2. x.slot \in 1 .. Len(Children(dir.base))
    BY Zenon, <1>2, TreeEntries
  <2> QED
    BY <2>1, <2>2
<1> QED
  BY Zenon, <1>1, <1>2

\* after the step too.
LEMMA IndexPositiveNext == FiniteFacts /\ TypeOK' /\ Shape' => Counted'
<1>1. FiniteFacts => FiniteFacts'
  BY Zenon DEF FiniteFacts
<1> QED
  BY <1>1, IndexPositive, PTL

\* A call ends when it has nothing more to come to, when it failed, or when the
\* buffer is full and has entries in it: the next one starts where it stopped.
LEMMA ReturnStep ==
  ASSUME FiniteFacts, TypeOK, Shape, ScanInv, NoneTwice, Scanning,
         NEW eofflag, NEW err \in {"none", "ENOENT", "ENOTSUP", "EPERM"}, Return(eofflag, err),
         err # "none" \/ Due = {} \/ (count > 0 /\ ~eofflag)
  PROVE  ScanInv' /\ NoneMissed' /\ NoneTwice'
<1>1. /\ error' = err /\ startpos' = nextpos /\ nextpos' = 0 /\ child' = 1 /\ probe' = {}
      /\ list' = {} /\ listed' = listed /\ steady' = steady /\ pushed' = pushed
      /\ pc' = IF err # "none" \/ count = 0 \/ (trusts /\ eofflag) THEN "done" ELSE "walk"
      /\ UNCHANGED <<systemVars, dir>> /\ UNCHANGED <<systemVars, dir, historyVars, listed>>
  BY Zenon DEF Return, historyVars
<1>2. /\ Here' = Here /\ Within(dir)' = Within(dir) /\ (\A e : Index(e)' = Index(e))
      /\ Returned' = Returned
  BY Zenon, <1>1, SameDirectory DEF Returned
<1>3. View /\ IsFiniteSet(Here) /\ IsFiniteSet(Due)
  BY Zenon, ViewHolds, ViewFinite
<1>4. NoneTwice'
  BY Zenon, <1>1 DEF NoneTwice
<1>5. NoneMissed'
  <2> SUFFICES ASSUME pc' = "done", err = "none"
               PROVE  steady \subseteq Returned
    BY Zenon, <1>1, <1>2 DEF NoneMissed, Finished
  <2>1. count \in Nat /\ "done" # "walk"
    BY DEF TypeOK
  <2>2. count = 0 => ~(count > 0)
    BY <2>1
  <2>3. Due = {}
    BY Zenon, <1>1, <2>1, <2>2
  <2> QED
    BY Zenon, <2>3 DEF ScanInv, Missing, Coming
<1>6. CASE pc' = "done"
  <2>1. ~Scanning' /\ pc' # "scan"
    BY <1>6 DEF Scanning
  <2> QED
    BY Zenon, <1>4, <1>5, <2>1 DEF ScanInv, Missing, Repeat, Reached, Passed, Fits, Probed
<1>7. CASE pc' # "done"
  <2>1. pc' = "walk" /\ count # 0
    BY Zenon, <1>1, <1>7
  <2>2. /\ Scanning' /\ ~Listing' /\ pc' \notin {"scan", "emit"} /\ pc' # "scan"
    BY <2>1 DEF Scanning, Listing
  <2>3. nextpos \in Nat /\ startpos \in Nat /\ nextpos >= startpos
    <3>1. count \in Nat /\ nextpos \in Nat /\ startpos \in Nat /\ (count > 0 => nextpos >= startpos)
      BY Zenon, CallTypes
    <3> QED
      BY <2>1, <3>1
  <2>4. Due' = Here
    <3>1. Due' = {x \in Here : Index(x) >= 1}
      BY Zenon, <1>1, <1>2, <2>1, DueIsNext
    <3>2. \A x \in Here : Index(x) >= 1
      BY Zenon, IndexPositive DEF Counted
    <3> QED
      BY Zenon, <3>1, <3>2
  <2>5. Pending' = {} /\ Probed' /\ list' \subseteq list
    BY Zenon, <1>1, <2>2 DEF Pending, Probed
  <2>6. Fits'
    BY Zenon, <1>1, <2>2, <2>5, FitsFewer DEF ScanInv
  <2>7. \A e : /\ Preceding(Here \ Due', e) = {} /\ Size(Preceding(Here, e)) \in Nat
               /\ Size(Preceding(Here \ Due, e)) <= Size(Preceding(Here, e))
               /\ Size(Preceding(Here \ Due, e)) \in Nat /\ Size(Preceding(Due, e)) \in Nat
    <3> SUFFICES ASSUME NEW e
                 PROVE  /\ Preceding(Here \ Due', e) = {} /\ Size(Preceding(Here, e)) \in Nat
                        /\ Size(Preceding(Here \ Due, e)) <= Size(Preceding(Here, e))
                        /\ Size(Preceding(Here \ Due, e)) \in Nat /\ Size(Preceding(Due, e)) \in Nat
      OBVIOUS
    <3>1. /\ Preceding(Here \ Due', e) = {} /\ Preceding(Here, e) \in SUBSET Here
          /\ Preceding(Here \ Due, e) \in SUBSET Preceding(Here, e)
          /\ Preceding(Due, e) \in SUBSET Due
      BY Zenon, <2>4 DEF Preceding
    <3>2. IsFiniteSet(Preceding(Here, e)) /\ Size(Preceding(Here, e)) \in Nat
      BY Zenon, <1>3, <3>1, SizeMonotone
    <3> QED
      BY Zenon, <1>3, <3>1, <3>2, SizeMonotone
  <2>8. Missing'
    <3> SUFFICES ASSUME NEW e \in steady, e \notin Returned
                 PROVE  Coming(e)'
      BY Zenon, <1>1, <1>2 DEF ScanInv, Missing
    <3>1. e \in Within(dir) /\ nextpos <= Size(Preceding(Here \ Due, e))
      BY Zenon DEF ScanInv, Missing, Coming
    <3>2. e \in Here
      BY Zenon, <3>1 DEF Within, Here
    <3>3. 0 <= 0 /\ nextpos <= 0 + Size(Preceding(Here, e))
      <4>1. Size(Preceding(Here \ Due, e)) <= Size(Preceding(Here, e)) /\ Size(Preceding(Here, e)) \in Nat
            /\ Size(Preceding(Here \ Due, e)) \in Nat
        BY Zenon, <2>7
      <4> QED
        BY <2>3, <3>1, <4>1
    <3>4. Preceding(Here' \ Due', e) = {} /\ Preceding(Due', e) = Preceding(Here, e)
      BY Zenon, <1>2, <2>4, <2>7
    <3>5. nextpos' <= Size(Preceding(Here' \ Due', e)) /\ startpos' <= nextpos' + Size(Preceding(Due', e))
      BY Zenon, <1>1, <3>3, <3>4, SizeEmpty
    <3> QED
      BY Zenon, <2>2, <2>4, <3>2, <3>5 DEF Coming
  <2>9. Repeat'
    <3> SUFFICES ASSUME NEW e \in Here, e \in Returned, e \notin pushed
                 PROVE  0 + Size(Preceding(Here, e)) + DirentSize(e.name) <= nextpos
      BY Zenon, <1>1, <1>2, <2>4 DEF Repeat
    <3>1. e \notin Due
      <4> SUFFICES ASSUME e \in Due
                   PROVE  FALSE
        OBVIOUS
      <4>1. nextpos + Size(Preceding(Due, e)) + DirentSize(e.name) <= startpos
        BY Zenon DEF ScanInv, Repeat
      <4>2. Size(Preceding(Due, e)) \in Nat
        BY Zenon, <2>7
      <4> QED
        BY <2>3, <4>1, <4>2, DirentSizeType
    <3>2. Size(Preceding(Here, e)) + DirentSize(e.name) <= nextpos /\ Size(Preceding(Here, e)) \in Nat
      BY Zenon, <2>7, <3>1 DEF ScanInv, Passed
    <3> QED
      BY <3>2, DirentSizeType
  <2>10. Reached' /\ Passed'
    <3>1. \A e : Size(Preceding(Here' \ Due', e)) <= nextpos'
      <4>1. Size({}) <= 0
        BY SizeEmpty
      <4> QED
        BY Zenon, <1>1, <1>2, <2>7, <4>1
    <3> QED
      BY Zenon, <1>2, <2>4, <3>1 DEF Reached, Passed
  <2> QED
    BY Zenon, <1>4, <1>5, <2>5, <2>6, <2>8, <2>9, <2>10 DEF ScanInv
<1> QED
  BY Zenon, <1>6, <1>7

\* The walk ends past the last child, or with a full buffer.
LEMMA EndOfWalkStep ==
  ASSUME FiniteFacts, TypeOK, Shape, ScanInv, NoneTwice, EndOfWalk
  PROVE  ScanInv' /\ NoneMissed' /\ NoneTwice'
<1>1. /\ pc = "walk"
      /\ AtEnd \/ resid = 0
      /\ Return(AtEnd /\ (OnSys => resid > 0), "none")
  BY Zenon DEF EndOfWalk
<1>2. Scanning
  BY <1>1 DEF Scanning
<1>3. CASE AtEnd
  <2>1. ASSUME NEW x \in Here
        PROVE  ~(Index(x) >= child)
    <3>1. child \in Nat
      BY Zenon DEF TypeOK
    <3>2. CASE OnSys
      <4>1. /\ Index(x) \in Nat /\ Index(x) <= 2 + Cardinality(SysChildren(dir.object))
            /\ Cardinality(SysChildren(dir.object)) \in Nat
            /\ child > 2 + Cardinality(SysChildren(dir.object))
        BY Zenon, <1>2, <1>3, <3>2, SysIndex DEF AtEnd
      <4> QED
        BY <3>1, <4>1
    <3>3. CASE ~OnSys
      <4>1. /\ Index(x) = x.slot /\ x.slot \in 1 .. Len(Children(dir.base))
            /\ child > Len(Children(dir.base))
        BY Zenon, <1>2, <1>3, <3>3, TreeEntries DEF AtEnd, Index
      <4>2. Len(Children(dir.base)) \in 3 .. 7
        BY Zenon, <1>2, <3>3, DirectoryFacts, ChildrenFacts
      <4> QED
        BY <3>1, <4>1, <4>2
    <3> QED
      BY Zenon, <3>2, <3>3
  <2>2. Due = {}
    BY Zenon, <1>1, <2>1, DueIs
  <2> QED
    BY Zenon, <1>1, <1>2, <2>2, ReturnStep
<1>4. CASE ~AtEnd
  <2>1. count > 0
    <3>1. /\ count \in Nat /\ buf \in Nat /\ buf >= 5 /\ (count = 0 => resid = buf) /\ resid = 0
      BY Zenon, <1>1, <1>2, <1>4, CallTypes
    <3> QED
      BY <3>1
  <2> QED
    BY Zenon, <1>1, <1>2, <1>4, <2>1, ReturnStep
<1> QED
  BY Zenon, <1>3, <1>4

\* An entry that does not fit: the buffer has others in it.
LEMMA NoRoomStep ==
  ASSUME FiniteFacts, TypeOK, Shape, ScanInv, NoneTwice, Scanning, NEW e, NoRoom(e)
  PROVE  ScanInv' /\ NoneMissed' /\ NoneTwice'
<1>1. DirentSize(e.name) > resid /\ Return(FALSE, "none")
  BY Zenon DEF NoRoom
<1>2. count > 0
  <2>1. /\ count \in Nat /\ buf \in Nat /\ buf >= 5 /\ resid \in Int /\ (count = 0 => resid = buf)
    BY Zenon, CallTypes
  <2> QED
    BY <1>1, <2>1, DirentSizeType
<1> QED
  BY Zenon, <1>1, <1>2, ReturnStep

\* The list is empty, and nothing is due behind it.
LEMMA EndOfListStep ==
  ASSUME FiniteFacts, TypeOK, Shape, ScanInv, NoneTwice, EndOfList
  PROVE  ScanInv' /\ NoneMissed' /\ NoneTwice'
<1>1. pc = "emit" /\ list = {} /\ Return(SNode \in ProcessLists, "none")
  BY Zenon DEF EndOfList
<1>2. Scanning
  BY <1>1 DEF Scanning
<1>3. Due = {}
  BY Zenon, <1>1, DueIs DEF Pending
<1> QED
  BY Zenon, <1>1, <1>2, <1>3, ReturnStep

\* Every step of a call keeps the invariant.
LEMMA ScanStep ==
  ASSUME FiniteFacts, TypeOK, Shape, ScanInv, NoneTwice, Scan
  PROVE  ScanInv' /\ NoneMissed' /\ NoneTwice'
<1>1. CASE CopyChild
  <2>1. /\ pc = "walk" /\ Scanning /\ ~OnSys /\ ~AtEnd
        /\ ~Hidden(SNode) /\ MayShow(dir.pid) /\ SNode \notin Dynamic
    BY Zenon, <1>1 DEF CopyChild, Scanning
  <2>2. CASE NoRoom(StaticEntry(dir, child))
    BY Zenon, <2>1, <2>2, NoRoomStep
  <2>3. CASE CopyOut(StaticEntry(dir, child)) /\ child' = child + 1 /\ UNCHANGED <<pc, list>>
    BY Zenon, <2>1, <2>3, CopyChildStep
  <2> QED
    BY Zenon, <1>1, <2>2, <2>3 DEF CopyChild
<1>2. CASE CopySysDot
  <2>1. pc = "walk" /\ Scanning /\ OnSys /\ child <= 2
    BY Zenon, <1>2 DEF CopySysDot, Scanning
  <2>2. CASE NoRoom(SysDot(dir, child))
    BY Zenon, <2>1, <2>2, NoRoomStep
  <2>3. CASE CopyOut(SysDot(dir, child)) /\ child' = child + 1 /\ UNCHANGED <<pc, list>>
    BY Zenon, <2>1, <2>3, CopySysDotStep
  <2> QED
    BY Zenon, <1>2, <2>2, <2>3 DEF CopySysDot
<1>3. CASE CopySysChild
  <2>1. pc = "walk" /\ Scanning /\ OnSys /\ child > 2
    BY Zenon, <1>3 DEF CopySysChild, Scanning
  <2>2. PICK o \in SysChildAt(dir.object, child - 3) :
          \/ CopyOut(SysEntry(dir, o)) /\ child' = child + 1 /\ UNCHANGED <<pc, list>>
          \/ NoRoom(SysEntry(dir, o))
    BY Zenon, <1>3 DEF CopySysChild
  <2>3. CASE NoRoom(SysEntry(dir, o))
    BY Zenon, <2>1, <2>3, NoRoomStep
  <2>4. CASE CopyOut(SysEntry(dir, o)) /\ child' = child + 1 /\ UNCHANGED <<pc, list>>
    BY Zenon, <2>1, <2>4, CopySysChildStep
  <2> QED
    BY Zenon, <2>2, <2>3, <2>4
<1>4. CASE CopyDynamic
  <2>1. pc = "emit" /\ Scanning
    BY Zenon, <1>4 DEF CopyDynamic, Scanning
  <2>2. PICK n \in First(list) :
          /\ SNode = "__Process_N__" => n \in live
          /\ \/ /\ CopyOut(DynamicEntry(dir, child, n)) /\ list' = list \ {n}
                /\ UNCHANGED <<pc, child>>
             \/ NoRoom(DynamicEntry(dir, child, n))
    BY Zenon, <1>4 DEF CopyDynamic
  <2>3. CASE NoRoom(DynamicEntry(dir, child, n))
    BY Zenon, <2>1, <2>3, NoRoomStep
  <2>4. CASE CopyOut(DynamicEntry(dir, child, n)) /\ list' = list \ {n} /\ UNCHANGED <<pc, child>>
    BY Zenon, <2>1, <2>2, <2>4, CopyDynamicStep
  <2> QED
    BY Zenon, <2>2, <2>3, <2>4
<1>5. CASE ListObjects
  <2>1. AtDynamic /\ SNode \notin ProcessLists /\ Scanning
    BY Zenon, <1>5, AtDynamicFacts DEF ListObjects
  <2>2. CASE Return(FALSE, "ENOENT") \/ Return(FALSE, "ENOTSUP") \/ Return(FALSE, "EPERM")
    <3>1. "ENOENT" # "none" /\ "ENOTSUP" # "none" /\ "EPERM" # "none"
      OBVIOUS
    <3> QED
      BY Zenon, <2>1, <2>2, <3>1, ReturnStep
  <2>3. CASE ~Return(FALSE, "ENOENT") /\ ~Return(FALSE, "ENOTSUP") /\ ~Return(FALSE, "EPERM")
    BY Zenon, <1>5, <2>1, <2>3, ListObjectsStep DEF ListObjects
  <2> QED
    BY Zenon, <2>2, <2>3
<1> QED
  BY Zenon, <1>1, <1>2, <1>3, <1>4, <1>5, EndOfWalkStep, SkipChildStep, ListProcessesStep,
     ProbePidStep, EndOfProbeStep, DropGoneStep, EndOfListStep DEF Scan

\* A scan starts at the beginning with everything still to come.
LEMMA OpenStep ==
  ASSUME FiniteFacts, TypeOK, Shape, pc = "idle", NEW d \in OpenDirs, NEW b \in Bufs, NEW t \in BOOLEAN,
         Open(d, b, t)
  PROVE  ScanInv' /\ NoneMissed' /\ NoneTwice'
<1>1. TypeOK' /\ Shape'
  BY Zenon, ShapeOpen
<1>2. /\ pc' = "walk" /\ dir' = d /\ child' = 1 /\ steady' = Within(d) /\ UNCHANGED systemVars
      /\ startpos' = 0 /\ nextpos' = 0 /\ listed' = << >>
  BY Zenon DEF Open, Shape
<1>3. Scanning' /\ ~Listing' /\ pc' \notin {"scan", "emit"} /\ pc' # "scan" /\ pc' # "done"
  BY <1>2 DEF Scanning, Listing
<1>4. Here' = Entries(d) /\ Within(dir)' = Within(d)
  BY Zenon, <1>2, SameEntries DEF Here
<1>5. DOMAIN listed' = {} /\ Returned' = {}
  BY <1>2 DEF Returned
<1>6. Due' = Here'
  <2>1. \A x \in Here' : Index(x)' >= 1
    BY Zenon, <1>1, <1>3, IndexPositiveNext DEF Counted
  <2> QED
    BY Zenon, <1>2, <2>1, DueIsNext
<1>7. \A e : Preceding(Here' \ Due', e) = {}
  BY Zenon, <1>6 DEF Preceding
<1>8. Missing'
  <2> SUFFICES ASSUME NEW e \in Within(d)
               PROVE  Coming(e)'
    BY Zenon, <1>2, <1>4 DEF Missing
  <2>1. e \in Due'
    BY Zenon, <1>4, <1>6 DEF Within
  <2>2. Size(Preceding(Due', e)) \in Nat
    <3>1. Preceding(Due', e) \in SUBSET Due'
      BY Zenon DEF Preceding
    <3>2. IsFiniteSet(Due')
      BY Zenon, <1>1, <1>3, ViewHoldsNext, ViewFiniteNext
    <3> QED
      BY Zenon, <3>1, <3>2, SizeMonotone
  <2>3. 0 <= Size({}) /\ 0 <= 0 + Size(Preceding(Due', e))
    BY <2>2, SizeEmpty
  <2>4. nextpos' <= Size(Preceding(Here' \ Due', e)) /\ startpos' <= nextpos' + Size(Preceding(Due', e))
    BY Zenon, <1>2, <1>7, <2>3
  <2> QED
    BY Zenon, <1>3, <2>1, <2>4 DEF Coming
<1>9. Reached'
  <2>1. Size({}) <= 0
    BY SizeEmpty
  <2> QED
    BY Zenon, <1>2, <1>7, <2>1 DEF Reached
<1>10. Repeat' /\ Passed' /\ Probed'
  BY Zenon, <1>3, <1>5 DEF Repeat, Passed, Probed
<1>11. Fits'
  <2>1. Pending' = {}
    BY Zenon, <1>3 DEF Pending
  <2> QED
    BY Zenon, <1>5, <2>1 DEF Fits
<1>12. NoneMissed' /\ NoneTwice'
  BY Zenon, <1>3, <1>5 DEF NoneMissed, NoneTwice, Finished
<1> QED
  BY Zenon, <1>8, <1>9, <1>10, <1>11, <1>12 DEF ScanInv

\* A change of the system: what was returned stays returned, and what is
\* excused stays so.
LEMMA SystemStep ==
  ASSUME FiniteFacts, TypeOK, Shape, TypeOK', Shape', ScanInv, NoneTwice, System
  PROVE  ScanInv' /\ NoneMissed' /\ NoneTwice'
<1>1. UNCHANGED scanVars /\ Observe /\ pc # "done"
  BY Zenon, SystemFacts
<1>2. pc' = pc /\ listed' = listed
  BY Zenon, <1>1 DEF scanVars, callVars
<1>3. pushed \subseteq pushed'
  BY Zenon, <1>1 DEF Observe, historyVars
<1>4. NoneMissed' /\ NoneTwice'
  BY Zenon, <1>1, <1>2, <1>3 DEF NoneMissed, NoneTwice, Finished
<1> QED
  BY Zenon, <1>4, ScanInvSystem

\* A step that changes nothing.
LEMMA StutterStep ==
  ASSUME FiniteFacts, TypeOK, Shape, ScanInv, NoneMissed, NoneTwice, UNCHANGED vars
  PROVE  ScanInv' /\ NoneMissed' /\ NoneTwice'
<1>1. /\ pc' = pc /\ child' = child /\ list' = list /\ probe' = probe /\ error' = error
      /\ listed' = listed /\ steady' = steady /\ pushed' = pushed
      /\ UNCHANGED <<systemVars, dir, historyVars, startpos, nextpos, listed>>
      /\ UNCHANGED <<systemVars, dir, historyVars, listed>>
      /\ UNCHANGED <<systemVars, dir, child>>
  BY Zenon DEF vars, scanVars, callVars, historyVars
<1>2. NoneMissed' /\ NoneTwice'
  BY Zenon, <1>1 DEF NoneMissed, NoneTwice, Finished, Returned
<1>3. CASE ~Scanning
  <2>1. ~Scanning' /\ pc' # "scan"
    BY <1>1, <1>3 DEF Scanning
  <2> QED
    BY Zenon, <1>2, <2>1 DEF ScanInv, Missing, Repeat, Reached, Passed, Fits, Probed
<1>4. CASE Scanning
  <2>1. Scanning'
    BY Zenon, <1>1, <1>4 DEF Scanning
  <2>2. /\ Here' = Here /\ VisiblePids' = VisiblePids /\ \A e : Index(e)' = Index(e)
    BY Zenon, <1>1, SameDirectory
  <2>3. Pending' = Pending
    <3>1. CASE Listing
      <4>1. Listing'
        BY Zenon, <1>1, <3>1 DEF Listing
      <4>2. Pending' = {DynamicEntry(dir, child, n) :
                          n \in {k \in list : SNode = "__Process_N__" => k \in live}}
        BY Zenon, <1>1, <4>1, PendingNext
      <4> QED
        BY Zenon, <3>1, <4>2 DEF Pending, Listing
    <3>2. CASE ~Listing
      BY Zenon, <1>1, <3>2 DEF Pending, Listing
    <3> QED
      BY Zenon, <3>1, <3>2
  <2>4. Due' = Due
    BY Zenon, <1>1, <2>2, <2>3 DEF Due
  <2>5. Fits'
    BY Zenon, <1>1, <1>4, <2>1, <2>3, FitsFewer DEF ScanInv
  <2>6. Probed'
    BY Zenon, <1>1, <2>2 DEF ScanInv, Probed
  <2>7. \A n \in list' : (Listing /\ n \in list) \/ \E x \in Here : x.slot = child' /\ x.key = n
    <3>1. pc = "walk" \/ Listing
      BY Zenon, <1>4 DEF Scanning, Listing
    <3> QED
      BY Zenon, <1>1, <3>1 DEF Shape
  <2> QED
    BY Zenon, <1>1, <1>4, <2>1, <2>4, <2>5, <2>6, <2>7, Stay
<1> QED
  BY Zenon, <1>3, <1>4

\* The invariant of the scan.
Inv == TypeOK /\ Shape /\ ScanInv /\ NoneMissed /\ NoneTwice

\* It holds at the start,
LEMMA InvInit == Init => Inv
<1> SUFFICES ASSUME Init
             PROVE  Inv
  OBVIOUS
<1>1. TypeOK /\ Shape
  BY Zenon, ShapeInit
<1>2. pc = "idle" /\ DOMAIN listed = {}
  BY DEF Init
<1>3. ~Scanning /\ pc # "scan" /\ pc # "done"
  BY <1>2 DEF Scanning
<1> QED
  BY Zenon, <1>1, <1>2, <1>3 DEF Inv, ScanInv, Missing, Repeat, Reached, Passed, Fits, Probed,
     NoneMissed, NoneTwice, Finished

\* and every step keeps it.
LEMMA InvNext == FiniteFacts /\ Inv /\ [Next]_vars => Inv'
<1> SUFFICES ASSUME FiniteFacts, Inv, [Next]_vars
             PROVE  Inv'
  OBVIOUS
<1>1. TypeOK /\ Shape /\ ScanInv /\ NoneMissed /\ NoneTwice
  BY Zenon DEF Inv
<1>2. TypeOK' /\ Shape'
  BY Zenon, <1>1, ShapeNext
<1>3. CASE Scan
  BY Zenon, <1>1, <1>2, <1>3, ScanStep DEF Inv
<1>4. CASE System
  BY Zenon, <1>1, <1>2, <1>4, SystemStep DEF Inv
<1>5. CASE pc = "idle" /\ \E d \in OpenDirs, b \in Bufs, t \in BOOLEAN : Open(d, b, t)
  BY Zenon, <1>1, <1>2, <1>5, OpenStep DEF Inv
<1>6. CASE UNCHANGED vars
  BY Zenon, <1>1, <1>2, <1>6, StutterStep DEF Inv
<1> QED
  BY Zenon, <1>3, <1>4, <1>5, <1>6 DEF Next

-----------------------------------------------------------------------------
(* The facts about finite sets that the lemmas assume, from the library.   *)

INSTANCE FiniteSetTheorems

\* They hold.
LEMMA FiniteHolds == FiniteFacts
<1>1. ASSUME NEW S, NEW T, NEW f \in [S -> T], IsFiniteSet(T), \A x, y \in S : f[x] = f[y] => x = y
      PROVE  IsFiniteSet(S)
  <2>1. f \in Injection(S, T)
    BY <1>1 DEF Injection, IsInjective
  <2> QED
    BY <1>1, <2>1, FS_Injection
<1>2. ASSUME NEW S, NEW x, IsFiniteSet(S)
      PROVE  IsFiniteSet(S \cup {x}) /\ (x \notin S => Cardinality(S \cup {x}) = Cardinality(S) + 1)
  BY <1>2, FS_AddElement
<1>3. ASSUME NEW S, NEW T, IsFiniteSet(S), IsFiniteSet(T)
      PROVE  IsFiniteSet(S \cup T) /\ IsFiniteSet(S \X T)
  BY Zenon, <1>3, FS_Union, FS_Product
<1>4. /\ IsFiniteSet({}) /\ Cardinality({}) = 0
      /\ \A S : IsFiniteSet(S) => Cardinality(S) \in Nat
      /\ \A S : IsFiniteSet(S) => \A T \in SUBSET S :
             /\ IsFiniteSet(T) /\ Cardinality(T) <= Cardinality(S)
             /\ Cardinality(S) = Cardinality(T) => S = T
  BY FS_EmptySet, FS_CardinalityType, FS_Subset
<1>5. \A n \in Nat : \A S \in SUBSET Nat : (\A s \in S : s <= n) => IsFiniteSet(S)
  BY FS_BoundedSetOfNaturals
<1> QED
  BY Zenon, <1>1, <1>2, <1>3, <1>4, <1>5 DEF FiniteFacts

\* A scan that ends without an error has returned every entry that the lists of
\* processes, threads and descriptors had room for all the time and before which
\* nothing went away (procfs_vnop_readdir copies from the start position of the
\* call on).
THEOREM NoneIsMissed == Spec => []NoneMissed
<1>1. Inv => NoneMissed
  BY Zenon DEF Inv
<1> QED
  BY <1>1, InvInit, InvNext, FiniteHolds, PTL DEF Spec

\* An entry returned twice is one that something new came before, or that went
\* away and came back: the position the next call starts from is never before
\* the end of an entry that was copied.
THEOREM NoneIsListedTwice == Spec => []NoneTwice
<1>1. Inv => NoneTwice
  BY Zenon DEF Inv
<1> QED
  BY <1>1, InvInit, InvNext, FiniteHolds, PTL DEF Spec
=============================================================================
