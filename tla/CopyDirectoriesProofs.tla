----------------------- MODULE CopyDirectoriesProofs -----------------------
(***************************************************************************)
(* The pipeline of CopyDirectories for any trees, of any depth and width:  *)
(* which frame may own a slot, which scanner may be at work at which line, *)
(* and what a call may find in its slots and lists; and what a backup may  *)
(* remove.                                                                 *)
(***************************************************************************)
EXTENDS CopyDirectories, FiniteSetTheorems, SequenceTheorems, TLAPS

-----------------------------------------------------------------------------
(* The inductive invariant. *)

\* Where a call is in its loop.
Processing == {"extraFiles", "extraDirs", "directory", "files", "subdirs", "attributes"}
Calling    == {"directory", "attributes"}

\* The trees whose scan has been ordered in this turn.
OrderedAt(p) == IF p = "orderSrc" THEN {}
                ELSE IF p = "orderRef" THEN {"src"}
                ELSE IF p = "orderDst" THEN {"src", "ref"} ELSE Scanner

ScanSlot(g) == g.slot[g.index % 2]
ReadSlot(g) == g.slot[(g.index + 1) % 2]

\* The loop has one turn more than there are directories.
IndexOK(g) ==
  /\ g.index <= Len(g.dirs) + 1
  /\ g.pc \in {Ordering(s) : s \in Scanner} => g.index < Len(g.dirs)
  /\ g.pc \in {Waiting(s) : s \in Scanner} => g.index <= Len(g.dirs)
  /\ g.pc \in Processing \union {"merge"} => g.index \in 1 .. Len(g.dirs)

\* The slot that is read has the directory before, the other one the next.
SlotsOK(g) ==
  /\ \A i \in {0, 1}, s \in Scanner : s \notin g.slot[i].path => g.slot[i].lists[s] = [dirs |-> {}, files |-> {}]
  /\ g.pc # "leave" =>
       /\ IF g.index \in 1 .. Len(g.dirs)
          THEN ReadSlot(g).idx = g.index - 1 /\ ReadSlot(g).path = g.dirs[g.index].in
          ELSE ReadSlot(g) = EmptySlot
       /\ IF g.pc # "turn" /\ g.index < Len(g.dirs)
          THEN /\ ScanSlot(g).idx = g.index
               /\ ScanSlot(g).path = g.dirs[g.index + 1].in \intersect OrderedAt(g.pc)
          ELSE ScanSlot(g) = EmptySlot

\* Matches of different names.
Distinct(M) == \A m, n \in M : m.name = n.name => m = n

WorkOK(g) ==
  /\ Distinct(g.work.extraDirs) /\ Distinct(g.work.copyDirs)
  /\ \A m \in g.work.extraDirs : m.in \subseteq {"dst"}
  /\ g.pc # "leave" =>
       /\ g.index \notin 1 .. Len(g.dirs) => g.work = NoWork
       /\ g.work.copyFiles # {} => "src" \in ReadSlot(g).path
       /\ \A m \in g.work.copyDirs : "src" \in m.in /\ m.in \subseteq ReadSlot(g).path

\* A call is for some directories, none of which is in a tree it has no path of.
CallOK(g) ==
  /\ g \in Frame
  /\ Len(g.dirs) > 0
  /\ \A i \in 1 .. Len(g.dirs) : g.dirs[i].in \subseteq g.optional \union {"dst"}
  /\ \A i \in {0, 1} : g.slot[i].idx \in Unset .. Len(g.dirs) - 1
  /\ IndexOK(g) /\ SlotsOK(g) /\ WorkOK(g)

StackInv ==
  /\ stack \in Seq(Frame)
  /\ \A d \in 1 .. Len(stack) : CallOK(stack[d])
  /\ \A d \in 1 .. Len(stack) - 1 : stack[d].pc \in Calling

\* The scanners that may be at work, or have results that nobody has taken.
MayScan(p) == IF p \in {"merge", "waitSrc", "leave"} THEN Scanner
              ELSE IF p = "waitRef" THEN {"ref", "dst"}
              ELSE IF p = "waitDst" THEN {"dst"}
              ELSE IF p \in Processing \union {"turn"} THEN {} ELSE OrderedAt(p)

\* They work for the innermost call, on the next directory, into its slot.
ScanInv ==
  stack # <<>> =>
    \A s \in Scanner : scanner[s].state # "idle" =>
      /\ s \in MayScan(f.pc)
      /\ scanner[s].depth = Len(stack)
      /\ scanner[s].slot = ScanIndex
      /\ f.index < Len(f.dirs)
      /\ f.slot[ScanIndex].idx = f.index
      /\ s \in f.slot[ScanIndex].path
      /\ scanner[s].path = Append(f.path, f.dirs[f.index + 1].name)
      /\ scanner[s].state = "running" => f.slot[ScanIndex].lists[s] = NoLists

\* The same for the roots.  Those of ref and dst are scanned once, in the first
\* turn, in which group is still empty when the scan of the source is ordered.
RootInv ==
  /\ pc = "copy" <=> stack # <<>>
  /\ pc \in {"idle", "roots"} => /\ \A s \in Scanner : Free(s) /\ root[s] = NoLists
                                 /\ group = {}
  /\ stack = <<>> => \A s \in Scanner : scanner[s].state # "idle" =>
       /\ scanner[s].depth = 0 /\ scanner[s].path = <<>>
       /\ scanner[s].state = "running" => root[s] = NoLists
       /\ pc # "leave" /\ s # "src" => Exists(s)
  /\ pc = "group" => Free("src") /\ (group # {} => \A s \in Scanner : Free(s))
  /\ pc = "waitDst" => Free("ref")
  /\ pc = "waitSrc" => Free("ref") /\ Free("dst")
  /\ pc \in {Waiting(s) : s \in Scanner} =>
       /\ ~Free("src") /\ group # {}
       /\ scanner["src"].state = "lists" => root["src"].dirs = group

\* What a call was asked for are directories of the source.
AskedInv ==
  /\ tree["src"] \in Trees
  /\ group \subseteq Asked
  /\ \A g \in todo : g # {} /\ g \subseteq Asked

PipelineInv == DataType /\ StackInv /\ ScanInv /\ RootInv /\ AskedInv

-----------------------------------------------------------------------------
(* The order of the matches. *)

LEMMA Least ==
  ASSUME NEW S \in SUBSET Nat, S # {}
  PROVE  \E m \in S : \A n \in S : m <= n
<1> DEFINE T == {0 .. n : n \in S}
<1>1. T \subseteq FiniteSubsetsOf(Nat) /\ T # {}
  <2>1. \A n \in S : IsFiniteSet(0 .. n) /\ 0 .. n \subseteq Nat
    BY FS_Interval
  <2>2. QED
    BY <2>1 DEF FiniteSubsetsOf
<1>2. PICK x \in T : \A y \in T : <<y, x>> \notin StrictSubsetOrdering(Nat)
  <2> HIDE DEF T
  <2>1. QED
    BY <1>1, FS_StrictSubsetOrderingWellFounded, WFMin
<1>3. PICK m \in S : x = 0 .. m
  BY <1>2
<1>4. ASSUME NEW n \in S, n < m PROVE FALSE
  <2>1. 0 .. n \subseteq 0 .. m /\ 0 .. n # 0 .. m
    <3>1. m \in 0 .. m /\ m \notin 0 .. n /\ n \in Nat /\ m \in Nat
      BY <1>4
    <3>2. QED
      BY <3>1, <1>4
  <2>2. 0 .. n \in SUBSET Nat /\ 0 .. m \in SUBSET Nat
    OBVIOUS
  <2>3. <<0 .. n, 0 .. m>> \in StrictSubsetOrdering(Nat)
    BY <2>1, <2>2 DEF StrictSubsetOrdering
  <2>4. QED
    BY <2>3, <1>2, <1>3
<1>5. QED
  BY <1>4

LEMMA DistinctFinite ==
  ASSUME NEW M \in SUBSET Match, Distinct(M)
  PROVE  IsFiniteSet(M)
<1> DEFINE name == [m \in M |-> m.name]
<1>1. name \in Injection(M, Names)
  BY DEF Match, Distinct, Injection, IsInjective
<1>2. QED
  BY <1>1, FS_Injection, ConstantsAssumption

Smaller(M, m) == {n \in M : n.name < m.name}

LEMMA RankExists ==
  ASSUME NEW M \in SUBSET Match, Distinct(M), NEW k \in Nat, k < Cardinality(M)
  PROVE  \E m \in M : Cardinality(Smaller(M, m)) = k
<1> DEFINE Missing == {j \in Nat : j < Cardinality(M) /\ ~ \E m \in M : Cardinality(Smaller(M, m)) = j}
<1>1. IsFiniteSet(M) /\ Cardinality(M) \in Nat
  BY DistinctFinite, FS_CardinalityType
<1>2. ASSUME NEW R \in SUBSET M, R # {} PROVE \E m \in R : \A n \in R : m.name <= n.name
  <2>1. {m.name : m \in R} \in SUBSET Nat /\ {m.name : m \in R} # {}
    BY <1>2, ConstantsAssumption DEF Match
  <2>2. PICK x \in {m.name : m \in R} : \A y \in {m.name : m \in R} : x <= y
    BY <2>1, Least
  <2>3. QED
    BY <2>2
<1>3. \A m \in M : m.name \in Nat
  BY ConstantsAssumption DEF Match
<1>4. ASSUME NEW j \in Missing, \A i \in Missing : j <= i PROVE FALSE
  <2>1. CASE j = 0
    <3>1. M # {}
      BY <1>4, <1>1, FS_EmptySet
    <3>2. PICK m \in M : \A n \in M : m.name <= n.name
      BY <3>1, <1>2
    <3>3. Smaller(M, m) = {}
      BY <3>2, <1>3 DEF Smaller
    <3>4. QED
      BY <3>3, <2>1, <1>4, FS_EmptySet
  <2>2. CASE j # 0
    <3>1. j - 1 \in Nat /\ j - 1 \notin Missing /\ j - 1 < Cardinality(M)
      BY <1>4, <2>2, <1>1
    <3>2. PICK m \in M : Cardinality(Smaller(M, m)) = j - 1
      BY <3>1
    <3> DEFINE R == M \ (Smaller(M, m) \union {m})
    <3>3. IsFiniteSet(Smaller(M, m)) /\ Smaller(M, m) \subseteq M /\ m \notin Smaller(M, m)
      <4>1. Smaller(M, m) \in SUBSET M
        BY DEF Smaller
      <4>2. QED
        BY <4>1, <1>1, <1>3, FS_Subset DEF Smaller
    <3>4. /\ IsFiniteSet(Smaller(M, m) \union {m})
          /\ Cardinality(Smaller(M, m) \union {m}) = j
      BY <3>1, <3>2, <3>3, FS_AddElement
    <3>5. R # {}
      BY <3>3, <3>4, <1>4, <1>1
    <3>6. PICK r \in R : \A n \in R : r.name <= n.name
      BY <3>5, <1>2
    <3>7. r \in M /\ ~ (r.name < m.name) /\ r # m
      BY <3>6 DEF Smaller
    <3>8. m.name < r.name
      BY <3>7, <1>3 DEF Distinct
    <3>9. Smaller(M, r) = Smaller(M, m) \union {m}
      <4>1. ASSUME NEW n \in M, n.name < r.name PROVE n \in Smaller(M, m) \union {m}
        BY <4>1, <3>6, <1>3
      <4>2. ASSUME NEW n \in Smaller(M, m) PROVE n \in M /\ n.name < r.name
        BY <4>2, <3>7, <3>8, <1>3 DEF Smaller
      <4>3. QED
        BY <4>1, <4>2, <3>8, <3>3 DEF Smaller
    <3>10. QED
      BY <3>9, <3>4, <3>7, <1>4
  <2>3. QED
    BY <2>1, <2>2
<1>5. Missing = {}
  <2>1. Missing \in SUBSET Nat
    OBVIOUS
  <2> HIDE DEF Missing
  <2>2. QED
    BY <2>1, <1>4, Least
<1>6. QED
  BY <1>5

\* The directories of a call are those it was given, all of them.
LEMMA InOrderType ==
  ASSUME NEW M \in SUBSET Match, Distinct(M)
  PROVE  /\ InOrder(M) \in Seq(M)
         /\ Len(InOrder(M)) = Cardinality(M)
         /\ M # {} => Len(InOrder(M)) > 0
<1>1. IsFiniteSet(M) /\ Cardinality(M) \in Nat
  BY DistinctFinite, FS_CardinalityType
<1>2. InOrder(M) = [i \in 1 .. Cardinality(M) |-> CHOOSE m \in M : Cardinality(Smaller(M, m)) = i - 1]
  BY DEF InOrder, Smaller
<1>3. ASSUME NEW i \in 1 .. Cardinality(M) PROVE (CHOOSE m \in M : Cardinality(Smaller(M, m)) = i - 1) \in M
  <2>1. i - 1 \in Nat /\ i - 1 < Cardinality(M)
    BY <1>1
  <2>2. QED
    BY <2>1, RankExists
<1>4. InOrder(M) \in [1 .. Cardinality(M) -> M]
  BY <1>2, <1>3
<1>5. QED
  BY <1>4, <1>1, FS_EmptySet, SeqDef

-----------------------------------------------------------------------------
(* Calls and their parts. *)

LEMMA Parity ==
  ASSUME NEW n \in Nat
  PROVE  /\ n % 2 \in {0, 1} /\ (n + 1) % 2 \in {0, 1} /\ n % 2 # (n + 1) % 2
         /\ (n + 1 + 1) % 2 = n % 2
         /\ \A i \in {0, 1} : i = n % 2 \/ i = (n + 1) % 2
<1>1. n % 2 \in {0, 1} /\ (n + 1) % 2 = 1 - (n % 2) /\ (n + 1 + 1) % 2 = n % 2
  BY SMT
<1>2. QED
  BY <1>1

LEMMA MatchesType ==
  ASSUME NEW names \in SUBSET Names, NEW lists, NEW kind
  PROVE  /\ Matches(names, lists, kind) \in SUBSET Match
         /\ Distinct(Matches(names, lists, kind))
         /\ names # {} => Matches(names, lists, kind) # {}
         /\ \A m \in Matches(names, lists, kind) : m.name \in names /\ m.in \subseteq Scanner
<1> DEFINE made(n) == [name |-> n, in |-> {s \in Scanner : n \in lists[s][kind]}]
<1>1. Matches(names, lists, kind) = {made(n) : n \in names}
  BY DEF Matches
<1>2. \A n \in names : made(n) \in Match /\ made(n).name = n /\ made(n).in \subseteq Scanner
  BY DEF Match
<1> HIDE DEF made
<1>3. \A m \in Matches(names, lists, kind) :
        m \in Match /\ m.name \in names /\ m = made(m.name) /\ m.in \subseteq Scanner
  BY <1>1, <1>2
<1>4. Distinct(Matches(names, lists, kind))
  BY <1>3, Zenon DEF Distinct
<1>5. names # {} => Matches(names, lists, kind) # {}
  BY <1>1
<1>6. QED
  BY <1>3, <1>4, <1>5

LEMMA MatchedDirs ==
  ASSUME NEW names \in SUBSET Names, NEW lists, NEW m \in Matches(names, lists, "dirs")
  PROVE  \A s \in Scanner : s \in m.in <=> m.name \in lists[s].dirs
BY DEF Matches

LEMMA FrameParts ==
  ASSUME NEW g \in Frame
  PROVE  /\ g.optional \in SUBSET {"src", "ref"} /\ g.path \in Path
         /\ g.dirs \in Seq(Match) /\ g.index \in Nat /\ Len(g.dirs) \in Nat
         /\ g.slot \in [{0, 1} -> Slot] /\ g.pc \in FramePc
         /\ ScanSlot(g) \in Slot /\ ReadSlot(g) \in Slot
         /\ \A i \in 1 .. Len(g.dirs) : g.dirs[i] \in Match
         /\ g.work.extraFiles \in SUBSET Names /\ g.work.extraDirs \in SUBSET Match
         /\ g.work.copyFiles \in SUBSET Match /\ g.work.copyDirs \in SUBSET Match
<1>1. /\ g.optional \in SUBSET {"src", "ref"} /\ g.path \in Path
      /\ g.dirs \in Seq(Match) /\ g.index \in Nat
      /\ g.slot \in [{0, 1} -> Slot] /\ g.pc \in FramePc
      /\ g.work \in [extraFiles : SUBSET Names, extraDirs : SUBSET Match,
                     copyFiles : SUBSET Match, copyDirs : SUBSET Match]
  BY DEF Frame
<1>2. ScanSlot(g) \in Slot /\ ReadSlot(g) \in Slot
  BY <1>1, Parity DEF ScanSlot, ReadSlot
<1>3. Len(g.dirs) \in Nat /\ \A i \in 1 .. Len(g.dirs) : g.dirs[i] \in Match
  BY <1>1, ElementOfSeq, LenProperties
<1>4. QED
  BY <1>1, <1>2, <1>3

LEMMA SlotType ==
  /\ EmptySlot \in Slot
  /\ EmptySlot.lists \in [Scanner -> Lists]
  /\ NoLists \in Lists
  /\ \A s \in Scanner : EmptySlot.lists[s] = NoLists
BY DEF EmptySlot, Slot, Lists, NoLists, Unset

\* A call starts with nothing but its arguments.
LEMMA CallStarts ==
  ASSUME NEW M \in SUBSET Match, Distinct(M), M # {},
         NEW optional \in SUBSET {"src", "ref"}, NEW path \in Path,
         \A m \in M : m.in \subseteq optional \union {"dst"}
  PROVE  /\ CallOK(Call(optional, path, M))
         /\ Call(optional, path, M).pc = "turn"
<1> DEFINE g == Call(optional, path, M)
<1>1. g.dirs \in Seq(M) /\ Len(g.dirs) > 0 /\ Len(g.dirs) \in Nat
  BY InOrderType, LenProperties DEF Call
<1>2. \A i \in 1 .. Len(g.dirs) : g.dirs[i] \in M
  BY <1>1, ElementOfSeq
<1>3. g.dirs \in Seq(Match)
  BY <1>1, SeqMonotonic
<1>4. /\ g.optional = optional /\ g.path = path /\ g.index = 0 /\ g.pc = "turn" /\ g.work = NoWork
      /\ g.slot = [i \in {0, 1} |-> EmptySlot]
  BY DEF Call
<1>5. g \in Frame
  BY <1>3, SlotType DEF Call, Frame, FramePc, NoWork
<1>6. IndexOK(g)
  BY <1>4, <1>1 DEF IndexOK, Ordering, Waiting, Scanner, Processing
<1>7. ScanSlot(g) = EmptySlot /\ ReadSlot(g) = EmptySlot
  BY <1>4, Parity DEF ScanSlot, ReadSlot
<1>8. SlotsOK(g)
  BY <1>4, <1>7, SlotType DEF SlotsOK, NoLists
<1>9. WorkOK(g)
  BY <1>4, <1>1 DEF WorkOK, NoWork, Distinct
<1>10. \A i \in {0, 1} : g.slot[i].idx \in Unset .. Len(g.dirs) - 1
  BY <1>4, <1>1 DEF EmptySlot, Unset
<1>11. QED
  BY <1>1, <1>2, <1>4, <1>5, <1>6, <1>8, <1>9, <1>10 DEF CallOK

\* From line to line while a directory is processed, with less and less to do.
LEMMA Proceeds ==
  ASSUME NEW g, CallOK(g), g.pc \in Processing,
         NEW h \in Frame, h.pc \in Processing \union {"leave"},
         h.optional = g.optional, h.dirs = g.dirs, h.index = g.index, h.slot = g.slot,
         h.work.extraDirs \subseteq g.work.extraDirs,
         h.work.copyFiles \subseteq g.work.copyFiles, h.work.copyDirs = g.work.copyDirs
  PROVE  CallOK(h)
<1>1. g \in Frame
  BY DEF CallOK
<1>2. ScanSlot(h) = ScanSlot(g) /\ ReadSlot(h) = ReadSlot(g)
  BY DEF ScanSlot, ReadSlot
<1>3. IndexOK(h)
  BY DEF CallOK, IndexOK, Processing, Ordering, Waiting, Scanner
<1>4. SlotsOK(h)
  <2>1. OrderedAt(g.pc) = Scanner /\ OrderedAt(h.pc) = Scanner /\ g.pc # "turn" /\ h.pc # "turn" /\ g.pc # "leave"
    BY DEF OrderedAt, Processing
  <2>2. QED
    BY <1>2, <2>1 DEF CallOK, SlotsOK
<1>5. WorkOK(h)
  <2>1. g.pc # "leave" /\ g.index \in 1 .. Len(g.dirs)
    BY DEF Processing, CallOK, IndexOK
  <2>2. QED
    BY <1>2, <2>1 DEF CallOK, WorkOK, Distinct
<1>6. QED
  BY <1>3, <1>4, <1>5 DEF CallOK

\* An exception ends the call at any line.
LEMMA Leaves ==
  ASSUME NEW g, CallOK(g)
  PROVE  CallOK([g EXCEPT !.pc = "leave"])
<1> DEFINE h == [g EXCEPT !.pc = "leave"]
<1>1. g \in Frame
  BY DEF CallOK
<1>2. /\ h \in Frame /\ h.pc = "leave" /\ h.work = g.work /\ h.optional = g.optional /\ h.dirs = g.dirs
      /\ h.index = g.index /\ h.slot = g.slot
  BY <1>1 DEF Frame, FramePc
<1>3. QED
  BY <1>2 DEF CallOK, IndexOK, SlotsOK, WorkOK, Processing, Ordering, Waiting, Scanner

-----------------------------------------------------------------------------
(* Steps of the innermost call. *)

LEMMA Innermost ==
  ASSUME StackInv, stack # <<>>
  PROVE  /\ Len(stack) \in Nat /\ Len(stack) > 0 /\ CallOK(f) /\ f \in Frame
         /\ stack \in [1 .. Len(stack) -> Frame]
         /\ ScanIndex \in {0, 1} /\ ReadIndex \in {0, 1} /\ ScanIndex # ReadIndex
         /\ ScanSlot(f) = f.slot[ScanIndex] /\ ReadSlot(f) = read
<1>1. Len(stack) \in Nat /\ Len(stack) > 0 /\ stack \in [1 .. Len(stack) -> Frame]
  BY EmptySeq, LenProperties DEF StackInv
<1>2. CallOK(f) /\ f \in Frame
  BY <1>1 DEF StackInv, f, CallOK
<1>3. f.index \in Nat
  BY <1>2, FrameParts
<1>4. QED
  BY <1>1, <1>2, <1>3, Parity DEF ScanIndex, ReadIndex, ScanSlot, ReadSlot, read

LEMMA TopChanges ==
  ASSUME StackInv, stack # <<>>, NEW g, CallOK(g),
         stack' = [stack EXCEPT ![Len(stack)] = g]
  PROVE  StackInv' /\ stack' # <<>> /\ Len(stack') = Len(stack) /\ f' = g
<1>1. Len(stack) \in 1 .. Len(stack) /\ g \in Frame /\ stack \in Seq(Frame)
  BY Innermost DEF StackInv, CallOK
<1>2. /\ stack' \in Seq(Frame) /\ Len(stack') = Len(stack)
      /\ \A d \in 1 .. Len(stack) : stack'[d] = IF d = Len(stack) THEN g ELSE stack[d]
  BY <1>1, ExceptSeq
<1>3. f' = g
  BY <1>1, <1>2 DEF f
<1>4. stack' # <<>>
  BY <1>1, <1>2, EmptySeq
<1>5. \A d \in 1 .. Len(stack') : CallOK(stack'[d])
  BY <1>1, <1>2 DEF StackInv
<1>6. ASSUME NEW d \in 1 .. Len(stack') - 1 PROVE stack'[d].pc \in Calling
  <2>1. Len(stack) \in Nat
    BY Innermost
  <2>2. Len(stack') = Len(stack)
    BY <1>2
  <2>3. d \in 1 .. Len(stack) - 1
    BY <2>2
  <2>4. d \in 1 .. Len(stack) /\ d # Len(stack)
    BY <2>1, <2>3
  <2>5. QED
    BY <2>3, <2>4, <1>2 DEF StackInv
<1>7. QED
  BY <1>2, <1>3, <1>4, <1>5, <1>6 DEF StackInv

LEMMA CallBegins ==
  ASSUME StackInv, stack # <<>>, NEW g, CallOK(g), g.pc \in Calling, NEW h, CallOK(h),
         stack' = Append([stack EXCEPT ![Len(stack)] = g], h)
  PROVE  StackInv' /\ stack' # <<>> /\ Len(stack') = Len(stack) + 1 /\ f' = h
<1> DEFINE base == [stack EXCEPT ![Len(stack)] = g]
<1>1. Len(stack) \in 1 .. Len(stack) /\ g \in Frame /\ h \in Frame /\ stack \in Seq(Frame)
  BY Innermost DEF StackInv, CallOK
<1>2. /\ base \in Seq(Frame) /\ Len(base) = Len(stack)
      /\ \A d \in 1 .. Len(stack) : base[d] = IF d = Len(stack) THEN g ELSE stack[d]
  BY <1>1, ExceptSeq
<1> HIDE DEF base
<1>3. stack' = Append(base, h)
  BY DEF base
<1>4. /\ stack' \in Seq(Frame) /\ Len(stack') = Len(stack) + 1 /\ stack' # <<>>
      /\ stack'[Len(stack) + 1] = h
      /\ \A d \in 1 .. Len(stack) : stack'[d] = base[d]
  BY <1>1, <1>2, <1>3, AppendProperties
<1>5. \A d \in 1 .. Len(stack') : CallOK(stack'[d])
  BY <1>1, <1>2, <1>4 DEF StackInv
<1>6. \A d \in 1 .. Len(stack') - 1 : stack'[d].pc \in Calling
  BY <1>1, <1>2, <1>4 DEF StackInv
<1>7. QED
  BY <1>4, <1>5, <1>6 DEF StackInv, f

LEMMA Quiet ==
  ASSUME ScanInv, stack # <<>>, f.pc \in Processing \union {"turn"}
  PROVE  \A s \in Scanner : Free(s)
<1>1. MayScan(f.pc) = {}
  BY DEF MayScan, Processing
<1>2. QED
  BY <1>1 DEF ScanInv, Free

LEMMA QuietStays ==
  ASSUME \A s \in Scanner : Free(s), scanner' = scanner
  PROVE  ScanInv'
BY DEF ScanInv, Free

\* What a step within a call leaves alone.
LEMMA WithinCall ==
  ASSUME PipelineInv, stack # <<>>, StackInv', stack' # <<>>, ScanInv', DataType',
         UNCHANGED backup, tree'["src"] = tree["src"]
  PROVE  PipelineInv'
<1>1. pc = "copy" /\ pc' = "copy"
  BY DEF PipelineInv, RootInv, backup
<1>2. RootInv'
  BY <1>1 DEF RootInv, Waiting, Scanner
<1>3. AskedInv'
  BY DEF PipelineInv, AskedInv, Asked, backup
<1>4. QED
  BY <1>2, <1>3 DEF PipelineInv

LEMMA WriteTypes ==
  ASSUME DataType, NEW dirs \in SUBSET Path, NEW files \in SUBSET Path, NEW done, NEW touched,
         Write(dirs, files, done, touched)
  PROVE  /\ tree' \in [Scanner -> Tree] /\ fresh' \subseteq Path /\ before' \in Tree /\ dryRun' \in BOOLEAN
         /\ tree'["src"] = tree["src"] /\ tree'["ref"] = tree["ref"]
         /\ IF dryRun THEN dst' = dst ELSE dst' = [dirs |-> dirs, files |-> files]
         /\ before' = before /\ dryRun' = dryRun
BY DEF DataType, Write, Tree, dst, Scanner

\* A step that processes a directory, when no scanner is at work.
LEMMA ProcessingStep ==
  ASSUME PipelineInv, stack # <<>>, f.pc \in Processing,
         NEW h \in Frame, h.pc \in Processing \union {"leave"},
         h.optional = f.optional, h.dirs = f.dirs, h.index = f.index, h.slot = f.slot,
         h.work.extraDirs \subseteq f.work.extraDirs,
         h.work.copyFiles \subseteq f.work.copyFiles, h.work.copyDirs = f.work.copyDirs,
         stack' = [stack EXCEPT ![Len(stack)] = h],
         UNCHANGED <<scanner, backup>>, tree'["src"] = tree["src"], DataType'
  PROVE  PipelineInv'
<1>1. CallOK(h)
  BY Innermost, Proceeds DEF PipelineInv
<1>2. StackInv' /\ stack' # <<>>
  BY <1>1, TopChanges DEF PipelineInv
<1>3. ScanInv'
  BY Quiet, QuietStays DEF PipelineInv
<1>4. QED
  BY <1>2, <1>3, WithinCall

-----------------------------------------------------------------------------
(* The turns of the loop, and the scans ordered in them. *)

\* The directory that is processed.
LEMMA ReadIsCurrent ==
  ASSUME StackInv, stack # <<>>, f.pc \in Processing \union {"merge"}
  PROVE  /\ f.index \in 1 .. Len(f.dirs) /\ read.idx = f.index - 1
         /\ match = f.dirs[f.index] /\ match \in Match /\ read.path = match.in
         /\ here \in Path /\ \A n \in Names : inner(n) \in Path
<1>1. f \in Frame /\ CallOK(f) /\ ReadSlot(f) = read
  BY Innermost
<1>2. f.index \in 1 .. Len(f.dirs) /\ read.idx = f.index - 1 /\ read.path = f.dirs[f.index].in
  BY <1>1 DEF CallOK, IndexOK, SlotsOK, Processing
<1>3. match = f.dirs[f.index] /\ match \in Match
  BY <1>1, <1>2, FrameParts DEF match
<1>4. here \in Path
  BY <1>1, <1>3, FrameParts, AppendProperties DEF here, Path, Match
<1>5. \A n \in Names : inner(n) \in Path
  BY <1>4, AppendProperties DEF inner, Path
<1>6. QED
  BY <1>2, <1>3, <1>4, <1>5

LEMMA TurnStep ==
  ASSUME PipelineInv, Turn
  PROVE  PipelineInv'
<1>1. StackInv /\ ScanInv /\ stack # <<>> /\ f.pc = "turn"
  BY DEF PipelineInv, Turn, at
<1>2. /\ f \in Frame /\ CallOK(f) /\ ScanIndex \in {0, 1} /\ ReadIndex \in {0, 1} /\ ScanIndex # ReadIndex
      /\ ScanSlot(f) = f.slot[ScanIndex] /\ ReadSlot(f) = f.slot[ReadIndex]
      /\ f.index \in Nat /\ Len(f.dirs) \in Nat
  BY <1>1, Innermost, FrameParts DEF read
<1>3. PICK g : CallOK(g) /\ stack' = [stack EXCEPT ![Len(stack)] = g]
  <2>1. CASE f.index > Len(f.dirs)
    BY <2>1, <1>2, Leaves DEF Turn, Goto, Top
  <2>2. CASE f.index = Len(f.dirs)
    <3> DEFINE h == [f EXCEPT !.pc = "merge"]
    <3>1. stack' = [stack EXCEPT ![Len(stack)] = h]
      BY <2>2, <1>2 DEF Turn, Goto, Top
    <3>2. /\ h \in Frame /\ h.pc = "merge" /\ h.index = f.index /\ h.dirs = f.dirs /\ h.slot = f.slot
          /\ h.work = f.work /\ h.optional = f.optional
      <4>1. f \in Frame /\ "merge" \in FramePc
        BY <1>2 DEF FramePc
      <4>2. QED
        BY <4>1 DEF Frame
    <3>3. ScanSlot(h) = ScanSlot(f) /\ ReadSlot(h) = ReadSlot(f)
      BY <3>2 DEF ScanSlot, ReadSlot
    <3> HIDE DEF h
    <3>4. CallOK(h)
      <4>1. IndexOK(h)
        BY <3>2, <2>2, <1>1, <1>2 DEF CallOK, IndexOK, Processing, Ordering, Waiting, Scanner
      <4>2. SlotsOK(h)
        BY <3>2, <3>3, <2>2, <1>1, <1>2 DEF CallOK, SlotsOK
      <4>3. WorkOK(h)
        BY <3>2, <3>3, <1>1, <1>2 DEF CallOK, WorkOK
      <4>4. QED
        BY <3>2, <4>1, <4>2, <4>3, <1>2 DEF CallOK
    <3>5. QED
      BY <3>1, <3>4
  <2>3. CASE f.index < Len(f.dirs)
    <3> DEFINE h == [f EXCEPT !.slot[ScanIndex].idx = f.index, !.pc = "orderSrc"]
    <3>1. stack' = [stack EXCEPT ![Len(stack)] = h]
      BY <2>3, <1>2 DEF Turn, Goto, Top
    <3>2. f.slot[ScanIndex] = EmptySlot
      BY <1>1, <1>2 DEF CallOK, SlotsOK
    <3>3. /\ h.pc = "orderSrc" /\ h.index = f.index /\ h.dirs = f.dirs /\ h.path = f.path
          /\ h.slot = [f.slot EXCEPT ![ScanIndex] = [EmptySlot EXCEPT !.idx = f.index]]
          /\ h.work = f.work /\ h.optional = f.optional /\ h \in Frame
      <4>1. [EmptySlot EXCEPT !.idx = f.index] \in Slot
        BY <1>2, SlotType DEF Slot
      <4>2. h = [f EXCEPT !.slot[ScanIndex] = [EmptySlot EXCEPT !.idx = f.index], !.pc = "orderSrc"]
        BY <3>2
      <4>3. "orderSrc" \in FramePc
        BY DEF FramePc
      <4>4. f \in Frame /\ ScanIndex \in {0, 1}
        BY <1>2
      <4> HIDE DEF h
      <4>5. QED
        BY <4>1, <4>2, <4>3, <4>4 DEF Frame
    <3>4. /\ h.slot[ScanIndex].idx = f.index /\ h.slot[ScanIndex].path = {}
          /\ h.slot[ScanIndex].lists = EmptySlot.lists
          /\ h.slot[ReadIndex] = f.slot[ReadIndex]
      BY <3>3, <1>2, FrameParts DEF EmptySlot
    <3>5. ScanSlot(h) = h.slot[ScanIndex] /\ ReadSlot(h) = ReadSlot(f)
      BY <3>3, <3>4, <1>2 DEF ScanSlot, ReadSlot, ScanIndex, ReadIndex
    <3>6. IndexOK(h)
      BY <3>3, <2>3, <1>2 DEF IndexOK, Processing, Ordering, Waiting, Scanner
    <3>7. SlotsOK(h)
      <4>1. \A i \in {0, 1}, s \in Scanner : s \notin h.slot[i].path =>
              h.slot[i].lists[s] = [dirs |-> {}, files |-> {}]
        BY <3>4, <1>2, SlotType DEF NoLists, CallOK, SlotsOK
      <4>2. QED
        BY <4>1, <3>3, <3>4, <3>5, <1>1, <1>2, <2>3 DEF CallOK, SlotsOK, OrderedAt
    <3>8. WorkOK(h)
      BY <3>3, <3>5, <1>1, <1>2 DEF CallOK, WorkOK
    <3>9. \A i \in {0, 1} : h.slot[i].idx \in Unset .. Len(h.dirs) - 1
      BY <3>3, <3>4, <1>2, <2>3 DEF CallOK, Unset
    <3>10. QED
      BY <3>1, <3>3, <3>6, <3>7, <3>8, <3>9, <1>2 DEF CallOK
  <2>4. QED
    BY <2>1, <2>2, <2>3, <1>2
<1>4. StackInv' /\ stack' # <<>>
  BY <1>1, <1>3, TopChanges
<1>5. ScanInv'
  BY <1>1, Quiet, QuietStays DEF Turn
<1>6. QED
  BY <1>1, <1>4, <1>5, WithinCall DEF Turn, UnchangedAround, trees, backup, PipelineInv, DataType

LEMMA OrderScanStep ==
  ASSUME PipelineInv, NEW s \in Scanner, OrderScan(s)
  PROVE  PipelineInv'
<1>1. StackInv /\ ScanInv /\ stack # <<>> /\ f.pc = Ordering(s)
  BY DEF PipelineInv, OrderScan, at
<1>2. /\ f \in Frame /\ CallOK(f) /\ ScanIndex \in {0, 1} /\ ReadIndex \in {0, 1} /\ ScanIndex # ReadIndex
      /\ ScanSlot(f) = f.slot[ScanIndex] /\ ReadSlot(f) = f.slot[ReadIndex]
      /\ f.index \in Nat /\ Len(f.dirs) \in Nat /\ f.slot \in [{0, 1} -> Slot]
      /\ Len(stack) \in Nat
  BY <1>1, Innermost, FrameParts DEF read
<1> DEFINE next == f.dirs[f.index + 1]
           added == IF s \in next.in THEN {s} ELSE {}
           h == [f EXCEPT !.slot[ScanIndex].path = @ \union added, !.pc = AfterOrder(s)]
<1>3. f.index < Len(f.dirs) /\ next \in Match
  <2>1. f.index < Len(f.dirs)
    BY <1>1, <1>2 DEF CallOK, IndexOK
  <2>2. QED
    BY <2>1, <1>2, FrameParts
<1> DEFINE new == [f.slot[ScanIndex] EXCEPT !.path = @ \union added]
<1>4. /\ new \in Slot /\ new.idx = f.slot[ScanIndex].idx /\ new.lists = f.slot[ScanIndex].lists
      /\ new.path = f.slot[ScanIndex].path \union added
      /\ s \notin next.in => new = f.slot[ScanIndex]
  <2>1. f.slot[ScanIndex] \in Slot
    BY <1>2
  <2>2. QED
    BY <2>1 DEF Slot
<1>5. AfterOrder(s) \in FramePc
  BY DEF AfterOrder, FramePc
<1>6. /\ h.pc = AfterOrder(s) /\ h.index = f.index /\ h.dirs = f.dirs /\ h.path = f.path
      /\ h.slot = [f.slot EXCEPT ![ScanIndex] = new]
      /\ h.work = f.work /\ h.optional = f.optional /\ h \in Frame
  <2>1. h = [f EXCEPT !.slot[ScanIndex] = new, !.pc = AfterOrder(s)]
    OBVIOUS
  <2> HIDE DEF h, new
  <2>2. f \in Frame /\ ScanIndex \in {0, 1} /\ new \in Slot
    BY <1>2, <1>4
  <2>3. QED
    BY <2>1, <2>2, <1>5 DEF Frame
<1>top. stack' = [stack EXCEPT ![Len(stack)] = h]
  <2>1. CASE s \in next.in
    BY <2>1 DEF OrderScan, Top
  <2>2. CASE s \notin next.in
    <3>1. [f.slot EXCEPT ![ScanIndex] = new] = f.slot
      BY <2>2, <1>2, <1>4
    <3>2. h = [f EXCEPT !.pc = AfterOrder(s)]
      <4>1. h = [f EXCEPT !.slot = [f.slot EXCEPT ![ScanIndex] = new], !.pc = AfterOrder(s)]
        OBVIOUS
      <4> HIDE DEF h, new
      <4>2. QED
        BY <4>1, <3>1, <1>2 DEF Frame
    <3>3. QED
      BY <3>2, <2>2 DEF OrderScan, Goto, Top
  <2>3. QED
    BY <2>1, <2>2
<1>7. /\ h.slot[ScanIndex].idx = f.slot[ScanIndex].idx
      /\ h.slot[ScanIndex].path = f.slot[ScanIndex].path \union added
      /\ h.slot[ScanIndex].lists = f.slot[ScanIndex].lists
      /\ h.slot[ReadIndex] = f.slot[ReadIndex]
  BY <1>6, <1>2, <1>4
<1>8. ScanSlot(h) = h.slot[ScanIndex] /\ ReadSlot(h) = ReadSlot(f)
  BY <1>6, <1>7, <1>2 DEF ScanSlot, ReadSlot, ScanIndex, ReadIndex
<1>9. /\ f.slot[ScanIndex].idx = f.index
      /\ f.slot[ScanIndex].path = next.in \intersect OrderedAt(Ordering(s))
      /\ s \notin f.slot[ScanIndex].path
  <2>1. Ordering(s) \notin {"leave", "turn"} /\ s \notin OrderedAt(Ordering(s))
    BY DEF Ordering, Scanner, OrderedAt
  <2>2. QED
    BY <2>1, <1>1, <1>2, <1>3 DEF CallOK, SlotsOK
<1>10. CallOK(h)
  <2>1. IndexOK(h)
    BY <1>2, <1>3, <1>6 DEF IndexOK, AfterOrder, Processing, Ordering, Waiting, Scanner
  <2>2. h.slot[ScanIndex].path = next.in \intersect OrderedAt(AfterOrder(s))
    <3>1. OrderedAt(AfterOrder(s)) = OrderedAt(Ordering(s)) \union {s}
      BY DEF AfterOrder, OrderedAt, Ordering, Scanner
    <3>2. QED
      BY <3>1, <1>7, <1>9
  <2>3. AfterOrder(s) \notin {"leave", "turn"} /\ f.pc \notin {"leave", "turn"}
    BY <1>1 DEF AfterOrder, Ordering, Scanner
  <2>4. \A i \in {0, 1}, t \in Scanner : t \notin h.slot[i].path => h.slot[i].lists[t] = [dirs |-> {}, files |-> {}]
    BY <1>2, <1>7 DEF CallOK, SlotsOK
  <2>5. SlotsOK(h)
    BY <2>2, <2>3, <2>4, <1>2, <1>3, <1>6, <1>7, <1>8, <1>9 DEF CallOK, SlotsOK
  <2>6. WorkOK(h)
    BY <2>3, <1>2, <1>6, <1>8 DEF CallOK, WorkOK
  <2>7. \A i \in {0, 1} : h.slot[i].idx \in Unset .. Len(h.dirs) - 1
    BY <1>2, <1>6, <1>7 DEF CallOK
  <2>8. QED
    BY <2>1, <2>5, <2>6, <2>7, <1>2, <1>6 DEF CallOK
<1>11. StackInv' /\ stack' # <<>> /\ Len(stack') = Len(stack) /\ f' = h
  <2> HIDE DEF h
  <2>1. QED
    BY <1>1, <1>top, <1>10, TopChanges
<1>12. ScanIndex' = ScanIndex
  BY <1>11, <1>6 DEF ScanIndex
<1>13. scanner' = IF s \in next.in THEN [scanner EXCEPT ![s] = [state |-> "running", depth |-> Len(stack),
                                        slot |-> ScanIndex, path |-> Append(f.path, next.name)]]
                  ELSE scanner
  BY DEF OrderScan, Order
<1>14. scanner \in [Scanner -> Scan]
  BY DEF PipelineInv, DataType
<1>15. MayScan(Ordering(s)) \union {s} \subseteq MayScan(AfterOrder(s))
  BY DEF MayScan, AfterOrder, Ordering, OrderedAt, Processing, Scanner
<1>16. ASSUME NEW t \in Scanner, scanner'[t].state # "idle"
       PROVE  /\ t \in MayScan(h.pc)
              /\ scanner'[t].depth = Len(stack)
              /\ scanner'[t].slot = ScanIndex
              /\ h.index < Len(h.dirs)
              /\ h.slot[ScanIndex].idx = h.index
              /\ t \in h.slot[ScanIndex].path
              /\ scanner'[t].path = Append(h.path, h.dirs[h.index + 1].name)
              /\ scanner'[t].state = "running" => h.slot[ScanIndex].lists[t] = NoLists
  <2>1. CASE t = s /\ s \in next.in
    <3>1. scanner'[t] = [state |-> "running", depth |-> Len(stack), slot |-> ScanIndex,
                       path |-> Append(f.path, next.name)]
      BY <2>1, <1>13, <1>14
    <3>2. f.slot[ScanIndex].lists[s] = NoLists
      BY <1>2, <1>9 DEF CallOK, SlotsOK, NoLists
    <3>3. QED
      BY <3>1, <3>2, <2>1, <1>3, <1>6, <1>7, <1>9, <1>15
  <2>2. CASE ~ (t = s /\ s \in next.in)
    <3>1. scanner'[t] = scanner[t]
      BY <2>2, <1>13, <1>14
    <3>2. QED
      BY <3>1, <1>16, <1>1, <1>6, <1>7, <1>15 DEF ScanInv
  <2>3. QED
    BY <2>1, <2>2
<1>17. ScanInv'
  <2> HIDE DEF h
  <2>1. QED
    BY <1>11, <1>12, <1>16 DEF ScanInv
<1>18. scanner' \in [Scanner -> Scan]
  <2>1. Append(f.path, next.name) \in Path
    BY <1>2, <1>3, FrameParts, AppendProperties DEF Match, Path
  <2>2. [state |-> "running", depth |-> Len(stack), slot |-> ScanIndex, path |-> Append(f.path, next.name)] \in Scan
    BY <2>1, <1>2 DEF Scan
  <2>3. QED
    BY <2>2, <1>13, <1>14
<1>19. UNCHANGED backup /\ UNCHANGED trees /\ count' = count /\ thrown' = thrown
  BY DEF OrderScan, UnchangedAround
<1>20. DataType'
  BY <1>18, <1>19 DEF PipelineInv, DataType, backup, trees
<1>21. QED
  BY <1>1, <1>11, <1>17, <1>19, <1>20, WithinCall DEF trees

\* What is found in the lists of a slot is in one of the trees it has a path of.
LEMMA WorkType ==
  ASSUME NEW l \in [Scanner -> Lists], NEW path \in SUBSET Scanner,
         \A s \in Scanner : s \notin path => l[s] = [dirs |-> {}, files |-> {}]
  PROVE  LET w == Work(l)
         IN  /\ w \in [extraFiles : SUBSET Names, extraDirs : SUBSET Match,
                       copyFiles : SUBSET Match, copyDirs : SUBSET Match]
             /\ Distinct(w.extraDirs) /\ Distinct(w.copyDirs)
             /\ \A m \in w.extraDirs : m.in \subseteq {"dst"}
             /\ w.copyFiles # {} => "src" \in path
             /\ \A m \in w.copyDirs : "src" \in m.in /\ m.in \subseteq path
<1> DEFINE w == Work(l)
           dstOnly == [l EXCEPT !["src"] = NoLists, !["ref"] = NoLists]
<1>1. \A s \in Scanner : l[s].dirs \in SUBSET Names /\ l[s].files \in SUBSET Names
  BY DEF Lists
<1>2. "src" \in Scanner /\ "ref" \in Scanner /\ "dst" \in Scanner
  BY DEF Scanner
<1>3. /\ w.extraFiles = l["dst"].files \ l["src"].files
      /\ w.extraDirs = Matches(l["dst"].dirs \ l["src"].dirs, dstOnly, "dirs")
      /\ w.copyFiles = Matches(l["src"].files, l, "files")
      /\ w.copyDirs = Matches(l["src"].dirs, l, "dirs")
      /\ w = [extraFiles |-> w.extraFiles, extraDirs |-> w.extraDirs,
              copyFiles |-> w.copyFiles, copyDirs |-> w.copyDirs]
  BY DEF Work
<1>4. /\ w.extraFiles \in SUBSET Names
      /\ l["dst"].dirs \ l["src"].dirs \in SUBSET Names
      /\ l["src"].dirs \in SUBSET Names /\ l["src"].files \in SUBSET Names
  BY <1>1, <1>2, <1>3
<1> HIDE DEF w, dstOnly
<1>5. ASSUME NEW names \in SUBSET Names, NEW lists
      PROVE  /\ Matches(names, lists, "dirs") \in SUBSET Match /\ Distinct(Matches(names, lists, "dirs"))
             /\ \A m \in Matches(names, lists, "dirs") : m.name \in names /\ m.in \subseteq Scanner
             /\ \A m \in Matches(names, lists, "dirs") : \A s \in Scanner : s \in m.in <=> m.name \in lists[s].dirs
  BY MatchesType, MatchedDirs
<1>6. /\ w.copyFiles \in SUBSET Match
      /\ \A m \in w.copyFiles : m.name \in l["src"].files
  <2> DEFINE names == l["src"].files
  <2>1. names \in SUBSET Names
    BY <1>4
  <2> HIDE DEF names
  <2>2. /\ Matches(names, l, "files") \in SUBSET Match
        /\ \A m \in Matches(names, l, "files") : m.name \in names
    BY <2>1, MatchesType
  <2>3. QED
    BY <2>2, <1>3 DEF names
<1>7. /\ w.extraDirs \in SUBSET Match /\ Distinct(w.extraDirs)
      /\ \A m \in w.extraDirs : m.in \subseteq Scanner
      /\ \A m \in w.extraDirs : \A s \in Scanner : s \in m.in <=> m.name \in dstOnly[s].dirs
  <2> DEFINE names == l["dst"].dirs \ l["src"].dirs
  <2>1. names \in SUBSET Names /\ w.extraDirs = Matches(names, dstOnly, "dirs")
    BY <1>3, <1>4
  <2> HIDE DEF names
  <2>2. /\ Matches(names, dstOnly, "dirs") \in SUBSET Match /\ Distinct(Matches(names, dstOnly, "dirs"))
        /\ \A m \in Matches(names, dstOnly, "dirs") : m.name \in names /\ m.in \subseteq Scanner
        /\ \A m \in Matches(names, dstOnly, "dirs") : \A s \in Scanner : s \in m.in <=> m.name \in dstOnly[s].dirs
    BY <2>1, <1>5
  <2>3. QED
    BY <2>1, <2>2 DEF names
<1>7a. /\ w.copyDirs \in SUBSET Match /\ Distinct(w.copyDirs)
       /\ \A m \in w.copyDirs : m.name \in l["src"].dirs /\ m.in \subseteq Scanner
       /\ \A m \in w.copyDirs : \A s \in Scanner : s \in m.in <=> m.name \in l[s].dirs
  <2> DEFINE names == l["src"].dirs
  <2>1. names \in SUBSET Names /\ w.copyDirs = Matches(names, l, "dirs")
    BY <1>3, <1>4
  <2> HIDE DEF names
  <2>2. /\ Matches(names, l, "dirs") \in SUBSET Match /\ Distinct(Matches(names, l, "dirs"))
        /\ \A m \in Matches(names, l, "dirs") : m.name \in names /\ m.in \subseteq Scanner
        /\ \A m \in Matches(names, l, "dirs") : \A s \in Scanner : s \in m.in <=> m.name \in l[s].dirs
    BY <2>1, <1>5
  <2>3. QED
    BY <2>1, <2>2 DEF names
<1>8. ASSUME NEW m \in w.extraDirs PROVE m.in \subseteq {"dst"}
  <2>1. dstOnly["src"].dirs = {} /\ dstOnly["ref"].dirs = {}
    BY <1>2 DEF NoLists, dstOnly
  <2>2. QED
    BY <2>1, <1>7 DEF Scanner
<1>9. w.copyFiles # {} => "src" \in path
  BY <1>2, <1>6
<1>10. ASSUME NEW m \in w.copyDirs PROVE "src" \in m.in /\ m.in \subseteq path
  <2>1. ASSUME NEW s \in Scanner, m.name \in l[s].dirs PROVE s \in path
    BY <2>1
  <2>2. QED
    BY <2>1, <1>7a, <1>2
<1>11. QED
  <2>1. w \in [extraFiles : SUBSET Names, extraDirs : SUBSET Match,
               copyFiles : SUBSET Match, copyDirs : SUBSET Match]
    BY <1>3, <1>4, <1>6, <1>7, <1>7a
  <2>2. QED
    BY <2>1, <1>7, <1>7a, <1>8, <1>9, <1>10 DEF w

LEMMA MergeStep ==
  ASSUME PipelineInv, Merge
  PROVE  PipelineInv'
<1>1. StackInv /\ ScanInv /\ stack # <<>> /\ f.pc = "merge"
  BY DEF PipelineInv, Merge, at
<1>2. /\ f \in Frame /\ CallOK(f) /\ ScanIndex \in {0, 1} /\ ReadIndex \in {0, 1} /\ ScanIndex # ReadIndex
      /\ ScanSlot(f) = f.slot[ScanIndex] /\ ReadSlot(f) = f.slot[ReadIndex] /\ read = f.slot[ReadIndex]
      /\ f.index \in Nat /\ Len(f.dirs) \in Nat /\ f.slot \in [{0, 1} -> Slot]
      /\ Len(stack) \in Nat
  BY <1>1, Innermost, FrameParts DEF read
<1> DEFINE work == Work(read.lists)
           new == [f.slot[ReadIndex] EXCEPT !.lists = EmptySlot.lists]
           h == [f EXCEPT !.work = work, !.slot[ReadIndex].lists = EmptySlot.lists, !.pc = "waitSrc"]
<1>3. /\ work \in [extraFiles : SUBSET Names, extraDirs : SUBSET Match,
                   copyFiles : SUBSET Match, copyDirs : SUBSET Match]
      /\ Distinct(work.extraDirs) /\ Distinct(work.copyDirs)
      /\ \A m \in work.extraDirs : m.in \subseteq {"dst"}
      /\ work.copyFiles # {} => "src" \in read.path
      /\ \A m \in work.copyDirs : "src" \in m.in /\ m.in \subseteq read.path
  <2>1. read.lists \in [Scanner -> Lists] /\ read.path \in SUBSET Scanner
    BY <1>2 DEF Slot
  <2>2. \A s \in Scanner : s \notin read.path => read.lists[s] = [dirs |-> {}, files |-> {}]
    BY <1>2 DEF CallOK, SlotsOK
  <2>3. QED
    BY <2>1, <2>2, WorkType
<1>4. /\ new \in Slot /\ new.idx = read.idx /\ new.path = read.path /\ new.lists = EmptySlot.lists
  BY <1>2, SlotType DEF Slot
<1>5. /\ h.pc = "waitSrc" /\ h.index = f.index /\ h.dirs = f.dirs /\ h.path = f.path
      /\ h.slot = [f.slot EXCEPT ![ReadIndex] = new]
      /\ h.work = work /\ h.optional = f.optional /\ h \in Frame
  <2>1. h = [f EXCEPT !.work = work, !.slot[ReadIndex] = new, !.pc = "waitSrc"]
    OBVIOUS
  <2>2. f \in Frame /\ ReadIndex \in {0, 1} /\ new \in Slot /\ "waitSrc" \in FramePc
    BY <1>2, <1>4 DEF FramePc
  <2> HIDE DEF h, new, work
  <2>3. QED
    BY <2>1, <2>2, <1>3 DEF Frame
<1>6. stack' = [stack EXCEPT ![Len(stack)] = h]
  BY DEF Merge, Top
<1> HIDE DEF h, new, work
<1>7. /\ h.slot[ReadIndex] = new /\ h.slot[ScanIndex] = f.slot[ScanIndex]
      /\ ReadSlot(h) = new /\ ScanSlot(h) = ScanSlot(f)
  BY <1>2, <1>5 DEF ScanSlot, ReadSlot, ScanIndex, ReadIndex
<1>8. f.index \in 1 .. Len(f.dirs)
  BY <1>1, <1>2 DEF CallOK, IndexOK
<1>9. CallOK(h)
  <2>1. IndexOK(h)
    BY <1>2, <1>5, <1>8 DEF IndexOK, Processing, Ordering, Waiting, Scanner
  <2>2. SlotsOK(h)
    <3>1. \A i \in {0, 1}, s \in Scanner : s \notin h.slot[i].path =>
              h.slot[i].lists[s] = [dirs |-> {}, files |-> {}]
      BY <1>2, <1>4, <1>7, SlotType DEF CallOK, SlotsOK, NoLists
    <3>2. QED
      BY <3>1, <1>1, <1>2, <1>4, <1>5, <1>7, <1>8 DEF CallOK, SlotsOK, OrderedAt
  <2>3. WorkOK(h)
    BY <1>3, <1>4, <1>5, <1>7, <1>8 DEF WorkOK
  <2>4. \A i \in {0, 1} : h.slot[i].idx \in Unset .. Len(h.dirs) - 1
    BY <1>2, <1>4, <1>5, <1>7 DEF CallOK
  <2>5. QED
    BY <2>1, <2>2, <2>3, <2>4, <1>2, <1>5 DEF CallOK
<1>10. StackInv' /\ stack' # <<>> /\ Len(stack') = Len(stack) /\ f' = h
  BY <1>1, <1>6, <1>9, TopChanges
<1>11. ScanInv'
  <2>1. ScanIndex' = ScanIndex
    BY <1>10, <1>5 DEF ScanIndex
  <2>2. MayScan(h.pc) = Scanner
    BY <1>5 DEF MayScan
  <2>3. scanner' = scanner
    BY DEF Merge
  <2>4. QED
    BY <2>1, <2>2, <2>3, <1>1, <1>5, <1>7, <1>10 DEF ScanInv
<1>12. QED
  BY <1>1, <1>10, <1>11, WithinCall DEF Merge, UnchangedAround, trees, backup, PipelineInv, DataType

\* The results of S are taken, where none of S is at work.
LEMMA Forgotten ==
  ASSUME DataType, NEW S \in SUBSET Scanner, \A s \in S : Finished(s), Forget(S)
  PROVE  /\ scanner' \in [Scanner -> Scan]
         /\ \A s \in Scanner : scanner'[s] = IF s \in S THEN Idle ELSE scanner[s]
<1>1. Idle \in Scan
  BY EmptySeq DEF Idle, Scan, Path
<1>2. QED
  BY <1>1 DEF DataType, Forget, Finished

LEMMA WaitForScanStep ==
  ASSUME PipelineInv, NEW s \in Scanner, WaitForScan(s)
  PROVE  PipelineInv'
<1>1. StackInv /\ ScanInv /\ DataType /\ stack # <<>> /\ f.pc = Waiting(s)
  BY DEF PipelineInv, WaitForScan, at
<1>2. /\ f \in Frame /\ CallOK(f) /\ ScanIndex \in {0, 1} /\ ReadIndex \in {0, 1} /\ ScanIndex # ReadIndex
      /\ ScanSlot(f) = f.slot[ScanIndex] /\ ReadSlot(f) = f.slot[ReadIndex]
      /\ f.index \in Nat /\ Len(f.dirs) \in Nat /\ f.slot \in [{0, 1} -> Slot]
      /\ Len(stack) \in Nat
  BY <1>1, Innermost, FrameParts DEF read
<1>3. /\ scanner' \in [Scanner -> Scan]
      /\ \A t \in Scanner : scanner'[t] = IF t = s THEN Idle ELSE scanner[t]
  BY <1>1, Forgotten DEF WaitForScan
<1>4. Idle.state = "idle"
  BY DEF Idle
<1>5. f.pc # "leave" /\ f.pc # "turn" /\ OrderedAt(f.pc) = Scanner /\ f.index <= Len(f.dirs)
  BY <1>1, <1>2 DEF Waiting, Scanner, OrderedAt, CallOK, IndexOK
<1>6. ASSUME NEW h, CallOK(h), stack' = [stack EXCEPT ![Len(stack)] = h],
             h.index = f.index, h.dirs = f.dirs, h.path = f.path, h.slot = f.slot,
             MayScan(f.pc) \ {s} \subseteq MayScan(h.pc)
      PROVE  StackInv' /\ ScanInv' /\ stack' # <<>>
  <2>1. StackInv' /\ stack' # <<>> /\ Len(stack') = Len(stack) /\ f' = h
    BY <1>1, <1>6, TopChanges
  <2>2. ScanIndex' = ScanIndex
    BY <2>1, <1>6 DEF ScanIndex
  <2>3. ScanInv'
    BY <2>1, <2>2, <1>1, <1>3, <1>4, <1>6 DEF ScanInv
  <2>4. QED
    BY <2>1, <2>3
<1>7. StackInv' /\ ScanInv' /\ stack' # <<>>
  <2>1. CASE scanner[s].state = "exception"
    <3> DEFINE h == [f EXCEPT !.pc = "leave"]
    <3>1. stack' = [stack EXCEPT ![Len(stack)] = h]
      BY <2>1 DEF WaitForScan, Goto, Top
    <3>2. CallOK(h)
      BY <1>2, Leaves
    <3>3. h.index = f.index /\ h.dirs = f.dirs /\ h.path = f.path /\ h.slot = f.slot /\ h.pc = "leave"
      BY <1>2 DEF Frame
    <3>4. MayScan(f.pc) \subseteq Scanner /\ MayScan(h.pc) = Scanner
      BY <3>3, <1>1 DEF MayScan, Waiting, Scanner, Processing
    <3> HIDE DEF h
    <3>5. QED
      BY <3>1, <3>2, <3>3, <3>4, <1>6
  <2>2. CASE scanner[s].state # "exception" /\ (s # "dst" \/ f.index # 0)
    <3> DEFINE p == IF s = "src" THEN "waitRef" ELSE IF s = "ref" THEN "waitDst" ELSE "extraFiles"
               h == [f EXCEPT !.pc = p]
    <3>1. stack' = [stack EXCEPT ![Len(stack)] = h]
      BY <2>2 DEF WaitForScan, AfterWait, Top, Scanner
    <3>2. p \in FramePc /\ p # "leave" /\ p # "turn" /\ OrderedAt(p) = Scanner
      BY DEF FramePc, OrderedAt
    <3> HIDE DEF p
    <3>3. /\ h.index = f.index /\ h.dirs = f.dirs /\ h.path = f.path /\ h.slot = f.slot /\ h.pc = p
          /\ h.work = f.work /\ h.optional = f.optional /\ h \in Frame
      BY <1>2, <3>2 DEF Frame
    <3>4. ScanSlot(h) = ScanSlot(f) /\ ReadSlot(h) = ReadSlot(f)
      BY <3>3 DEF ScanSlot, ReadSlot
    <3>5. MayScan(f.pc) \ {s} \subseteq MayScan(p)
      BY <1>1 DEF MayScan, Waiting, Scanner, Processing, p
    <3>6. IndexOK(h)
      BY <3>3, <2>2, <1>2, <1>5 DEF IndexOK, Processing, Ordering, Waiting, Scanner, p
    <3>7. SlotsOK(h)
      BY <3>2, <3>3, <3>4, <1>2, <1>5 DEF CallOK, SlotsOK
    <3>8. WorkOK(h)
      BY <3>3, <3>4, <1>2, <1>5 DEF CallOK, WorkOK
    <3>9. CallOK(h)
      BY <3>3, <3>6, <3>7, <3>8, <1>2 DEF CallOK
    <3> HIDE DEF h
    <3>10. QED
      BY <3>1, <3>3, <3>5, <3>9, <1>6
  <2>3. CASE scanner[s].state # "exception" /\ s = "dst" /\ f.index = 0
    <3> DEFINE h == [f EXCEPT !.index = 1, !.pc = "turn"]
    <3>1. stack' = [stack EXCEPT ![Len(stack)] = h]
      BY <2>3 DEF WaitForScan, AfterWait, Top
    <3>2. /\ h.index = 1 /\ h.dirs = f.dirs /\ h.path = f.path /\ h.slot = f.slot /\ h.pc = "turn"
          /\ h.work = f.work /\ h.optional = f.optional /\ h \in Frame
      BY <1>2 DEF Frame, FramePc
    <3>3. ScanSlot(h) = ReadSlot(f) /\ ReadSlot(h) = ScanSlot(f)
      BY <3>2, <2>3 DEF ScanSlot, ReadSlot
    <3>4. Len(f.dirs) > 0 /\ f.dirs[1].in \subseteq Scanner
      BY <1>2, FrameParts DEF CallOK, Match
    <3> HIDE DEF h
    <3>5. IndexOK(h)
      BY <3>2, <3>4, <1>2 DEF IndexOK, Processing, Ordering, Waiting, Scanner
    <3>6. SlotsOK(h)
      <4>1. ReadSlot(f) = EmptySlot /\ ScanSlot(f).idx = 0 /\ ScanSlot(f).path = f.dirs[1].in
        <5>1. f.index \notin 1 .. Len(f.dirs) /\ f.index < Len(f.dirs) /\ f.index + 1 = 1
          BY <3>4, <2>3, <1>2
        <5>2. ScanSlot(f).idx = f.index /\ ScanSlot(f).path = f.dirs[f.index + 1].in \intersect Scanner
          BY <5>1, <1>2, <1>5 DEF CallOK, SlotsOK
        <5>3. QED
          BY <5>1, <5>2, <3>4, <2>3, <1>2, <1>5 DEF CallOK, SlotsOK
      <4>2. QED
        BY <4>1, <3>2, <3>3, <3>4, <1>2 DEF CallOK, SlotsOK
    <3>7. WorkOK(h)
      <4>1. f.work = NoWork
        BY <2>3, <1>2, <1>5 DEF CallOK, WorkOK
      <4>2. QED
        BY <4>1, <3>2 DEF WorkOK, NoWork, Distinct
    <3>8. CallOK(h)
      BY <3>2, <3>5, <3>6, <3>7, <1>2 DEF CallOK
    <3>9. StackInv' /\ stack' # <<>>
      BY <3>1, <3>8, <1>1, TopChanges
    <3>10. \A t \in Scanner : scanner'[t].state = "idle"
      <4>1. MayScan(f.pc) = {"dst"}
        BY <2>3, <1>1 DEF MayScan, Waiting
      <4>2. QED
        BY <4>1, <2>3, <1>1, <1>3, <1>4 DEF ScanInv
    <3>11. QED
      BY <3>9, <3>10 DEF ScanInv
  <2>4. QED
    BY <2>1, <2>2, <2>3
<1>8. UNCHANGED backup /\ UNCHANGED trees /\ count' = count
  BY DEF WaitForScan
<1>9. thrown' \in BOOLEAN
  BY <1>1 DEF WaitForScan, DataType
<1>10. DataType'
  BY <1>1, <1>3, <1>8, <1>9 DEF DataType, backup, trees
<1>11. QED
  BY <1>1, <1>7, <1>8, <1>10, WithinCall DEF trees

-----------------------------------------------------------------------------
(* What is done to a directory. *)

LEMMA GotoFrame ==
  ASSUME NEW g \in Frame, NEW p \in FramePc
  PROVE  LET h == [g EXCEPT !.pc = p]
         IN  /\ h \in Frame /\ h.pc = p /\ h.optional = g.optional /\ h.path = g.path
             /\ h.dirs = g.dirs /\ h.index = g.index /\ h.slot = g.slot /\ h.work = g.work
BY DEF Frame

LEMMA GotoStep ==
  ASSUME PipelineInv, stack # <<>>, f.pc \in Processing, NEW p \in Processing \union {"leave"}, Goto(p),
         UNCHANGED <<scanner, backup>>, tree'["src"] = tree["src"], DataType'
  PROVE  PipelineInv'
<1> DEFINE h == [f EXCEPT !.pc = p]
<1>1. f \in Frame
  BY Innermost DEF PipelineInv
<1>2. p \in FramePc
  BY DEF Processing, FramePc
<1>3. /\ h \in Frame /\ h.pc = p /\ h.optional = f.optional
      /\ h.dirs = f.dirs /\ h.index = f.index /\ h.slot = f.slot /\ h.work = f.work
  BY <1>1, <1>2, GotoFrame
<1>4. stack' = [stack EXCEPT ![Len(stack)] = h]
  BY DEF Goto, Top
<1> HIDE DEF h
<1>5. QED
  BY <1>3, <1>4, ProcessingStep

LEMMA CountType ==
  ASSUME DataType, NEW kind \in {"dirs", "files"}, NEW what \in {"added", "kept", "removed"},
         Event(kind, what)
  PROVE  count' \in [{"dirs", "files"} -> [{"added", "kept", "removed"} -> Nat]]
BY DEF DataType, Event

\* Nothing but the tree, the statistics and what is still to be done changes.
LEMMA WorkTypes ==
  ASSUME DataType, UNCHANGED <<scanner, backup>>, thrown' \in BOOLEAN,
         tree' \in [Scanner -> Tree], fresh' \subseteq Path, before' \in Tree, dryRun' \in BOOLEAN,
         count' \in [{"dirs", "files"} -> [{"added", "kept", "removed"} -> Nat]]
  PROVE  DataType'
BY DEF DataType, backup

LEMMA TreeParts ==
  ASSUME DataType
  PROVE  /\ dst.dirs \in SUBSET Path /\ dst.files \in SUBSET Path
         /\ tree["src"] \in Tree /\ dryRun \in BOOLEAN /\ thrown \in BOOLEAN
         /\ tree["src"].dirs \in SUBSET Path /\ tree["src"].files \in SUBSET Path
BY DEF DataType, dst, Scanner, Tree

LEMMA RemoveExtraFileStep ==
  ASSUME PipelineInv, RemoveExtraFile
  PROVE  PipelineInv'
<1>1. StackInv /\ DataType /\ stack # <<>> /\ f.pc = "extraFiles" /\ f \in Frame
  BY Innermost DEF PipelineInv, RemoveExtraFile, at
<1>2. PICK n \in f.work.extraFiles :
        /\ Write(dst.dirs, dst.files \ {inner(n)}, {}, {here})
        /\ Top([f EXCEPT !.work.extraFiles = @ \ {n}])
  BY DEF RemoveExtraFile
<1> DEFINE h == [f EXCEPT !.work.extraFiles = @ \ {n}]
<1>3. /\ h \in Frame /\ h.pc = f.pc /\ h.optional = f.optional
      /\ h.dirs = f.dirs /\ h.index = f.index /\ h.slot = f.slot
      /\ h.work.extraDirs = f.work.extraDirs /\ h.work.copyFiles = f.work.copyFiles
      /\ h.work.copyDirs = f.work.copyDirs
  BY <1>1 DEF Frame
<1>4. stack' = [stack EXCEPT ![Len(stack)] = h]
  BY <1>2 DEF Top
<1>5. /\ tree' \in [Scanner -> Tree] /\ fresh' \subseteq Path /\ before' \in Tree /\ dryRun' \in BOOLEAN
      /\ tree'["src"] = tree["src"]
  <2>1. dst.dirs \in SUBSET Path /\ dst.files \ {inner(n)} \in SUBSET Path
    BY <1>1, TreeParts
  <2>2. QED
    BY <2>1, <1>1, <1>2, WriteTypes
<1>6. UNCHANGED <<scanner, backup>> /\ thrown' = thrown
  BY DEF RemoveExtraFile, Unscanned
<1>7. DataType'
  <2>1. count' \in [{"dirs", "files"} -> [{"added", "kept", "removed"} -> Nat]]
    BY <1>1, CountType DEF RemoveExtraFile
  <2>2. QED
    BY <2>1, <1>1, <1>5, <1>6, WorkTypes, TreeParts
<1> HIDE DEF h
<1>8. f.pc \in Processing
  BY <1>1 DEF Processing
<1>9. QED
  BY <1>1, <1>3, <1>4, <1>5, <1>6, <1>7, <1>8, ProcessingStep

LEMMA ExtraFilesDoneStep ==
  ASSUME PipelineInv, ExtraFilesDone \/ FilesDone
  PROVE  PipelineInv'
<1>1. stack # <<>> /\ f.pc \in Processing /\ DataType
  BY DEF PipelineInv, ExtraFilesDone, FilesDone, at, Processing
<1>2. UNCHANGED <<scanner, backup, trees, count, thrown>>
  BY DEF ExtraFilesDone, FilesDone, UnchangedAround
<1>3. DataType'
  BY <1>1, <1>2, WorkTypes DEF DataType, trees
<1>4. PICK p \in Processing : Goto(p)
  BY DEF ExtraFilesDone, FilesDone, Processing
<1>5. tree'["src"] = tree["src"]
  BY <1>2 DEF trees
<1>6. QED
  BY <1>1, <1>2, <1>3, <1>4, <1>5, GotoStep

\* What is written for a directory.
LEMMA DirectoryStep ==
  ASSUME PipelineInv, RemoveDirectory \/ CreateDirectory \/ UpdateDirectory
  PROVE  PipelineInv'
<1>1. StackInv /\ DataType /\ stack # <<>> /\ f.pc = "directory" /\ f \in Frame
  BY Innermost DEF PipelineInv, RemoveDirectory, CreateDirectory, UpdateDirectory, at
<1>2. Goto("files") /\ UNCHANGED <<scanner, backup>> /\ thrown' = thrown
  BY DEF RemoveDirectory, CreateDirectory, UpdateDirectory, Unscanned
<1>3. f.pc \in Processing /\ "files" \in Processing
  BY <1>1 DEF Processing
<1>4. here \in Path
  BY <1>1, <1>3, ReadIsCurrent
<1>5. PICK dirs \in SUBSET Path, touched \in {{}, {f.path}} : Write(dirs, dst.files, {}, touched)
  <2>1. dst.dirs \ {here} \in SUBSET Path /\ dst.dirs \union {here} \in SUBSET Path /\ dst.dirs \in SUBSET Path
    BY <1>1, <1>4, TreeParts
  <2>2. CASE RemoveDirectory
    BY <2>1, <2>2 DEF RemoveDirectory
  <2>3. CASE CreateDirectory
    BY <2>1, <2>3 DEF CreateDirectory
  <2>4. CASE UpdateDirectory
    BY <2>1, <2>4 DEF UpdateDirectory
  <2>5. QED
    BY <2>2, <2>3, <2>4
<1>6. /\ tree' \in [Scanner -> Tree] /\ fresh' \subseteq Path /\ before' \in Tree /\ dryRun' \in BOOLEAN
      /\ tree'["src"] = tree["src"]
  BY <1>1, <1>5, TreeParts, WriteTypes
<1>7. count' \in [{"dirs", "files"} -> [{"added", "kept", "removed"} -> Nat]]
  BY <1>1, CountType DEF RemoveDirectory, CreateDirectory, UpdateDirectory
<1>8. DataType'
  BY <1>1, <1>2, <1>6, <1>7, WorkTypes, TreeParts
<1>9. QED
  BY <1>1, <1>2, <1>3, <1>6, <1>8, GotoStep

LEMMA SyncFileStep ==
  ASSUME PipelineInv, SyncFile
  PROVE  PipelineInv'
<1>1. StackInv /\ DataType /\ stack # <<>> /\ f.pc = "files" /\ f \in Frame
  BY Innermost DEF PipelineInv, SyncFile, at
<1>2. PICK m \in f.work.copyFiles, written \in BOOLEAN :
        /\ Write(dst.dirs, dst.files \union {inner(m.name)}, {inner(m.name)},
                 IF written THEN {here} ELSE {})
        /\ Event("files", IF "dst" \in m.in THEN "kept" ELSE "added")
        /\ Top([f EXCEPT !.work.copyFiles = @ \ {m}])
  BY DEF SyncFile
<1> DEFINE h == [f EXCEPT !.work.copyFiles = @ \ {m}]
<1>3. /\ h \in Frame /\ h.pc = f.pc /\ h.optional = f.optional
      /\ h.dirs = f.dirs /\ h.index = f.index /\ h.slot = f.slot
      /\ h.work.extraDirs = f.work.extraDirs /\ h.work.copyFiles \subseteq f.work.copyFiles
      /\ h.work.copyDirs = f.work.copyDirs
  BY <1>1 DEF Frame
<1>4. stack' = [stack EXCEPT ![Len(stack)] = h]
  BY <1>2 DEF Top
<1>5. f.pc \in Processing
  BY <1>1 DEF Processing
<1>6. inner(m.name) \in Path
  <2>1. m \in Match
    BY <1>1, <1>2, FrameParts
  <2>2. QED
    BY <2>1, <1>1, <1>5, ReadIsCurrent DEF Match
<1>7. /\ tree' \in [Scanner -> Tree] /\ fresh' \subseteq Path /\ before' \in Tree /\ dryRun' \in BOOLEAN
      /\ tree'["src"] = tree["src"]
  <2>1. dst.dirs \in SUBSET Path /\ dst.files \union {inner(m.name)} \in SUBSET Path
    BY <1>1, <1>6, TreeParts
  <2>2. QED
    BY <2>1, <1>1, <1>2, WriteTypes
<1>8. UNCHANGED <<scanner, backup>> /\ thrown' = thrown
  BY DEF SyncFile, Unscanned
<1>9. DataType'
  <2>1. count' \in [{"dirs", "files"} -> [{"added", "kept", "removed"} -> Nat]]
    BY <1>1, <1>2, CountType
  <2>2. QED
    BY <2>1, <1>1, <1>7, <1>8, WorkTypes, TreeParts
<1> HIDE DEF h
<1>10. QED
  BY <1>1, <1>3, <1>4, <1>5, <1>7, <1>8, <1>9, ProcessingStep

LEMMA FailFileStep ==
  ASSUME PipelineInv, FailFile
  PROVE  PipelineInv'
<1>1. StackInv /\ DataType /\ stack # <<>> /\ f.pc = "files" /\ f \in Frame
  BY Innermost DEF PipelineInv, FailFile, at
<1>2. f.pc \in Processing
  BY <1>1 DEF Processing
<1>3. PICK files \in SUBSET Path : Write(dst.dirs, files, {}, {here})
  <2>1. PICK m \in f.work.copyFiles : \E files \in {dst.files \union {inner(m.name)}, dst.files \ {inner(m.name)}} :
                                        Write(dst.dirs, files, {}, {here})
    BY DEF FailFile
  <2>2. m \in Match
    BY <1>1, <2>1, FrameParts
  <2>3. inner(m.name) \in Path
    BY <2>2, <1>1, <1>2, ReadIsCurrent DEF Match
  <2>4. dst.files \union {inner(m.name)} \in SUBSET Path /\ dst.files \ {inner(m.name)} \in SUBSET Path
    BY <2>3, <1>1, TreeParts
  <2>5. QED
    BY <2>1, <2>4
<1>4. /\ tree' \in [Scanner -> Tree] /\ fresh' \subseteq Path /\ before' \in Tree /\ dryRun' \in BOOLEAN
      /\ tree'["src"] = tree["src"]
  BY <1>1, <1>3, TreeParts, WriteTypes
<1>5. Goto("leave") /\ thrown' \in BOOLEAN /\ UNCHANGED <<count, scanner, backup>>
  BY DEF FailFile
<1>6. DataType'
  BY <1>1, <1>4, <1>5, WorkTypes DEF DataType
<1>7. QED
  BY <1>1, <1>2, <1>4, <1>5, <1>6, GotoStep

LEMMA SetAttributesStep ==
  ASSUME PipelineInv, SetAttributes
  PROVE  PipelineInv'
<1>1. StackInv /\ ScanInv /\ DataType /\ stack # <<>> /\ f.pc = "attributes"
  BY DEF PipelineInv, SetAttributes, at
<1>2. /\ f \in Frame /\ CallOK(f) /\ ScanIndex \in {0, 1} /\ ReadIndex \in {0, 1} /\ ScanIndex # ReadIndex
      /\ ScanSlot(f) = f.slot[ScanIndex] /\ ReadSlot(f) = f.slot[ReadIndex] /\ read = f.slot[ReadIndex]
      /\ f.index \in Nat /\ Len(f.dirs) \in Nat /\ f.slot \in [{0, 1} -> Slot]
  BY <1>1, Innermost, FrameParts DEF read
<1>3. f.pc \in Processing
  BY <1>1 DEF Processing
<1> DEFINE h == [f EXCEPT !.slot[ReadIndex] = EmptySlot, !.index = @ + 1, !.pc = "turn", !.work = NoWork]
<1>4. /\ h.pc = "turn" /\ h.index = f.index + 1 /\ h.dirs = f.dirs /\ h.path = f.path
      /\ h.slot = [f.slot EXCEPT ![ReadIndex] = EmptySlot]
      /\ h.work = NoWork /\ h.optional = f.optional /\ h \in Frame
  <2>1. f \in Frame /\ ReadIndex \in {0, 1} /\ EmptySlot \in Slot /\ "turn" \in FramePc
    BY <1>2, SlotType DEF FramePc
  <2>2. NoWork \in [extraFiles : SUBSET Names, extraDirs : SUBSET Match,
                    copyFiles : SUBSET Match, copyDirs : SUBSET Match]
    BY DEF NoWork
  <2> DEFINE slot == [f.slot EXCEPT ![ReadIndex] = EmptySlot]
             next == f.index + 1
  <2>3. slot \in [{0, 1} -> Slot] /\ next \in Nat
    BY <2>1, <1>2
  <2>4. h = [f EXCEPT !.slot = slot, !.index = next, !.pc = "turn", !.work = NoWork]
    OBVIOUS
  <2> HIDE DEF h, slot, next
  <2>5. /\ h.pc = "turn" /\ h.index = next /\ h.dirs = f.dirs /\ h.path = f.path
        /\ h.slot = slot /\ h.work = NoWork /\ h.optional = f.optional /\ h \in Frame
    BY <2>1, <2>2, <2>3, <2>4 DEF Frame
  <2>6. QED
    BY <2>5 DEF slot, next
<1>5. stack' = [stack EXCEPT ![Len(stack)] = h]
  BY DEF SetAttributes, Top
<1> HIDE DEF h
<1>6. f.index \in 1 .. Len(f.dirs)
  BY <1>1, <1>3, ReadIsCurrent
<1>7. /\ h.slot[ReadIndex] = EmptySlot /\ h.slot[ScanIndex] = f.slot[ScanIndex]
      /\ ReadSlot(h) = ScanSlot(f) /\ ScanSlot(h) = EmptySlot
  <2>1. h.slot[ReadIndex] = EmptySlot /\ h.slot[ScanIndex] = f.slot[ScanIndex]
    BY <1>2, <1>4
  <2>2. h.index % 2 = ReadIndex /\ (h.index + 1) % 2 = ScanIndex
    BY <1>2, <1>4, Parity DEF ReadIndex, ScanIndex
  <2>3. QED
    BY <2>1, <2>2, <1>2 DEF ScanSlot, ReadSlot
<1>8. CallOK(h)
  <2>1. IndexOK(h)
    BY <1>2, <1>4, <1>6 DEF IndexOK, Processing, Ordering, Waiting, Scanner
  <2>2. SlotsOK(h)
    <3>1. \A i \in {0, 1}, s \in Scanner : s \notin h.slot[i].path =>
              h.slot[i].lists[s] = [dirs |-> {}, files |-> {}]
      BY <1>2, <1>7, SlotType DEF CallOK, SlotsOK, NoLists
    <3>2. CASE f.index < Len(f.dirs)
      <4>1. h.index \in 1 .. Len(h.dirs) /\ h.index - 1 = f.index
        BY <3>2, <1>2, <1>4, <1>6
      <4>2. f.dirs[h.index].in \subseteq Scanner
        BY <4>1, <1>2, <1>4, FrameParts DEF Match
      <4>3. OrderedAt(f.pc) = Scanner
        BY <1>1 DEF OrderedAt
      <4>4. ScanSlot(f).idx = f.index /\ ScanSlot(f).path = f.dirs[f.index + 1].in \intersect Scanner
        BY <4>3, <3>2, <1>1, <1>2 DEF CallOK, SlotsOK
      <4>5. QED
        BY <3>1, <4>1, <4>2, <4>4, <1>4, <1>7 DEF SlotsOK
    <3>3. CASE f.index = Len(f.dirs)
      <4>1. h.index \notin 1 .. Len(h.dirs)
        BY <3>3, <1>2, <1>4
      <4>2. ScanSlot(f) = EmptySlot
        BY <3>3, <1>1, <1>2 DEF CallOK, SlotsOK
      <4>3. QED
        BY <3>1, <4>1, <4>2, <1>4, <1>7 DEF SlotsOK
    <3>4. QED
      BY <3>2, <3>3, <1>6, <1>2
  <2>3. WorkOK(h)
    BY <1>4 DEF WorkOK, NoWork, Distinct
  <2>4. \A i \in {0, 1} : h.slot[i].idx \in Unset .. Len(h.dirs) - 1
    BY <1>2, <1>4, <1>7 DEF CallOK, EmptySlot, Unset
  <2>5. QED
    BY <2>1, <2>2, <2>3, <2>4, <1>2, <1>4 DEF CallOK
<1>9. StackInv' /\ stack' # <<>>
  BY <1>1, <1>5, <1>8, TopChanges
<1>10. UNCHANGED <<scanner, backup>> /\ thrown' = thrown /\ count' = count
  BY DEF SetAttributes, Unscanned
<1>11. /\ tree' \in [Scanner -> Tree] /\ fresh' \subseteq Path /\ before' \in Tree /\ dryRun' \in BOOLEAN
       /\ tree'["src"] = tree["src"]
  <2>1. CASE "src" \in match.in
    BY <2>1, <1>1, TreeParts, WriteTypes DEF SetAttributes
  <2>2. CASE "src" \notin match.in
    BY <2>2, <1>1 DEF SetAttributes, trees, DataType
  <2>3. QED
    BY <2>1, <2>2
<1>12. DataType'
  BY <1>1, <1>10, <1>11, WorkTypes DEF DataType
<1>13. ScanInv'
  BY <1>1, <1>3, <1>10, Quiet, QuietStays
<1>14. QED
  BY <1>1, <1>9, <1>10, <1>11, <1>12, <1>13, WithinCall

-----------------------------------------------------------------------------
(* Calls and returns, with the scanners of the outer call. *)

LEMMA CallStep ==
  ASSUME PipelineInv, stack # <<>>, f.pc \in Processing,
         NEW g \in Frame, g.pc \in Calling,
         g.optional = f.optional, g.dirs = f.dirs, g.index = f.index, g.slot = f.slot,
         g.work.extraDirs \subseteq f.work.extraDirs,
         g.work.copyFiles = f.work.copyFiles, g.work.copyDirs = f.work.copyDirs,
         NEW M \in SUBSET Match, Distinct(M), M # {}, NEW optional \in SUBSET {"src", "ref"},
         \A m \in M : m.in \subseteq optional \union {"dst"},
         stack' = Append([stack EXCEPT ![Len(stack)] = g], Call(optional, here, M)),
         UNCHANGED scanner, UnchangedAround
  PROVE  PipelineInv'
<1>1. StackInv /\ ScanInv /\ DataType
  BY DEF PipelineInv
<1>2. CallOK(g)
  BY <1>1, Innermost, Proceeds DEF Calling, Processing
<1>3. here \in Path
  BY <1>1, ReadIsCurrent
<1>4. CallOK(Call(optional, here, M))
  BY <1>3, CallStarts
<1>5. StackInv' /\ stack' # <<>>
  BY <1>1, <1>2, <1>4, CallBegins
<1>6. ScanInv'
  BY <1>1, Quiet, QuietStays
<1>7. DataType' /\ UNCHANGED backup /\ tree'["src"] = tree["src"]
  BY <1>1 DEF DataType, UnchangedAround, backup, trees
<1>8. QED
  BY <1>5, <1>6, <1>7, WithinCall

LEMMA CopyExtraDirectoriesStep ==
  ASSUME PipelineInv, CopyExtraDirectories
  PROVE  PipelineInv'
<1>1. StackInv /\ DataType /\ stack # <<>> /\ f.pc = "extraDirs" /\ f \in Frame /\ CallOK(f)
  BY Innermost DEF PipelineInv, CopyExtraDirectories, at
<1>2. f.pc \in Processing /\ "directory" \in Processing /\ "directory" \in Calling
  BY <1>1 DEF Processing, Calling
<1>3. UNCHANGED scanner /\ UnchangedAround
  BY DEF CopyExtraDirectories
<1>4. CASE f.work.extraDirs = {}
  <2>1. DataType' /\ UNCHANGED <<scanner, backup>> /\ tree'["src"] = tree["src"]
    BY <1>1, <1>3 DEF DataType, UnchangedAround, backup, trees
  <2>2. QED
    BY <2>1, <1>1, <1>2, <1>4, GotoStep DEF CopyExtraDirectories
<1>5. CASE f.work.extraDirs # {}
  <2> DEFINE g == [f EXCEPT !.pc = "directory", !.work.extraDirs = {}]
  <2>1. /\ g \in Frame /\ g.pc = "directory" /\ g.optional = f.optional /\ g.dirs = f.dirs
        /\ g.index = f.index /\ g.slot = f.slot /\ g.work.extraDirs = {}
        /\ g.work.copyFiles = f.work.copyFiles /\ g.work.copyDirs = f.work.copyDirs
    <3>1. "directory" \in FramePc
      BY DEF FramePc
    <3>2. QED
      BY <3>1, <1>1 DEF Frame
  <2>2. stack' = Append([stack EXCEPT ![Len(stack)] = g], Call({}, here, f.work.extraDirs))
    BY <1>5 DEF CopyExtraDirectories, f
  <2> HIDE DEF g
  <2>3. /\ f.work.extraDirs \in SUBSET Match /\ Distinct(f.work.extraDirs)
        /\ \A m \in f.work.extraDirs : m.in \subseteq {} \union {"dst"}
    BY <1>1, FrameParts DEF CallOK, WorkOK
  <2>4. QED
    BY <2>1, <2>2, <2>3, <1>1, <1>2, <1>3, <1>5, CallStep
<1>6. QED
  BY <1>4, <1>5

LEMMA CopySubdirectoriesStep ==
  ASSUME PipelineInv, CopySubdirectories
  PROVE  PipelineInv'
<1>1. StackInv /\ DataType /\ stack # <<>> /\ f.pc = "subdirs" /\ f \in Frame /\ CallOK(f)
      /\ ReadSlot(f) = read
  BY Innermost DEF PipelineInv, CopySubdirectories, at
<1>2. f.pc \in Processing /\ "attributes" \in Processing /\ "attributes" \in Calling
  BY <1>1 DEF Processing, Calling
<1>3. UNCHANGED scanner /\ UnchangedAround
  BY DEF CopySubdirectories
<1>4. CASE f.work.copyDirs = {} \/ "src" \notin match.in
  <2>1. DataType' /\ UNCHANGED <<scanner, backup>> /\ tree'["src"] = tree["src"]
    BY <1>1, <1>3 DEF DataType, UnchangedAround, backup, trees
  <2>2. QED
    BY <2>1, <1>1, <1>2, <1>4, GotoStep DEF CopySubdirectories
<1>5. CASE ~ (f.work.copyDirs = {} \/ "src" \notin match.in)
  <2> DEFINE g == [f EXCEPT !.pc = "attributes"]
             optional == read.path \intersect {"src", "ref"}
  <2>1. /\ g \in Frame /\ g.pc = "attributes" /\ g.optional = f.optional /\ g.dirs = f.dirs
        /\ g.index = f.index /\ g.slot = f.slot /\ g.work = f.work
    <3>1. f \in Frame /\ "attributes" \in FramePc
      BY <1>1 DEF FramePc
    <3>2. QED
      BY <3>1 DEF Frame
  <2>2. stack' = Append([stack EXCEPT ![Len(stack)] = g], Call(optional, here, f.work.copyDirs))
    BY <1>5 DEF CopySubdirectories, f
  <2>3. /\ f.work.copyDirs \in SUBSET Match /\ Distinct(f.work.copyDirs) /\ f.work.copyDirs # {}
        /\ \A m \in f.work.copyDirs : m.in \subseteq read.path
    BY <1>1, <1>5, FrameParts DEF CallOK, WorkOK
  <2>4. read.path \subseteq {"src", "ref", "dst"}
    BY <1>1, <1>2, ReadIsCurrent DEF Match, Scanner
  <2>5. optional \in SUBSET {"src", "ref"} /\ \A m \in f.work.copyDirs : m.in \subseteq optional \union {"dst"}
    BY <2>3, <2>4
  <2> HIDE DEF g, optional
  <2>6. QED
    BY <2>1, <2>2, <2>3, <2>5, <1>1, <1>2, <1>3, CallStep
<1>6. QED
  BY <1>4, <1>5

LEMMA FailStep ==
  ASSUME PipelineInv, Fail
  PROVE  PipelineInv'
<1>1. StackInv /\ ScanInv /\ DataType /\ stack # <<>>
  BY DEF PipelineInv, Fail
<1>2. f \in Frame /\ CallOK(f)
  BY <1>1, Innermost
<1> DEFINE h == [f EXCEPT !.pc = "leave"]
<1>3. h.index = f.index /\ h.dirs = f.dirs /\ h.slot = f.slot /\ h.pc = "leave" /\ h.path = f.path
  BY <1>2, GotoFrame DEF FramePc
<1>4. CallOK(h)
  BY <1>2, Leaves
<1>5. stack' = [stack EXCEPT ![Len(stack)] = h] /\ UNCHANGED <<trees, count, scanner, backup>> /\ thrown' = TRUE
  BY DEF Fail, Goto, Top
<1> HIDE DEF h
<1>6. StackInv' /\ stack' # <<>> /\ Len(stack') = Len(stack) /\ f' = h
  BY <1>1, <1>4, <1>5, TopChanges
<1>7. ScanInv'
  <2>1. ScanIndex' = ScanIndex /\ MayScan(h.pc) = Scanner
    BY <1>3, <1>6 DEF ScanIndex, MayScan
  <2>2. QED
    BY <2>1, <1>1, <1>3, <1>5, <1>6 DEF ScanInv
<1>8. DataType' /\ UNCHANGED backup /\ tree'["src"] = tree["src"]
  BY <1>1, <1>5 DEF DataType, backup, trees
<1>9. QED
  BY <1>1, <1>6, <1>7, <1>8, WithinCall

LEMMA ReturnStep ==
  ASSUME PipelineInv, Return
  PROVE  PipelineInv'
<1>1. StackInv /\ RootInv /\ AskedInv /\ DataType /\ stack # <<>> /\ pc = "copy"
  BY DEF PipelineInv, Return, at, RootInv
<1>2. /\ scanner' \in [Scanner -> Scan]
      /\ \A s \in Scanner : scanner'[s] = Idle
  BY <1>1, Forgotten DEF Return, AllFinished
<1>3. \A s \in Scanner : scanner'[s].state = "idle"
  BY <1>2 DEF Idle
<1> DEFINE rest == SubSeq(stack, 1, Len(stack) - 1)
<1>4. Len(stack) \in Nat /\ Len(stack) > 0 /\ stack \in Seq(Frame)
  BY <1>1, Innermost DEF StackInv
<1>5. /\ rest \in Seq(Frame) /\ Len(rest) = Len(stack) - 1
      /\ \A d \in 1 .. Len(rest) : rest[d] = stack[d]
  <2>1. \A d \in 1 .. Len(stack) - 1 : stack[d] \in Frame
    BY <1>4, ElementOfSeq
  <2> DEFINE n == Len(stack) - 1
  <2>2. n \in Int /\ n >= 0 /\ 1 \in Int /\ n - 1 + 1 = n
    BY <1>4
  <2> HIDE DEF n
  <2>3. \A d \in 1 .. n : stack[d] \in Frame
    BY <2>1 DEF n
  <2>4. /\ SubSeq(stack, 1, n) \in Seq(Frame)
        /\ Len(SubSeq(stack, 1, n)) = IF 1 <= n THEN n - 1 + 1 ELSE 0
        /\ \A d \in 1 .. n - 1 + 1 : SubSeq(stack, 1, n)[d] = stack[1 + d - 1]
    BY <2>2, <2>3, SubSeqProperties
  <2>5. rest = SubSeq(stack, 1, n)
    BY DEF n
  <2>6. Len(rest) = n
    BY <2>2, <2>4, <2>5
  <2>7. \A d \in 1 .. n : rest[d] = stack[d]
    BY <2>2, <2>4, <2>5
  <2>8. QED
    BY <2>4, <2>5, <2>6, <2>7 DEF n
<1> HIDE DEF rest
<1>6. \A d \in 1 .. Len(rest) : CallOK(rest[d]) /\ rest[d].pc \in Calling
  <2>1. \A d \in 1 .. Len(rest) : d \in 1 .. Len(stack) - 1 /\ d \in 1 .. Len(stack)
    BY <1>4, <1>5
  <2>2. QED
    BY <2>1, <1>1, <1>5 DEF StackInv
<1>7. stack' = IF thrown /\ rest # <<>> THEN [rest EXCEPT ![Len(rest)].pc = "leave"] ELSE rest
  BY DEF Return, rest
<1>8. rest = <<>> <=> Len(rest) = 0
  BY <1>5, EmptySeq
<1>9. StackInv' /\ (stack' = <<>> <=> rest = <<>>)
  <2>1. CASE thrown /\ rest # <<>>
    <3> DEFINE last == [rest[Len(rest)] EXCEPT !.pc = "leave"]
    <3>1. Len(rest) \in 1 .. Len(rest) /\ Len(rest) \in Nat
      BY <2>1, <1>4, <1>5, <1>8
    <3>2. CallOK(last)
      BY <3>1, <1>6, Leaves
    <3>3. last \in Frame
      BY <3>2 DEF CallOK
    <3>4. stack' = [rest EXCEPT ![Len(rest)] = last]
      BY <2>1, <1>7
    <3> HIDE DEF last
    <3>5. /\ stack' \in Seq(Frame) /\ Len(stack') = Len(rest)
          /\ \A d \in 1 .. Len(rest) : stack'[d] = IF d = Len(rest) THEN last ELSE rest[d]
      BY <3>1, <3>3, <3>4, <1>5, ExceptSeq
    <3>6. \A d \in 1 .. Len(stack') : CallOK(stack'[d])
      BY <3>2, <3>5, <1>6
    <3>7. \A d \in 1 .. Len(stack') - 1 : d \in 1 .. Len(rest) /\ d # Len(rest)
      BY <3>1, <3>5
    <3>8. \A d \in 1 .. Len(stack') - 1 : stack'[d].pc \in Calling
      BY <3>5, <3>7, <1>6
    <3>9. stack' # <<>>
      BY <3>1, <3>5, EmptySeq
    <3>10. QED
      BY <2>1, <3>5, <3>6, <3>8, <3>9 DEF StackInv
  <2>2. CASE ~ (thrown /\ rest # <<>>)
    <3>1. stack' = rest
      BY <2>2, <1>7
    <3>2. \A d \in 1 .. Len(rest) - 1 : d \in 1 .. Len(rest)
      BY <1>4, <1>5
    <3>3. QED
      BY <3>1, <3>2, <1>5, <1>6 DEF StackInv
  <2>3. QED
    BY <2>1, <2>2
<1>10. ScanInv'
  BY <1>3 DEF ScanInv
<1>11. UNCHANGED <<tree, fresh, before, dryRun, count, todo, group, root, thrown>>
  BY DEF Return, trees
<1>12. /\ Len(stack) > 1 => pc' = "copy"
       /\ Len(stack) <= 1 => pc' \in {"leave", "group"}
       /\ stack' # <<>> <=> Len(stack) > 1
  BY <1>1, <1>4, <1>5, <1>8, <1>9 DEF Return
<1>13. RootInv'
  <2>1. pc' \in {"copy", "leave", "group"} /\ (pc' = "copy" <=> stack' # <<>>)
    BY <1>4, <1>12
  <2>2. QED
    BY <2>1, <1>3 DEF RootInv, Free, Waiting, Scanner
<1>14. AskedInv'
  BY <1>1, <1>11 DEF AskedInv, Asked
<1>15. DataType'
  BY <1>1, <1>2, <1>4, <1>11, <1>12 DEF DataType
<1>16. QED
  BY <1>9, <1>10, <1>13, <1>14, <1>15 DEF PipelineInv

-----------------------------------------------------------------------------
(* The scanners. *)

LEMMA HereType ==
  ASSUME NEW t, NEW p
  PROVE  Here(t, p) \in Lists
BY DEF Here, Lists

LEMMA CompleteStep ==
  ASSUME PipelineInv, NEW s \in Scanner, Complete(s)
  PROVE  PipelineInv'
<1>1. StackInv /\ ScanInv /\ RootInv /\ AskedInv /\ DataType
  BY DEF PipelineInv
<1>2. scanner[s].state = "running" /\ scanner[s] \in Scan
  BY <1>1 DEF Complete, DataType
<1> DEFINE lists == Here(tree[s], scanner[s].path)
<1>3. lists \in Lists
  BY HereType
<1>4. scanner' = [scanner EXCEPT ![s].state = "lists"]
  BY DEF Complete
<1>5. /\ scanner' \in [Scanner -> Scan]
      /\ \A t \in Scanner : /\ scanner'[t].depth = scanner[t].depth /\ scanner'[t].slot = scanner[t].slot
                            /\ scanner'[t].path = scanner[t].path
                            /\ scanner'[t].state = IF t = s THEN "lists" ELSE scanner[t].state
  BY <1>1, <1>4 DEF DataType, Scan
<1>6. \A t \in Scanner : Free(t)' <=> Free(t)
  BY <1>2, <1>5 DEF Free
<1>7. UNCHANGED <<trees, count, pc, todo, group, thrown>>
  BY DEF Complete
<1>8. UNCHANGED <<tree, fresh, before, dryRun>>
  BY <1>7 DEF trees
<1>9. AskedInv'
  BY <1>1, <1>7, <1>8 DEF AskedInv, Asked
<1>10. CASE stack = <<>>
  <2>1. scanner[s].depth = 0 /\ scanner[s].path = <<>> /\ root[s] = NoLists
    BY <1>1, <1>2, <1>10 DEF RootInv
  <2> DEFINE filtered == Filtered(s, lists)
  <2>2. filtered \in Lists
    BY <1>3 DEF Filtered, Lists
  <2>3. root' = [root EXCEPT ![s] = filtered] /\ stack' = stack
    BY <2>1 DEF Complete
  <2>4. s = "src" => filtered.dirs = group
    <3>1. s = "src" => lists.dirs = Asked
      BY <2>1 DEF Asked
    <3>2. s = "src" => filtered.dirs = lists.dirs \intersect group
      BY DEF Filtered
    <3>3. group \subseteq Asked
      BY <1>1 DEF AskedInv
    <3> HIDE DEF filtered, lists
    <3>4. QED
      BY <3>1, <3>2, <3>3
  <2> HIDE DEF filtered, lists
  <2>5. root' \in [Scanner -> Lists] /\ \A t \in Scanner : root'[t] = IF t = s THEN filtered ELSE root[t]
    BY <1>1, <2>2, <2>3 DEF DataType
  <2>6. DataType'
    BY <1>1, <1>5, <1>7, <1>8, <2>5 DEF DataType
  <2>7. StackInv' /\ ScanInv'
    BY <1>1, <1>10, <2>3 DEF StackInv, ScanInv
  <2>8. pc' = pc /\ group' = group /\ pc \notin {"idle", "roots"} /\ pc # "copy"
    BY <1>1, <1>2, <1>7, <1>10 DEF RootInv, Free
  <2>9. RootInv'
    <3>1. \A t \in Scanner : scanner'[t].state # "idle" =>
            /\ scanner'[t].depth = 0 /\ scanner'[t].path = <<>>
            /\ scanner'[t].state = "running" => root'[t] = NoLists
            /\ pc' # "leave" /\ t # "src" => Exists(t)'
      <4> SUFFICES ASSUME NEW t \in Scanner, scanner'[t].state # "idle"
                   PROVE  /\ scanner'[t].depth = 0 /\ scanner'[t].path = <<>>
                          /\ scanner'[t].state = "running" => root'[t] = NoLists
                          /\ pc' # "leave" /\ t # "src" => Exists(t)'
        OBVIOUS
      <4>1. scanner[t].state # "idle"
        BY <1>2, <1>5
      <4>2. QED
        BY <4>1, <1>1, <1>5, <1>8, <1>10, <2>5, <2>8 DEF RootInv, Exists
    <3>2. pc' \in {Waiting(t) : t \in Scanner} =>
            /\ ~ Free("src")' /\ group' # {}
            /\ scanner'["src"].state = "lists" => root'["src"].dirs = group'
      <4>1. "src" \in Scanner
        BY DEF Scanner
      <4>2. pc \in {Waiting(t) : t \in Scanner} =>
              ~ Free("src") /\ group # {} /\ (scanner["src"].state = "lists" => root["src"].dirs = group)
        BY <1>1 DEF RootInv
      <4>3. scanner'["src"].state = "lists" =>
              \/ s = "src" /\ root'["src"].dirs = group
              \/ s # "src" /\ scanner["src"].state = "lists" /\ root'["src"] = root["src"]
        BY <4>1, <1>5, <2>4, <2>5
      <4>4. QED
        BY <4>1, <4>2, <4>3, <1>6, <2>8
    <3>3. /\ pc' = "group" => Free("src")' /\ (group' # {} => \A t \in Scanner : Free(t)')
          /\ pc' = "waitDst" => Free("ref")'
          /\ pc' = "waitSrc" => Free("ref")' /\ Free("dst")'
      BY <1>1, <1>6, <2>8 DEF RootInv, Scanner
    <3>4. stack' = <<>>
      BY <1>10, <2>3
    <3>5. QED
      BY <3>1, <3>2, <3>3, <3>4, <2>8 DEF RootInv
  <2>10. QED
    BY <1>9, <2>6, <2>7, <2>9 DEF PipelineInv
<1>11. CASE stack # <<>>
  <2>1. /\ f \in Frame /\ CallOK(f) /\ ScanIndex \in {0, 1} /\ ReadIndex \in {0, 1} /\ ScanIndex # ReadIndex
        /\ ScanSlot(f) = f.slot[ScanIndex] /\ ReadSlot(f) = f.slot[ReadIndex]
        /\ f.index \in Nat /\ Len(f.dirs) \in Nat /\ f.slot \in [{0, 1} -> Slot]
        /\ Len(stack) \in Nat /\ Len(stack) > 0
    BY <1>1, <1>11, Innermost, FrameParts DEF read
  <2>2. /\ s \in MayScan(f.pc) /\ scanner[s].depth = Len(stack) /\ scanner[s].slot = ScanIndex
        /\ f.index < Len(f.dirs) /\ f.slot[ScanIndex].idx = f.index /\ s \in f.slot[ScanIndex].path
    BY <1>1, <1>2, <1>11 DEF ScanInv
  <2> DEFINE h == [f EXCEPT !.slot[ScanIndex].lists[s] = lists]
  <2>3. stack' = [stack EXCEPT ![Len(stack)] = h] /\ root' = root
    <3>1. stack' = [stack EXCEPT ![Len(stack)].slot[ScanIndex].lists[s] = lists] /\ root' = root
      BY <2>1, <2>2 DEF Complete
    <3>2. stack \in [1 .. Len(stack) -> Frame] /\ Len(stack) \in 1 .. Len(stack)
      BY <1>1, <1>11, Innermost, <2>1
    <3> HIDE DEF lists
    <3>3. QED
      BY <3>1, <3>2 DEF f
  <2> DEFINE new == [f.slot[ScanIndex] EXCEPT !.lists[s] = lists]
  <2>4. /\ new \in Slot /\ new.idx = f.slot[ScanIndex].idx /\ new.path = f.slot[ScanIndex].path
        /\ \A t \in Scanner : new.lists[t] = IF t = s THEN lists ELSE f.slot[ScanIndex].lists[t]
    <3>1. f.slot[ScanIndex] \in Slot
      BY <2>1
    <3> HIDE DEF lists
    <3>2. QED
      BY <3>1, <1>3 DEF Slot
  <2>5. h = [f EXCEPT !.slot = [f.slot EXCEPT ![ScanIndex] = new]]
    BY <2>1 DEF Frame
  <2> HIDE DEF new, h, lists
  <2>6. /\ h \in Frame /\ h.optional = f.optional /\ h.path = f.path /\ h.dirs = f.dirs
        /\ h.index = f.index /\ h.pc = f.pc /\ h.work = f.work
        /\ h.slot = [f.slot EXCEPT ![ScanIndex] = new]
    BY <2>1, <2>4, <2>5 DEF Frame
  <2>7. h.slot[ScanIndex] = new /\ h.slot[ReadIndex] = f.slot[ReadIndex]
    BY <2>1, <2>6
  <2>8. ScanSlot(h) = new /\ ReadSlot(h) = ReadSlot(f)
    BY <2>1, <2>6, <2>7 DEF ScanSlot, ReadSlot, ScanIndex, ReadIndex
  <2>9. f.pc # "turn"
    BY <2>2 DEF MayScan, Processing
  <2>10. CallOK(h)
    <3>1. IndexOK(h)
      BY <2>1, <2>6 DEF CallOK, IndexOK
    <3>2. SlotsOK(h)
      <4>1. SlotsOK(f)
        BY <2>1 DEF CallOK
      <4>2. \A i \in {0, 1}, t \in Scanner : t \notin h.slot[i].path =>
              h.slot[i].lists[t] = [dirs |-> {}, files |-> {}]
        <5> SUFFICES ASSUME NEW i \in {0, 1}, NEW t \in Scanner, t \notin h.slot[i].path
                     PROVE  h.slot[i].lists[t] = [dirs |-> {}, files |-> {}]
          OBVIOUS
        <5>1. f.slot[i].path = h.slot[i].path /\ h.slot[i].lists[t] = f.slot[i].lists[t]
          BY <2>1, <2>2, <2>4, <2>6, <2>7
        <5>2. QED
          BY <5>1, <4>1 DEF SlotsOK
      <4>3. h.pc # "leave" => ScanSlot(f).idx = f.index
                              /\ ScanSlot(f).path = f.dirs[f.index + 1].in \intersect OrderedAt(f.pc)
        BY <4>1, <2>2, <2>6, <2>9 DEF SlotsOK
      <4>4. h.pc # "leave" => IF f.index \in 1 .. Len(f.dirs)
                              THEN ReadSlot(f).idx = f.index - 1 /\ ReadSlot(f).path = f.dirs[f.index].in
                              ELSE ReadSlot(f) = EmptySlot
        BY <4>1, <2>6 DEF SlotsOK
      <4>5. h.pc # "turn" /\ h.index < Len(h.dirs)
        BY <2>2, <2>6, <2>9
      <4>6. new.idx = ScanSlot(f).idx /\ new.path = ScanSlot(f).path
        BY <2>1, <2>4
      <4>7. QED
        BY <4>2, <4>3, <4>4, <4>5, <4>6, <2>6, <2>8 DEF SlotsOK
    <3>3. WorkOK(h)
      BY <2>1, <2>6, <2>8 DEF CallOK, WorkOK
    <3>4. \A i \in {0, 1} : h.slot[i].idx \in Unset .. Len(h.dirs) - 1
      <4>1. \A i \in {0, 1} : h.slot[i].idx = f.slot[i].idx
        BY <2>1, <2>4, <2>6, <2>7
      <4>2. QED
        BY <4>1, <2>1, <2>6 DEF CallOK
    <3>5. QED
      BY <3>1, <3>2, <3>3, <3>4, <2>1, <2>6 DEF CallOK
  <2>11. StackInv' /\ stack' # <<>> /\ Len(stack') = Len(stack) /\ f' = h
    BY <2>3, <2>10, <1>1, <1>11, TopChanges
  <2>12. ScanInv'
    <3>1. ScanIndex' = ScanIndex
      BY <2>6, <2>11 DEF ScanIndex
    <3> SUFFICES ASSUME NEW t \in Scanner, scanner'[t].state # "idle"
                 PROVE  /\ t \in MayScan(h.pc) /\ scanner'[t].depth = Len(stack) /\ scanner'[t].slot = ScanIndex
                        /\ h.index < Len(h.dirs) /\ h.slot[ScanIndex].idx = h.index
                        /\ t \in h.slot[ScanIndex].path
                        /\ scanner'[t].path = Append(h.path, h.dirs[h.index + 1].name)
                        /\ scanner'[t].state = "running" => h.slot[ScanIndex].lists[t] = NoLists
      BY <2>11, <3>1 DEF ScanInv
    <3>2. scanner[t].state # "idle"
      BY <1>2, <1>5
    <3>3. /\ t \in MayScan(f.pc) /\ scanner[t].depth = Len(stack) /\ scanner[t].slot = ScanIndex
          /\ f.index < Len(f.dirs) /\ f.slot[ScanIndex].idx = f.index /\ t \in f.slot[ScanIndex].path
          /\ scanner[t].path = Append(f.path, f.dirs[f.index + 1].name)
          /\ scanner[t].state = "running" => f.slot[ScanIndex].lists[t] = NoLists
      BY <3>2, <1>1, <1>11 DEF ScanInv
    <3>4. scanner'[t].state = "running" => t # s /\ scanner[t].state = "running"
      BY <1>5
    <3>5. scanner'[t].state = "running" => h.slot[ScanIndex].lists[t] = NoLists
      BY <3>3, <3>4, <2>4, <2>7
    <3>6. QED
      BY <3>3, <3>5, <1>5, <2>4, <2>6, <2>7
  <2>13. DataType'
    BY <1>1, <1>5, <1>7, <1>8, <2>3 DEF DataType
  <2>14. UNCHANGED backup
    BY <1>7, <2>3 DEF backup
  <2>15. QED
    BY <1>8, <1>11, <2>11, <2>12, <2>13, <2>14, WithinCall
<1>12. QED
  BY <1>10, <1>11

LEMMA FailScanStep ==
  ASSUME PipelineInv, NEW s \in Scanner, FailScan(s)
  PROVE  PipelineInv'
<1>1. StackInv /\ ScanInv /\ RootInv /\ AskedInv /\ DataType
  BY DEF PipelineInv
<1>2. scanner' = [scanner EXCEPT ![s].state = "exception"] /\ scanner[s].state = "running"
  BY DEF FailScan
<1>3. /\ scanner' \in [Scanner -> Scan]
      /\ \A t \in Scanner : /\ scanner'[t].depth = scanner[t].depth /\ scanner'[t].slot = scanner[t].slot
                            /\ scanner'[t].path = scanner[t].path
                            /\ scanner'[t].state = IF t = s THEN "exception" ELSE scanner[t].state
  BY <1>1, <1>2 DEF DataType, Scan
<1>4. /\ \A t \in Scanner : Free(t)' <=> Free(t)
      /\ \A t \in Scanner : scanner'[t].state # "idle" => scanner[t].state # "idle"
      /\ \A t \in Scanner : scanner'[t].state = "running" => scanner[t].state = "running"
      /\ \A t \in Scanner : scanner'[t].state = "lists" => scanner[t].state = "lists"
  BY <1>2, <1>3 DEF Free
<1>5. UNCHANGED <<tree, fresh, before, dryRun, count, pc, todo, group, root, stack, thrown>>
  BY DEF FailScan, trees, backup
<1>6. StackInv' /\ AskedInv'
  BY <1>1, <1>5 DEF StackInv, AskedInv, Asked
<1>7. DataType'
  BY <1>1, <1>3, <1>5 DEF DataType
<1>8. ScanInv'
  <2>1. f' = f /\ ScanIndex' = ScanIndex
    BY <1>5 DEF f, ScanIndex
  <2>2. QED
    BY <1>1, <1>3, <1>4, <1>5, <2>1 DEF ScanInv
<1>9. RootInv'
  <2>1. "src" \in Scanner /\ "ref" \in Scanner /\ "dst" \in Scanner
    BY DEF Scanner
  <2>2. \A t \in Scanner : Exists(t)' <=> Exists(t)
    BY <1>5 DEF Exists
  <2>3. QED
    BY <1>1, <1>3, <1>4, <1>5, <2>1, <2>2 DEF RootInv
<1>10. QED
  BY <1>6, <1>7, <1>8, <1>9 DEF PipelineInv

-----------------------------------------------------------------------------
(* CreateBackup. *)

\* Between the calls of CopyDirectories.
LEMMA BetweenCalls ==
  ASSUME PipelineInv, stack = <<>>, stack' = <<>>, DataType', RootInv', AskedInv'
  PROVE  PipelineInv'
BY DEF PipelineInv, StackInv, ScanInv

LEMMA CallBackupStep ==
  ASSUME PipelineInv, CallBackup
  PROVE  PipelineInv'
<1>1. DataType /\ RootInv /\ pc = "idle"
  BY DEF PipelineInv, CallBackup
<1>2. /\ stack = <<>> /\ group = {}
      /\ \A s \in Scanner : scanner[s].state = "idle" /\ root[s] = NoLists
  BY <1>1 DEF RootInv, Free
<1>3. PICK source \in Trees, reference \in Trees :
        LET asked == Here(source, <<>>).dirs
        IN  /\ asked # {}
            /\ tree' = [tree EXCEPT !["src"] = source, !["ref"] = reference]
            /\ todo' \in {{asked}, {{n} : n \in asked}}
  BY DEF CallBackup
<1> DEFINE asked == Here(source, <<>>).dirs
<1>4. source \in Tree /\ reference \in Tree
  BY ConstantsAssumption
<1>5. tree' \in [Scanner -> Tree] /\ tree'["src"] = source
  BY <1>1, <1>3, <1>4 DEF DataType, Scanner
<1>6. Asked' = asked
  BY <1>5 DEF Asked
<1>7. asked \in SUBSET Names
  BY HereType DEF Lists
<1> HIDE DEF asked
<1>8. todo' \subseteq SUBSET Names /\ \A g \in todo' : g # {} /\ g \subseteq asked
  <2>1. asked # {} /\ todo' \in {{asked}, {{n} : n \in asked}}
    BY <1>3 DEF asked
  <2>2. CASE todo' = {asked}
    BY <2>1, <2>2, <1>7
  <2>3. CASE todo' = {{n} : n \in asked}
    BY <2>3, <1>7
  <2>4. QED
    BY <2>1, <2>2, <2>3
<1>9. /\ fresh' = {} /\ before' = dst /\ dryRun' \in BOOLEAN /\ pc' = "roots"
      /\ UNCHANGED <<count, scanner, group, root, stack, thrown>>
  BY DEF CallBackup
<1>10. DataType'
  <2>1. before' \in Tree
    BY <1>1, <1>9 DEF DataType, dst, Scanner
  <2>2. QED
    BY <2>1, <1>1, <1>5, <1>8, <1>9 DEF DataType
<1>11. AskedInv'
  BY <1>2, <1>5, <1>6, <1>8, <1>9 DEF AskedInv
<1>12. RootInv'
  BY <1>2, <1>9 DEF RootInv, Free, Waiting, Scanner
<1>13. QED
  BY <1>2, <1>9, <1>10, <1>11, <1>12, BetweenCalls

\* The trees of the source stay, as does what is still to be done.
LEMMA AskedStays ==
  ASSUME AskedInv, tree'["src"] = tree["src"], group' \subseteq Asked, todo' \subseteq todo
  PROVE  AskedInv'
BY DEF AskedInv, Asked

LEMMA OrderRootsStep ==
  ASSUME PipelineInv, OrderRoots
  PROVE  PipelineInv'
<1>1. DataType /\ RootInv /\ AskedInv /\ pc = "roots"
  BY DEF PipelineInv, OrderRoots
<1>2. /\ stack = <<>> /\ group = {}
      /\ \A s \in Scanner : scanner[s].state = "idle" /\ root[s] = NoLists
  BY <1>1 DEF RootInv, Free
<1>3. /\ pc' = "group" /\ UNCHANGED <<tree, fresh, before, dryRun, count, todo, group, root, stack, thrown>>
  BY DEF OrderRoots, trees
<1> DEFINE begun == [Idle EXCEPT !.state = "running"]
<1>4. /\ begun \in Scan /\ begun.state = "running" /\ begun.depth = 0 /\ begun.path = <<>>
  BY EmptySeq DEF Idle, Scan, Path
<1> HIDE DEF begun
<1>5. scanner' = [s \in Scanner |-> IF s # "src" /\ Exists(s) THEN begun ELSE scanner[s]]
  BY DEF OrderRoots, begun
<1>6. /\ scanner' \in [Scanner -> Scan]
      /\ \A s \in Scanner : scanner'[s].state # "idle" =>
           scanner'[s].depth = 0 /\ scanner'[s].path = <<>> /\ s # "src" /\ Exists(s)
  BY <1>1, <1>2, <1>4, <1>5 DEF DataType
<1>7. DataType'
  BY <1>1, <1>3, <1>6 DEF DataType
<1>8. RootInv'
  BY <1>2, <1>3, <1>6 DEF RootInv, Free, Waiting, Scanner, Exists
<1>9. AskedInv'
  BY <1>1, <1>2, <1>3, AskedStays
<1>10. QED
  BY <1>2, <1>3, <1>7, <1>8, <1>9, BetweenCalls

LEMMA NextGroupStep ==
  ASSUME PipelineInv, NextGroup
  PROVE  PipelineInv'
<1>1. DataType /\ RootInv /\ AskedInv /\ pc = "group"
  BY DEF PipelineInv, NextGroup
<1>2. stack = <<>> /\ Free("src") /\ (group # {} => \A s \in Scanner : Free(s))
  BY <1>1 DEF RootInv
<1>3. UNCHANGED <<tree, fresh, before, dryRun, count, stack, thrown>>
  BY DEF NextGroup, trees
<1>4. CASE pc' = "leave" /\ UNCHANGED <<todo, group, root, scanner>>
  <2>1. DataType'
    BY <1>1, <1>3, <1>4 DEF DataType
  <2>2. RootInv'
    BY <1>1, <1>2, <1>3, <1>4 DEF RootInv, Free, Waiting, Scanner
  <2>3. group' \subseteq Asked
    BY <1>1, <1>4 DEF AskedInv
  <2>4. AskedInv'
    BY <1>1, <1>3, <1>4, <2>3, AskedStays
  <2>5. QED
    BY <1>2, <1>3, <2>1, <2>2, <2>4, BetweenCalls
<1>5. CASE \E g \in todo : /\ group' = g /\ todo' = todo \ {g}
                           /\ root' = [root EXCEPT !["src"] = NoLists]
                           /\ scanner' = Order("src", 0, 0, <<>>)
                           /\ pc' = IF group = {} THEN "waitRef" ELSE "waitSrc"
  <2>1. PICK g \in todo : /\ group' = g /\ todo' = todo \ {g}
                          /\ root' = [root EXCEPT !["src"] = NoLists]
                          /\ scanner' = Order("src", 0, 0, <<>>)
                          /\ pc' = IF group = {} THEN "waitRef" ELSE "waitSrc"
    BY <1>5
  <2>2. g # {} /\ g \subseteq Asked /\ g \subseteq Names
    BY <1>1 DEF AskedInv, DataType
  <2> DEFINE begun == [state |-> "running", depth |-> 0, slot |-> 0, path |-> <<>>]
  <2>3. /\ begun \in Scan /\ begun.state = "running" /\ begun.depth = 0 /\ begun.path = <<>>
    BY EmptySeq DEF Scan, Path
  <2> HIDE DEF begun
  <2>4. scanner' = [scanner EXCEPT !["src"] = begun]
    BY <2>1 DEF Order, begun
  <2>5. /\ scanner' \in [Scanner -> Scan]
        /\ \A s \in Scanner : scanner'[s] = IF s = "src" THEN begun ELSE scanner[s]
    BY <1>1, <2>3, <2>4 DEF DataType
  <2>6. /\ root' \in [Scanner -> Lists]
        /\ \A s \in Scanner : root'[s] = IF s = "src" THEN NoLists ELSE root[s]
    BY <1>1, <2>1, SlotType DEF DataType
  <2>7. DataType'
    BY <1>1, <1>3, <2>1, <2>2, <2>5, <2>6 DEF DataType, Waiting, Scanner
  <2>8. AskedInv'
    BY <1>1, <1>3, <2>1, <2>2, AskedStays
  <2>9. RootInv'
    <3>1. \A s \in Scanner : scanner'[s].state # "idle" =>
            /\ scanner'[s].depth = 0 /\ scanner'[s].path = <<>>
            /\ scanner'[s].state = "running" => root'[s] = NoLists
            /\ s # "src" => Exists(s)'
      <4> SUFFICES ASSUME NEW s \in Scanner, scanner'[s].state # "idle"
                   PROVE  /\ scanner'[s].depth = 0 /\ scanner'[s].path = <<>>
                          /\ scanner'[s].state = "running" => root'[s] = NoLists
                          /\ s # "src" => Exists(s)'
        OBVIOUS
      <4>1. CASE s = "src"
        BY <4>1, <2>3, <2>5, <2>6
      <4>2. CASE s # "src"
        <5>1. scanner'[s] = scanner[s] /\ root'[s] = root[s]
          BY <4>2, <2>5, <2>6
        <5>2. QED
          BY <4>2, <5>1, <1>1, <1>2, <1>3 DEF RootInv, Exists
      <4>3. QED
        BY <4>1, <4>2
    <3>2. "src" \in Scanner /\ "ref" \in Scanner /\ "dst" \in Scanner
      BY DEF Scanner
    <3>3. scanner'["src"].state = "running" /\ scanner'["ref"] = scanner["ref"] /\ scanner'["dst"] = scanner["dst"]
      BY <3>2, <2>3, <2>5
    <3>4. pc' = "waitSrc" => Free("ref")' /\ Free("dst")'
      BY <3>2, <3>3, <1>2, <2>1 DEF Free
    <3>5. pc' \in {"waitRef", "waitSrc"} /\ group' # {} /\ ~ Free("src")' /\ stack' = <<>>
      BY <3>3, <1>2, <1>3, <2>1, <2>2 DEF Free
    <3>6. QED
      BY <3>1, <3>3, <3>4, <3>5 DEF RootInv
  <2>10. QED
    BY <1>2, <1>3, <2>7, <2>8, <2>9, BetweenCalls
<1>6. QED
  BY <1>4, <1>5 DEF NextGroup

\* From one wait to the next, or to the end: nothing is ordered.
LEMMA RootsProceed ==
  ASSUME PipelineInv, stack = <<>>, stack' = <<>>, UNCHANGED <<root, group, todo>>, DataType',
         tree'["src"] = tree["src"], Exists("ref")' <=> Exists("ref"),
         \A s \in Scanner : scanner'[s] = Idle \/ scanner'[s] = scanner[s],
         Exists("dst")' <=> Exists("dst") \/ (pc = "waitDst" /\ Exists("dst")'),
         pc' \in {"waitDst", "waitSrc", "leave"},
         pc' = "leave" \/ scanner'["src"] = scanner["src"],
         pc' = "leave" \/ pc \in {Waiting(s) : s \in Scanner},
         pc' \in {"waitDst", "waitSrc"} => Free("ref")',
         pc' = "waitSrc" => Free("dst")'
  PROVE  PipelineInv'
<1>1. RootInv /\ AskedInv
  BY DEF PipelineInv
<1>2. "src" \in Scanner /\ "ref" \in Scanner /\ "dst" \in Scanner
  BY DEF Scanner
<1>3. \A s \in Scanner : scanner'[s].state # "idle" =>
        /\ scanner'[s].depth = 0 /\ scanner'[s].path = <<>>
        /\ scanner'[s].state = "running" => root'[s] = NoLists
        /\ pc' # "leave" /\ s # "src" => Exists(s)'
  <2> SUFFICES ASSUME NEW s \in Scanner, scanner'[s].state # "idle"
               PROVE  /\ scanner'[s].depth = 0 /\ scanner'[s].path = <<>>
                      /\ scanner'[s].state = "running" => root'[s] = NoLists
                      /\ pc' # "leave" /\ s # "src" => Exists(s)'
    OBVIOUS
  <2>1. scanner'[s] = scanner[s] /\ scanner[s].state # "idle"
    BY DEF Idle
  <2>2. scanner[s].depth = 0 /\ scanner[s].path = <<>> /\ (scanner[s].state = "running" => root[s] = NoLists)
    BY <1>1, <2>1 DEF RootInv
  <2>3. pc' # "leave" /\ s # "src" => Exists(s)
    BY <1>1, <2>1 DEF RootInv, Waiting, Scanner
  <2>4. s = "src" \/ s = "ref" \/ s = "dst"
    BY DEF Scanner
  <2>5. pc' # "leave" /\ s # "src" => Exists(s)'
    BY <2>3, <2>4
  <2>6. QED
    BY <2>1, <2>2, <2>5
<1>4. pc' \in {Waiting(s) : s \in Scanner} =>
        /\ ~ Free("src")' /\ group' # {}
        /\ scanner'["src"].state = "lists" => root'["src"].dirs = group'
  <2>1. pc' \in {Waiting(s) : s \in Scanner} => pc' # "leave"
    BY DEF Waiting, Scanner
  <2>2. QED
    BY <1>1, <2>1 DEF RootInv, Free
<1>5. RootInv'
  BY <1>3, <1>4 DEF RootInv
<1>6. AskedInv'
  <2>1. group' \subseteq Asked
    BY <1>1 DEF AskedInv
  <2>2. QED
    BY <1>1, <2>1, AskedStays
<1>7. QED
  BY <1>5, <1>6, BetweenCalls

LEMMA WaitForRootStep ==
  ASSUME PipelineInv, WaitForRoot("ref", "dst") \/ WaitForRoot("dst", "src")
  PROVE  PipelineInv'
<1> DEFINE Step(s, next) ==
      /\ pc = Waiting(s) /\ scanner[s].state # "running" /\ Forget({s})
      /\ \/ pc' = "leave" /\ thrown' = TRUE
         \/ pc' = Waiting(next) /\ thrown' = thrown
      /\ UNCHANGED <<tree, fresh, before, dryRun, count, todo, group, root, stack>>
<1>1. DataType /\ RootInv
  BY DEF PipelineInv
<1>2. "src" \in Scanner /\ "ref" \in Scanner /\ "dst" \in Scanner
  BY DEF Scanner
<1>3. ASSUME NEW s \in {"ref", "dst"}, NEW next \in Scanner, WaitForRoot(s, next) PROVE Step(s, next)
  <2>1. /\ pc = Waiting(s) /\ scanner[s].state # "running" /\ Forget({s})
        /\ UNCHANGED <<tree, fresh, before, dryRun, count, todo, group, root, stack>>
    BY <1>3 DEF WaitForRoot, Finished, trees, Forget
  <2>2. \/ pc' = "leave" /\ thrown' = TRUE
        \/ pc' = Waiting(next) /\ thrown' = thrown
    BY <1>3 DEF WaitForRoot, Throw
  <2>3. QED
    BY <2>1, <2>2
<1>4. PICK s \in {"ref", "dst"}, next \in Scanner :
        Step(s, next) /\ <<s, next>> \in {<<"ref", "dst">>, <<"dst", "src">>}
  BY <1>2, <1>3
<1>5. s \in Scanner /\ s # "src" /\ pc \in {Waiting(t) : t \in Scanner}
  BY <1>2, <1>4
<1>6. /\ scanner' \in [Scanner -> Scan]
      /\ \A t \in Scanner : scanner'[t] = IF t = s THEN Idle ELSE scanner[t]
  BY <1>1, <1>4, <1>5, Forgotten DEF Finished
<1>7. stack = <<>> /\ stack' = <<>>
  <2>1. pc # "copy"
    BY <1>5 DEF Waiting, Scanner
  <2>2. QED
    BY <2>1, <1>1, <1>4 DEF RootInv
<1>8. pc' \in {"waitDst", "waitSrc", "leave"} /\ (pc' = "waitSrc" => s = "dst") /\ (pc' = "waitDst" => s = "ref")
  BY <1>4 DEF Waiting
<1>9. Free(s)'
  BY <1>5, <1>6 DEF Free, Idle
<1>10. s = "dst" => Free("ref")'
  BY <1>1, <1>2, <1>4, <1>6 DEF RootInv, Free, Waiting
<1>11. DataType'
  <2>1. pc' \in {Waiting(t) : t \in Scanner} \union {"leave"} /\ thrown' \in BOOLEAN
    BY <1>1, <1>4 DEF DataType
  <2>2. UNCHANGED <<tree, fresh, before, dryRun, count, todo, group, root>>
    BY <1>4
  <2>3. QED
    BY <2>1, <2>2, <1>1, <1>6 DEF DataType
<1>12. \A t \in Scanner : Exists(t)' <=> Exists(t)
  BY <1>4 DEF Exists
<1>13. QED
  <2>1. UNCHANGED <<root, group, todo>> /\ tree'["src"] = tree["src"] /\ scanner'["src"] = scanner["src"]
    BY <1>2, <1>4, <1>5, <1>6
  <2>2. \A t \in Scanner : scanner'[t] = Idle \/ scanner'[t] = scanner[t]
    BY <1>6
  <2>3. (Exists("ref")' <=> Exists("ref")) /\ (Exists("dst")' <=> Exists("dst"))
    BY <1>2, <1>12
  <2>4. /\ pc' \in {"waitDst", "waitSrc"} => Free("ref")'
        /\ pc' = "waitSrc" => Free("dst")'
    BY <1>8, <1>9, <1>10
  <2>5. QED
    BY <2>1, <2>2, <2>3, <2>4, <1>5, <1>7, <1>8, <1>11, RootsProceed

LEMMA NoReferenceStep ==
  ASSUME PipelineInv, NoReference
  PROVE  PipelineInv'
<1>1. DataType /\ RootInv /\ pc = "waitRef" /\ ~ Exists("ref")
  BY DEF PipelineInv, NoReference
<1>2. /\ pc' = "waitDst"
      /\ UNCHANGED <<tree, fresh, before, dryRun, count, scanner, todo, group, root, stack, thrown>>
  BY DEF NoReference, trees
<1>3. stack = <<>> /\ stack' = <<>>
  BY <1>1, <1>2 DEF RootInv
<1>4. Free("ref")'
  BY <1>1, <1>2, <1>3 DEF RootInv, Free, Scanner
<1>5. pc \in {Waiting(s) : s \in Scanner} /\ pc' \in {Waiting(s) : s \in Scanner}
  BY <1>1, <1>2 DEF Waiting, Scanner
<1>6. DataType'
  BY <1>1, <1>2, <1>5 DEF DataType
<1>7. \A s \in Scanner : Exists(s)' <=> Exists(s)
  BY <1>2 DEF Exists
<1>8. (Exists("ref")' <=> Exists("ref")) /\ (Exists("dst")' <=> Exists("dst"))
  BY <1>7 DEF Scanner
<1>9. QED
  BY <1>2, <1>3, <1>4, <1>5, <1>6, <1>8, RootsProceed

LEMMA CreateDestinationStep ==
  ASSUME PipelineInv, CreateDestination
  PROVE  PipelineInv'
<1>1. DataType /\ RootInv /\ pc = "waitDst" /\ ~ Exists("dst")
  BY DEF PipelineInv, CreateDestination
<1>2. /\ pc' = "waitSrc" /\ UNCHANGED <<count, scanner, todo, group, root, stack, thrown>>
      /\ Write(dst.dirs \union {<<>>}, dst.files, {}, {})
  BY DEF CreateDestination
<1>3. stack = <<>> /\ stack' = <<>>
  BY <1>1, <1>2 DEF RootInv
<1>4. Free("ref")' /\ Free("dst")'
  BY <1>1, <1>2, <1>3 DEF RootInv, Free, Scanner
<1>5. dst.dirs \union {<<>>} \in SUBSET Path /\ dst.files \in SUBSET Path
  BY <1>1, TreeParts, EmptySeq DEF Path
<1>6. /\ tree' \in [Scanner -> Tree] /\ fresh' \subseteq Path /\ before' \in Tree /\ dryRun' \in BOOLEAN
      /\ tree'["src"] = tree["src"] /\ tree'["ref"] = tree["ref"]
  BY <1>1, <1>2, <1>5, WriteTypes
<1>7. pc \in {Waiting(s) : s \in Scanner} /\ pc' \in {Waiting(s) : s \in Scanner}
  BY <1>1, <1>2 DEF Waiting, Scanner
<1>8. DataType'
  BY <1>1, <1>2, <1>6, <1>7 DEF DataType
<1>9. Exists("ref")' <=> Exists("ref")
  BY <1>6 DEF Exists
<1>10. QED
  BY <1>1, <1>2, <1>3, <1>4, <1>6, <1>7, <1>8, <1>9, RootsProceed

LEMMA FailBackupStep ==
  ASSUME PipelineInv, FailBackup
  PROVE  PipelineInv'
<1>1. DataType /\ RootInv /\ AskedInv /\ pc # "copy"
  BY DEF PipelineInv, FailBackup
<1>2. /\ pc' = "leave" /\ thrown' = TRUE
      /\ UNCHANGED <<tree, fresh, before, dryRun, count, scanner, todo, group, root, stack>>
  BY DEF FailBackup, Throw, trees
<1>3. stack = <<>> /\ stack' = <<>>
  BY <1>1, <1>2 DEF RootInv
<1>4. DataType'
  BY <1>1, <1>2 DEF DataType
<1>5. RootInv'
  BY <1>1, <1>2, <1>3 DEF RootInv, Free, Waiting, Scanner
<1>6. AskedInv'
  BY <1>1, <1>2 DEF AskedInv, Asked
<1>7. QED
  BY <1>3, <1>4, <1>5, <1>6, BetweenCalls

LEMMA LeaveBackupStep ==
  ASSUME PipelineInv, LeaveBackup
  PROVE  PipelineInv'
<1>1. DataType /\ RootInv /\ AskedInv /\ pc = "leave" /\ \A s \in Scanner : Finished(s)
  BY DEF PipelineInv, LeaveBackup, AllFinished
<1>2. /\ pc' = "idle" /\ todo' = {} /\ group' = {} /\ root' = [s \in Scanner |-> NoLists]
      /\ thrown' = FALSE /\ dryRun' = FALSE /\ count' = Zero
      /\ UNCHANGED <<tree, fresh, before, stack>>
  BY DEF LeaveBackup
<1>3. stack = <<>> /\ stack' = <<>>
  BY <1>1, <1>2 DEF RootInv
<1>4. scanner' \in [Scanner -> Scan] /\ \A s \in Scanner : scanner'[s] = Idle
  BY <1>1, Forgotten DEF LeaveBackup
<1>5. \A s \in Scanner : scanner'[s].state = "idle" /\ root'[s] = NoLists
  BY <1>2, <1>4 DEF Idle
<1>6. DataType'
  <2>1. root' \in [Scanner -> Lists]
    BY <1>2, SlotType
  <2>2. count' \in [{"dirs", "files"} -> [{"added", "kept", "removed"} -> Nat]]
    BY <1>2 DEF Zero
  <2>3. UNCHANGED <<tree, fresh, before>>
    BY <1>2
  <2>4. QED
    BY <1>1, <1>2, <1>4, <2>1, <2>2, <2>3 DEF DataType
<1>7. RootInv'
  BY <1>2, <1>3, <1>5 DEF RootInv, Free, Waiting, Scanner
<1>8. AskedInv'
  <2>1. tree'["src"] = tree["src"] /\ group' \subseteq Asked /\ todo' \subseteq todo
    BY <1>2
  <2>2. QED
    BY <2>1, <1>1, AskedStays
<1>9. QED
  BY <1>3, <1>6, <1>7, <1>8, BetweenCalls

LEMMA CopyGroupStep ==
  ASSUME PipelineInv, CopyGroup
  PROVE  PipelineInv'
<1>1. DataType /\ RootInv /\ AskedInv /\ pc = "waitSrc" /\ Finished("src")
  BY DEF PipelineInv, CopyGroup
<1>2. "src" \in Scanner /\ "ref" \in Scanner /\ "dst" \in Scanner
  BY DEF Scanner
<1>3. /\ stack = <<>> /\ ~ Free("src") /\ Free("ref") /\ Free("dst") /\ group # {} /\ group \subseteq Names
      /\ scanner["src"].state = "lists" => root["src"].dirs = group
  BY <1>1 DEF RootInv, Waiting, Scanner, DataType
<1>4. UNCHANGED <<tree, fresh, before, dryRun, count, todo, group, root>>
  BY DEF CopyGroup, trees
<1>5. /\ scanner' \in [Scanner -> Scan]
      /\ \A s \in Scanner : scanner'[s] = IF s = "src" THEN Idle ELSE scanner[s]
  BY <1>1, <1>2, Forgotten DEF CopyGroup
<1>6. \A s \in Scanner : Free(s)'
  BY <1>3, <1>5 DEF Free, Idle, Scanner
<1>7. AskedInv'
  BY <1>1, <1>4 DEF AskedInv, Asked
<1>8. CASE scanner["src"].state = "exception"
  <2>1. pc' = "leave" /\ thrown' = TRUE /\ stack' = <<>>
    BY <1>3, <1>8 DEF CopyGroup, Throw
  <2>2. DataType'
    BY <1>1, <1>4, <1>5, <2>1 DEF DataType
  <2>3. RootInv'
    BY <2>1, <1>6 DEF RootInv, Free, Waiting, Scanner
  <2>4. QED
    BY <2>1, <2>2, <2>3, <1>3, <1>7, BetweenCalls
<1>9. CASE scanner["src"].state # "exception"
  <2>1. root["src"].dirs = group
    <3>1. scanner["src"].state \in {"idle", "running", "lists", "exception"}
      BY <1>1, <1>2 DEF DataType, Scan
    <3>2. QED
      BY <3>1, <1>1, <1>3, <1>9 DEF Finished, Free
  <2> DEFINE asked == Matches(group, root, "dirs")
             g == Call({"src", "ref"}, <<>>, asked)
  <2>2. asked \in SUBSET Match /\ Distinct(asked) /\ asked # {} /\ \A m \in asked : m.in \subseteq Scanner
    BY <1>3, MatchesType
  <2>3. pc' = "copy" /\ thrown' = thrown /\ stack' = <<g>>
    BY <1>9, <2>1 DEF CopyGroup
  <2>4. CallOK(g) /\ g.pc = "turn"
    <3> HIDE DEF asked
    <3>1. <<>> \in Path /\ {"src", "ref"} \in SUBSET {"src", "ref"}
      BY EmptySeq DEF Path
    <3>2. \A m \in asked : m.in \subseteq {"src", "ref"} \union {"dst"}
      BY <2>2 DEF Scanner
    <3>3. QED
      BY <2>2, <3>1, <3>2, CallStarts
  <2> HIDE DEF asked, g
  <2>5. StackInv' /\ stack' # <<>>
    <3>1. g \in Frame
      BY <2>4 DEF CallOK
    <3>2. stack' \in Seq(Frame) /\ Len(stack') = 1 /\ stack'[1] = g /\ stack' # <<>>
      BY <3>1, <2>3
    <3>3. /\ \A d \in 1 .. Len(stack') : CallOK(stack'[d])
          /\ \A d \in 1 .. Len(stack') - 1 : stack'[d].pc \in Calling
      BY <3>2, <2>4
    <3>4. QED
      BY <3>2, <3>3 DEF StackInv
  <2>6. ScanInv'
    BY <1>6 DEF ScanInv, Free
  <2>7. RootInv'
    BY <2>3, <2>5 DEF RootInv, Waiting, Scanner
  <2>8. DataType'
    BY <1>1, <1>4, <1>5, <2>3 DEF DataType
  <2>9. QED
    BY <1>7, <2>5, <2>6, <2>7, <2>8 DEF PipelineInv
<1>10. QED
  BY <1>8, <1>9

-----------------------------------------------------------------------------
(* The theorems. *)

LEMMA Initially == Init => PipelineInv
<1> SUFFICES ASSUME Init PROVE PipelineInv
  OBVIOUS
<1>1. \A s \in Scanner : scanner[s] = Idle /\ scanner[s].state = "idle" /\ root[s] = NoLists
  BY DEF Init, Idle
<1>2. tree \in [Scanner -> Trees] /\ tree \in [Scanner -> Tree] /\ tree["src"] \in Trees /\ before \in Tree
  BY ConstantsAssumption DEF Init, Scanner
<1>3. Idle \in Scan
  BY EmptySeq DEF Idle, Scan, Path
<1>4. DataType
  <2>1. scanner \in [Scanner -> Scan] /\ root \in [Scanner -> Lists]
    BY <1>3, SlotType DEF Init
  <2>2. count \in [{"dirs", "files"} -> [{"added", "kept", "removed"} -> Nat]]
    BY DEF Init, Zero
  <2>3. QED
    BY <1>2, <2>1, <2>2 DEF Init, DataType
<1>5. StackInv /\ ScanInv
  BY EmptySeq DEF Init, StackInv, ScanInv
<1>6. RootInv
  BY <1>1 DEF Init, RootInv, Free, Waiting, Scanner
<1>7. AskedInv
  BY <1>2 DEF Init, AskedInv
<1>8. QED
  BY <1>4, <1>5, <1>6, <1>7 DEF PipelineInv

LEMMA Stutters ==
  ASSUME PipelineInv, UNCHANGED vars
  PROVE  PipelineInv'
<1>1. UNCHANGED <<tree, fresh, before, dryRun, count, scanner, pc, todo, group, root, stack, thrown>>
  BY DEF vars, trees, backup
<1>2. DataType'
  BY <1>1 DEF PipelineInv, DataType
<1>3. StackInv'
  BY <1>1 DEF PipelineInv, StackInv
<1>4. ScanInv'
  BY <1>1 DEF PipelineInv, ScanInv, ScanIndex, f
<1>5. RootInv'
  BY <1>1 DEF PipelineInv, RootInv, Free, Exists
<1>6. AskedInv'
  BY <1>1 DEF PipelineInv, AskedInv, Asked
<1>7. QED
  BY <1>2, <1>3, <1>4, <1>5, <1>6 DEF PipelineInv

LEMMA Inductive == PipelineInv /\ [Next]_vars => PipelineInv'
<1> SUFFICES ASSUME PipelineInv, [Next]_vars PROVE PipelineInv'
  OBVIOUS
<1>1. CASE CallBackup \/ Backup \/ FailBackup
  BY <1>1, CallBackupStep, OrderRootsStep, NextGroupStep, WaitForRootStep, NoReferenceStep,
     CreateDestinationStep, CopyGroupStep, LeaveBackupStep, FailBackupStep DEF Backup
<1>2. CASE Copying
  <2>1. CASE \E s \in Scanner : OrderScan(s) \/ WaitForScan(s)
    BY <2>1, OrderScanStep, WaitForScanStep
  <2>2. CASE RemoveDirectory \/ CreateDirectory \/ UpdateDirectory
    BY <2>2, DirectoryStep
  <2>3. CASE ExtraFilesDone \/ FilesDone
    BY <2>3, ExtraFilesDoneStep
  <2>4. QED
    BY <1>2, <2>1, <2>2, <2>3, TurnStep, MergeStep, RemoveExtraFileStep, CopyExtraDirectoriesStep,
       SyncFileStep, CopySubdirectoriesStep, SetAttributesStep, ReturnStep DEF Copying
<1>3. CASE Fail \/ FailFile
  BY <1>3, FailStep, FailFileStep
<1>4. CASE \E s \in Scanner : Scans(s)
  BY <1>4, CompleteStep, FailScanStep DEF Scans
<1>5. CASE UNCHANGED vars
  BY <1>5, Stutters
<1>6. QED
  BY <1>1, <1>2, <1>3, <1>4, <1>5 DEF Next

\* The pipeline's invariant, from which the rest follows.
THEOREM Invariance == Spec => []PipelineInv
<1>1. Init => PipelineInv
  BY Initially
<1>2. PipelineInv /\ [Next]_vars => PipelineInv'
  BY Inductive
<1>3. QED
  BY <1>1, <1>2, PTL DEF Spec

\* All variables have their types, each index of a call is one of its loop, and
\* each slot is unset or holds one of the call's directories.
THEOREM TypeCorrect == Spec => []TypeOK
<1>1. PipelineInv => TypeOK
  <2> SUFFICES ASSUME PipelineInv PROVE TypeOK
    OBVIOUS
  <2>1. \A d \in 1 .. Len(stack) : CallOK(stack[d])
    BY DEF PipelineInv, StackInv
  <2>2. QED
    BY <2>1 DEF PipelineInv, TypeOK, CallOK, IndexOK
<1>2. QED
  BY <1>1, Invariance, PTL

\* The asserts of CopyDirectories and of Scan hold in every call, for trees of
\* any depth and width, after exceptions as well.
THEOREM AssertsAlwaysHold == Spec => []AssertsHold
<1>1. PipelineInv => AssertsHold
  <2> SUFFICES ASSUME PipelineInv PROVE AssertsHold
    OBVIOUS
  <2>1. RootInv /\ (stack # <<>> => StackInv /\ ScanInv /\ CallOK(f) /\ f \in Frame
                                    /\ ScanSlot(f) = f.slot[ScanIndex] /\ ReadSlot(f) = read)
    BY Innermost DEF PipelineInv
  <2>2. ASSUME at("turn"), f.index < Len(f.dirs) PROVE f.slot[ScanIndex] = EmptySlot
    BY <2>1, <2>2 DEF at, CallOK, SlotsOK
  <2>3. ASSUME NEW s \in Scanner, at(Ordering(s)), s \in f.dirs[f.index + 1].in
        PROVE  Free(s) /\ (s # "dst" => s \in f.optional)
    <3>1. stack # <<>> /\ f.pc = Ordering(s) /\ f.pc \in {Ordering(t) : t \in Scanner}
      BY <2>3 DEF at
    <3>2. s \notin MayScan(f.pc)
      BY <3>1 DEF Ordering, Scanner, MayScan, OrderedAt, Processing
    <3>3. f.index < Len(f.dirs)
      BY <2>1, <3>1 DEF CallOK, IndexOK
    <3>4. f.index + 1 \in 1 .. Len(f.dirs)
      BY <2>1, <3>1, <3>3, FrameParts
    <3>5. f.dirs[f.index + 1].in \subseteq f.optional \union {"dst"}
      BY <2>1, <3>1, <3>4 DEF CallOK
    <3>6. Free(s)
      BY <2>1, <3>1, <3>2 DEF ScanInv, Free
    <3>7. QED
      BY <2>3, <3>5, <3>6
  <2>4. ASSUME at("merge") \/ at("extraFiles")
        PROVE  /\ read.idx = f.index - 1 /\ read.path = match.in
               /\ f.work.copyFiles # {} => "src" \in match.in
    <3>1. stack # <<>> /\ f.pc \in Processing \union {"merge"} /\ f.pc # "leave"
      BY <2>4 DEF at, Processing
    <3>2. read.idx = f.index - 1 /\ read.path = match.in
      BY <2>1, <3>1, ReadIsCurrent
    <3>3. QED
      BY <2>1, <3>1, <3>2 DEF CallOK, WorkOK
  <2>5. /\ pc = "roots" => Free("ref") /\ Free("dst")
        /\ pc \in {"roots", "group"} => Free("src")
    BY <2>1 DEF RootInv, Scanner
  <2>6. QED
    BY <2>2, <2>3, <2>4, <2>5 DEF AssertsHold
<1>2. QED
  BY <1>1, Invariance, PTL

\* No scanner ever works for a call that has ended, or into lists that hold
\* something.
THEOREM ListsAlwaysLive == Spec => []ListsLive
<1>1. PipelineInv => ListsLive
  <2> SUFFICES ASSUME PipelineInv, NEW s \in Scanner, scanner[s].state = "running"
               PROVE  IF scanner[s].depth = 0 THEN pc # "idle" /\ root[s] = NoLists
                      ELSE /\ scanner[s].depth = Len(stack)
                           /\ f.slot[scanner[s].slot].idx # Unset
                           /\ f.slot[scanner[s].slot].lists[s] = NoLists
    BY DEF ListsLive
  <2>1. CASE stack = <<>>
    BY <2>1 DEF PipelineInv, RootInv, Free
  <2>2. CASE stack # <<>>
    <3>1. /\ scanner[s].depth = Len(stack) /\ scanner[s].slot = ScanIndex
          /\ f.slot[ScanIndex].idx = f.index /\ f.slot[ScanIndex].lists[s] = NoLists
      BY <2>2 DEF PipelineInv, ScanInv
    <3>2. Len(stack) \in Nat /\ Len(stack) > 0 /\ f.index \in Nat
      BY <2>2, Innermost, FrameParts DEF PipelineInv
    <3>3. QED
      BY <3>1, <3>2 DEF Unset
  <2>3. QED
    BY <2>1, <2>2
<1>2. QED
  BY <1>1, Invariance, PTL

LEMMA WritingIsQuiet ==
  ASSUME PipelineInv, [Next]_vars, stack # <<>>, <<dst, fresh>>' # <<dst, fresh>>
  PROVE  \A s \in Scanner : Free(s)
<1>1. pc = "copy" /\ ScanInv
  BY DEF PipelineInv, RootInv
<1>2. ASSUME UNCHANGED trees PROVE FALSE
  BY <1>2 DEF trees, dst
<1>3. f.pc \in Processing
  <2>1. CASE CallBackup \/ Backup \/ FailBackup
    BY <1>1, <1>2, <2>1 DEF CallBackup, Backup, FailBackup, OrderRoots, NextGroup, WaitForRoot, Waiting,
       NoReference, CreateDestination, CopyGroup, LeaveBackup
  <2>2. CASE RemoveExtraFile \/ RemoveDirectory \/ CreateDirectory \/ UpdateDirectory \/ SyncFile
             \/ SetAttributes \/ FailFile
    BY <2>2 DEF RemoveExtraFile, RemoveDirectory, CreateDirectory, UpdateDirectory, SyncFile, SetAttributes,
       FailFile, at, Processing
  <2>3. CASE Turn \/ (\E s \in Scanner : OrderScan(s) \/ WaitForScan(s)) \/ Merge \/ ExtraFilesDone
             \/ CopyExtraDirectories \/ FilesDone \/ CopySubdirectories \/ Return \/ Fail
    BY <1>2, <2>3 DEF Turn, OrderScan, WaitForScan, Merge, ExtraFilesDone, CopyExtraDirectories, FilesDone,
       CopySubdirectories, Return, Fail, UnchangedAround
  <2>4. CASE \E s \in Scanner : Scans(s)
    BY <1>2, <2>4 DEF Scans, Complete, FailScan
  <2>5. CASE UNCHANGED vars
    BY <1>2, <2>5 DEF vars
  <2>6. QED
    BY <2>1, <2>2, <2>3, <2>4, <2>5 DEF Next, Copying
<1>4. QED
  BY <1>1, <1>3, Quiet

\* Line 492, for any trees: nothing is written while a scanner is at work, or
\* has results that nobody has taken.
THEOREM WritesQuiet == Spec => QuietWrites
<1>1. PipelineInv /\ [Next]_vars => [stack # <<>> /\ <<dst, fresh>>' # <<dst, fresh>>
                                     => \A s \in Scanner : Free(s)]_vars
  BY WritingIsQuiet
<1>2. QED
  BY <1>1, Invariance, PTL DEF Spec, QuietWrites

-----------------------------------------------------------------------------
(***************************************************************************)
(* What a backup may remove: every call of CopyDirectories works below a   *)
(* directory that was asked for, and what it knows of the source is what   *)
(* the source has, so that a directory counts as extra only if the source  *)
(* does not have it.                                                       *)
(***************************************************************************)

(* The invariant.  src stands for the tree of the source. *)

Dir(g, i) == Append(g.path, g.dirs[i].name)

\* The lists are those of the source's directory p.
Truthful(slot, p, src) == "src" \in slot.path => slot.lists["src"].dirs = Here(src, p).dirs

\* Up to Merge the lists of the slot that is read are needed.
Reading == {"turn", "orderSrc", "orderRef", "orderDst", "merge"}

\* A call works below what was asked for, which the source has.
BelowAsked(g, src) ==
  IF g.path = <<>> THEN \A i \in 1 .. Len(g.dirs) : g.dirs[i].name \in Here(src, <<>>).dirs
  ELSE g.path[1] \in Here(src, <<>>).dirs

\* What is not matched with the source is not in the source.
MatchesTrue(g, src) ==
  \A i \in 1 .. Len(g.dirs) : "src" \notin g.dirs[i].in => Dir(g, i) \notin src.dirs

ReadTrue(g, src) ==
  g.pc \in Reading /\ g.index \in 1 .. Len(g.dirs) => Truthful(ReadSlot(g), Dir(g, g.index), src)

ExtraTrue(g, src) ==
  g.pc # "leave" /\ g.index \in 1 .. Len(g.dirs) =>
    \A m \in g.work.extraDirs : Append(Dir(g, g.index), m.name) \notin src.dirs

ScanTrue(g, src) ==
  g.pc # "leave" /\ g.index < Len(g.dirs) => Truthful(ScanSlot(g), Dir(g, g.index + 1), src)

Faithful(g, src) ==
  BelowAsked(g, src) /\ MatchesTrue(g, src) /\ ReadTrue(g, src) /\ ExtraTrue(g, src)

\* The slot of the scanners is true once the scan of the source has ended; in
\* the calls that have called another one, it had ended before.
ScanEnded == scanner["src"].state \in {"idle", "lists"}

FaithfulInv ==
  /\ \A d \in 1 .. Len(stack) : Faithful(stack[d], tree["src"])
  /\ \A d \in 1 .. Len(stack) - 1 : ScanTrue(stack[d], tree["src"])
  /\ stack # <<>> /\ ScanEnded => ScanTrue(f, tree["src"])

KeepInv == PipelineInv /\ FaithfulInv /\ NothingLost

-----------------------------------------------------------------------------
(* Paths. *)

LEMMA FirstOfAppend ==
  ASSUME NEW p \in Path, NEW n \in Names
  PROVE  /\ Append(p, n) \in Path /\ Append(p, n) # <<>>
         /\ Append(p, n)[1] = IF p = <<>> THEN n ELSE p[1]
         /\ Parent(Append(p, n)) = p
<1>1. /\ p \in Seq(Names) /\ Len(p) \in Nat
      /\ Append(p, n) \in Seq(Names) /\ Append(p, n) # <<>> /\ Len(Append(p, n)) = Len(p) + 1
      /\ \A i \in 1 .. Len(p) : Append(p, n)[i] = p[i]
      /\ Append(p, n)[Len(p) + 1] = n
  BY AppendProperties, LenProperties DEF Path
<1>2. CASE p = <<>>
  <2>1. Len(p) = 0
    BY <1>2, EmptySeq
  <2>2. QED
    BY <1>1, <2>1, <1>2 DEF Path, Parent
<1>3. CASE p # <<>>
  <2>1. 1 \in 1 .. Len(p)
    BY <1>1, <1>3, EmptySeq
  <2>2. Append(p, n)[1] = p[1]
    BY <1>1, <2>1
  <2>3. Parent(Append(p, n)) = p
    BY <1>1 DEF Parent
  <2>4. QED
    BY <1>1, <1>3, <2>2, <2>3 DEF Path
<1>4. QED
  BY <1>2, <1>3

\* The source has the parent of each of its directories.
LEMMA ParentInSource ==
  ASSUME AskedInv, NEW p \in Path, NEW n \in Names, Append(p, n) \in tree["src"].dirs
  PROVE  p \in tree["src"].dirs
<1>1. Append(p, n) # <<>> /\ Parent(Append(p, n)) = p
  BY FirstOfAppend
<1>2. tree["src"] \in Trees
  BY DEF AskedInv
<1>3. QED
  BY <1>1, <1>2, ConstantsAssumption

\* The directory that is processed is below what was asked for.
LEMMA HereIsAsked ==
  ASSUME PipelineInv, FaithfulInv, stack # <<>>, f.pc \in Processing \union {"merge"}
  PROVE  /\ here = Dir(f, f.index) /\ here \in Path /\ here # <<>> /\ here[1] \in Asked
         /\ \A n \in Names : inner(n) \in Path /\ inner(n) # <<>> /\ inner(n)[1] \in Asked
         /\ "src" \notin match.in => here \notin tree["src"].dirs
<1>1. /\ f.index \in 1 .. Len(f.dirs) /\ match = f.dirs[f.index] /\ match \in Match
      /\ here \in Path
  BY ReadIsCurrent DEF PipelineInv
<1>2. f \in Frame /\ f.path \in Path /\ match.name \in Names
  BY <1>1, Innermost, FrameParts DEF PipelineInv, Match
<1>3. Faithful(f, tree["src"])
  <2>1. Len(stack) \in 1 .. Len(stack)
    BY Innermost DEF PipelineInv
  <2>2. QED
    BY <2>1 DEF FaithfulInv, f
<1>4. here = Append(f.path, match.name) /\ here = Dir(f, f.index)
  BY <1>1 DEF here, Dir
<1>5. here # <<>> /\ here[1] = IF f.path = <<>> THEN match.name ELSE f.path[1]
  <2> DEFINE p == f.path
             n == match.name
  <2>1. p \in Path /\ n \in Names /\ here = Append(p, n)
    BY <1>2, <1>4
  <2> HIDE DEF p, n
  <2>2. here # <<>> /\ here[1] = IF p = <<>> THEN n ELSE p[1]
    BY <2>1, FirstOfAppend
  <2>3. QED
    BY <2>2 DEF p, n
<1>6. here[1] \in Asked
  <2>1. IF f.path = <<>> THEN \A i \in 1 .. Len(f.dirs) : f.dirs[i].name \in Asked ELSE f.path[1] \in Asked
    BY <1>3 DEF Faithful, BelowAsked, Asked
  <2>2. f.path = <<>> => match.name \in Asked
    BY <1>1, <2>1
  <2>3. QED
    BY <1>5, <2>1, <2>2
<1>7. ASSUME NEW n \in Names PROVE inner(n) \in Path /\ inner(n) # <<>> /\ inner(n)[1] \in Asked
  <2>1. inner(n) = Append(here, n)
    BY DEF inner
  <2>2. QED
    BY <2>1, <1>1, <1>5, <1>6, FirstOfAppend
<1>8. "src" \notin match.in => here \notin tree["src"].dirs
  BY <1>1, <1>3, <1>4 DEF Faithful, MatchesTrue
<1>9. QED
  BY <1>1, <1>4, <1>5, <1>6, <1>7, <1>8

-----------------------------------------------------------------------------
(* What a write may do to dst. *)

\* Within a call, nothing but one path below what was asked for changes, and no
\* directory goes that the source has.
LEMMA WriteKeeps ==
  ASSUME DataType, NothingLost, pc # "idle", NEW dirs, NEW files, NEW done, NEW touched, NEW p,
         Write(dirs, files, done, touched), dirs \in SUBSET Path, files \in SUBSET Path,
         p # <<>>, p[1] \in Asked,
         \A q : q # p => (q \in dirs <=> q \in dst.dirs) /\ (q \in files <=> q \in dst.files),
         p \in dst.dirs /\ p \in tree["src"].dirs => p \in dirs
  PROVE  NothingLost'
<1>1. /\ tree'["src"] = tree["src"] /\ before' = before
      /\ dst' = dst \/ dst' = [dirs |-> dirs, files |-> files]
  BY WriteTypes
<1>2. Asked' = Asked
  BY <1>1 DEF Asked
<1>3. Beside(dst) = Beside(before) /\ before.dirs \intersect tree["src"].dirs \subseteq dst.dirs
  BY DEF NothingLost
<1>4. CASE dst' = dst
  <2>1. Beside(dst)' = Beside(dst) /\ Beside(before)' = Beside(before)
    BY <1>1, <1>2, <1>4 DEF Beside
  <2>2. QED
    BY <2>1, <1>1, <1>3, <1>4 DEF NothingLost
<1>5. CASE dst' = [dirs |-> dirs, files |-> files]
  <2>1. dst'.dirs = dirs /\ dst'.files = files
    BY <1>5
  <2>2. {q \in dirs : q # <<>> /\ q[1] \notin Asked} = {q \in dst.dirs : q # <<>> /\ q[1] \notin Asked}
    OBVIOUS
  <2>3. {q \in files : q # <<>> /\ q[1] \notin Asked} = {q \in dst.files : q # <<>> /\ q[1] \notin Asked}
    OBVIOUS
  <2>4. Beside(dst)' = Beside(dst)
    BY <1>2, <2>1, <2>2, <2>3 DEF Beside
  <2>5. Beside(before)' = Beside(before)
    BY <1>1, <1>2 DEF Beside
  <2>6. before.dirs \intersect tree["src"].dirs \subseteq dirs
    BY <1>3
  <2>7. QED
    BY <2>1, <2>4, <2>5, <2>6, <1>1, <1>3 DEF NothingLost
<1>6. QED
  BY <1>1, <1>4, <1>5

LEMMA Untouched ==
  ASSUME NothingLost, pc # "idle", UNCHANGED <<tree, before>>
  PROVE  NothingLost'
<1>1. dst' = dst /\ Asked' = Asked /\ Beside(dst)' = Beside(dst) /\ Beside(before)' = Beside(before)
  BY DEF dst, Asked, Beside
<1>2. QED
  BY <1>1 DEF NothingLost

LEMMA NothingLostStep ==
  ASSUME KeepInv, [Next]_vars
  PROVE  NothingLost'
<1>1. DataType /\ RootInv /\ FaithfulInv /\ PipelineInv /\ NothingLost
  BY DEF KeepInv, PipelineInv
<1>2. dst.dirs \in SUBSET Path /\ dst.files \in SUBSET Path
  BY <1>1, TreeParts
<1>3. ASSUME stack # <<>>, f.pc \in Processing
      PROVE  /\ pc # "idle" /\ here \in Path /\ here # <<>> /\ here[1] \in Asked
             /\ \A n \in Names : inner(n) \in Path /\ inner(n) # <<>> /\ inner(n)[1] \in Asked
             /\ "src" \notin match.in => here \notin tree["src"].dirs
  BY <1>1, <1>3, HereIsAsked DEF RootInv
<1>4. ASSUME stack # <<>>, f.pc \in Processing, NEW m \in f.work.copyFiles PROVE m.name \in Names
  <2>1. f \in Frame
    BY <1>1, <1>4, Innermost DEF PipelineInv
  <2>2. QED
    BY <2>1, <1>4, FrameParts DEF Match
<1>5. CASE RemoveExtraFile
  <2>1. PICK n \in f.work.extraFiles : Write(dst.dirs, dst.files \ {inner(n)}, {}, {here})
    BY <1>5 DEF RemoveExtraFile
  <2>2. stack # <<>> /\ f.pc \in Processing
    BY <1>5 DEF RemoveExtraFile, at, Processing
  <2>3. n \in Names
    <3>1. f \in Frame
      BY <1>1, <2>2, Innermost DEF PipelineInv
    <3>2. QED
      BY <3>1, <2>1, FrameParts
  <2> DEFINE p == inner(n)
             files == dst.files \ {p}
  <2>4. p # <<>> /\ p[1] \in Asked /\ files \in SUBSET Path /\ Write(dst.dirs, files, {}, {here}) /\ pc # "idle"
    BY <1>2, <1>3, <2>1, <2>2, <2>3
  <2>5. \A q : q # p => (q \in files <=> q \in dst.files)
    OBVIOUS
  <2> HIDE DEF p, files
  <2>6. QED
    BY <2>4, <2>5, <1>1, <1>2, WriteKeeps
<1>6. CASE RemoveDirectory
  <2>1. Write(dst.dirs \ {here}, dst.files, {}, {f.path}) /\ "src" \notin match.in
    BY <1>6 DEF RemoveDirectory
  <2>2. stack # <<>> /\ f.pc \in Processing
    BY <1>6 DEF RemoveDirectory, at, Processing
  <2> DEFINE dirs == dst.dirs \ {here}
  <2>3. /\ here # <<>> /\ here[1] \in Asked /\ dirs \in SUBSET Path
        /\ Write(dirs, dst.files, {}, {f.path}) /\ pc # "idle" /\ here \notin tree["src"].dirs
    BY <1>2, <1>3, <2>1, <2>2
  <2>4. \A q : q # here => (q \in dirs <=> q \in dst.dirs)
    OBVIOUS
  <2> HIDE DEF dirs
  <2>5. QED
    BY <2>3, <2>4, <1>1, <1>2, WriteKeeps
<1>7. CASE CreateDirectory
  <2>1. Write(dst.dirs \union {here}, dst.files, {}, {f.path})
    BY <1>7 DEF CreateDirectory
  <2>2. stack # <<>> /\ f.pc \in Processing
    BY <1>7 DEF CreateDirectory, at, Processing
  <2> DEFINE dirs == dst.dirs \union {here}
  <2>3. /\ here # <<>> /\ here[1] \in Asked /\ dirs \in SUBSET Path
        /\ Write(dirs, dst.files, {}, {f.path}) /\ pc # "idle" /\ here \in dirs
    BY <1>2, <1>3, <2>1, <2>2
  <2>4. \A q : q # here => (q \in dirs <=> q \in dst.dirs)
    OBVIOUS
  <2> HIDE DEF dirs
  <2>5. QED
    BY <2>3, <2>4, <1>1, <1>2, WriteKeeps
<1>8. CASE UpdateDirectory \/ (SetAttributes /\ ~ UNCHANGED trees)
  <2>1. PICK done \in {{}, {here}}, touched \in {{}, {f.path}} : Write(dst.dirs, dst.files, done, touched)
    BY <1>8 DEF UpdateDirectory, SetAttributes
  <2>2. stack # <<>> /\ f.pc \in Processing
    BY <1>8 DEF UpdateDirectory, SetAttributes, at, Processing
  <2>3. here # <<>> /\ here[1] \in Asked /\ pc # "idle"
    BY <1>3, <2>2
  <2>4. QED
    BY <2>1, <2>3, <1>1, <1>2, WriteKeeps
<1>9. CASE SyncFile \/ FailFile
  <2>1. stack # <<>> /\ f.pc \in Processing
    BY <1>9 DEF SyncFile, FailFile, at, Processing
  <2>2. PICK m \in f.work.copyFiles :
          \E files \in {dst.files \union {inner(m.name)}, dst.files \ {inner(m.name)}} :
            \E done, touched : Write(dst.dirs, files, done, touched)
    <3>1. CASE SyncFile
      BY <3>1 DEF SyncFile
    <3>2. CASE FailFile
      BY <3>2 DEF FailFile
    <3>3. QED
      BY <3>1, <3>2, <1>9
  <2>3. m.name \in Names
    BY <1>4, <2>1, <2>2
  <2> DEFINE p == inner(m.name)
  <2>4. p \in Path /\ p # <<>> /\ p[1] \in Asked /\ pc # "idle"
    BY <1>3, <2>1, <2>3
  <2>5. PICK files \in {dst.files \union {p}, dst.files \ {p}} :
          \E done, touched : Write(dst.dirs, files, done, touched)
    BY <2>2
  <2>6. files \in SUBSET Path /\ \A q : q # p => (q \in files <=> q \in dst.files)
    BY <2>4, <2>5, <1>2
  <2> HIDE DEF p
  <2>7. QED
    BY <2>4, <2>5, <2>6, <1>1, <1>2, WriteKeeps
<1>10. CASE CreateDestination
  <2>1. Write(dst.dirs \union {<<>>}, dst.files, {}, {}) /\ pc # "idle"
    BY <1>10 DEF CreateDestination
  <2> DEFINE dirs == dst.dirs \union {<<>>}
  <2>2. dirs \in SUBSET Path /\ Write(dirs, dst.files, {}, {})
    BY <2>1, <1>2, EmptySeq DEF Path
  <2> HIDE DEF dirs
  <2>3. /\ tree'["src"] = tree["src"] /\ before' = before
        /\ dst' = dst \/ dst' = [dirs |-> dirs, files |-> dst.files]
    BY <1>1, <1>2, <2>2, WriteTypes
  <2>4. Asked' = Asked /\ Beside(before)' = Beside(before)
    BY <2>3 DEF Asked, Beside
  <2>5. Beside(dst)' = Beside(dst) /\ dst.dirs \subseteq dst'.dirs
    <3>1. CASE dst' = dst
      BY <3>1, <2>4 DEF Beside
    <3>2. CASE dst' = [dirs |-> dirs, files |-> dst.files]
      <4>1. dst'.dirs = dst.dirs \union {<<>>} /\ dst'.files = dst.files
        BY <3>2 DEF dirs
      <4>2. {q \in dst'.dirs : q # <<>> /\ q[1] \notin Asked} = {q \in dst.dirs : q # <<>> /\ q[1] \notin Asked}
        BY <4>1
      <4>3. QED
        BY <4>1, <4>2, <2>4 DEF Beside
    <3>3. QED
      BY <2>3, <3>1, <3>2
  <2>6. QED
    BY <2>1, <2>3, <2>4, <2>5, <1>1 DEF NothingLost
<1>11. CASE CallBackup
  <2>1. /\ before' = dst
        /\ \E source, reference \in Trees : tree' = [tree EXCEPT !["src"] = source, !["ref"] = reference]
    BY <1>11 DEF CallBackup
  <2>2. tree'["dst"] = tree["dst"]
    BY <2>1, <1>1 DEF DataType, Scanner
  <2>3. dst' = before'
    BY <2>1, <2>2 DEF dst
  <2>4. QED
    BY <2>3 DEF NothingLost, Beside
<1>12. CASE LeaveBackup
  BY <1>12 DEF LeaveBackup, NothingLost
<1>13. CASE UNCHANGED vars
  BY <1>1, <1>13 DEF vars, trees, backup, NothingLost, Beside, Asked, dst
<1>14. ASSUME UNCHANGED trees, pc # "idle" PROVE NothingLost'
  BY <1>1, <1>14, Untouched DEF trees
<1>15. CASE OrderRoots \/ NextGroup \/ WaitForRoot("ref", "dst") \/ WaitForRoot("dst", "src")
            \/ NoReference \/ CopyGroup \/ FailBackup
  BY <1>14, <1>15 DEF OrderRoots, NextGroup, WaitForRoot, Waiting, NoReference, CopyGroup, FailBackup
<1>16. CASE Turn \/ (\E s \in Scanner : OrderScan(s) \/ WaitForScan(s)) \/ Merge \/ ExtraFilesDone
            \/ CopyExtraDirectories \/ FilesDone \/ CopySubdirectories \/ Return \/ Fail
            \/ (SetAttributes /\ UNCHANGED trees)
  <2>1. stack # <<>>
    BY <1>16 DEF Turn, OrderScan, WaitForScan, Merge, ExtraFilesDone, CopyExtraDirectories, FilesDone,
       CopySubdirectories, Return, Fail, SetAttributes, at
  <2>2. UNCHANGED trees
    BY <1>16 DEF Turn, OrderScan, WaitForScan, Merge, ExtraFilesDone, CopyExtraDirectories, FilesDone,
       CopySubdirectories, Return, Fail, UnchangedAround
  <2>3. QED
    BY <2>1, <2>2, <1>1, <1>14 DEF RootInv
<1>17. CASE \E s \in Scanner : Scans(s)
  <2>1. UNCHANGED trees /\ \E s \in Scanner : ~ Free(s)
    BY <1>17 DEF Scans, Complete, FailScan, Free
  <2>2. QED
    BY <2>1, <1>1, <1>14 DEF RootInv
<1>18. QED
  BY <1>5, <1>6, <1>7, <1>8, <1>9, <1>10, <1>11, <1>12, <1>13, <1>15, <1>16, <1>17 DEF Next, Copying, Backup

-----------------------------------------------------------------------------
(* What the calls know of the source. *)

LEMMA TopFaithful ==
  ASSUME StackInv, FaithfulInv, stack # <<>>, NEW h \in Frame,
         stack' = [stack EXCEPT ![Len(stack)] = h], tree'["src"] = tree["src"],
         Faithful(h, tree["src"]), ScanEnded' => ScanTrue(h, tree["src"])
  PROVE  FaithfulInv'
<1>1. Len(stack) \in 1 .. Len(stack) /\ stack \in Seq(Frame) /\ Len(stack) \in Nat
  BY Innermost DEF StackInv
<1>2. /\ stack' \in Seq(Frame) /\ Len(stack') = Len(stack)
      /\ \A d \in 1 .. Len(stack) : stack'[d] = IF d = Len(stack) THEN h ELSE stack[d]
  BY <1>1, ExceptSeq
<1>3. f' = h
  BY <1>1, <1>2 DEF f
<1>4. \A d \in 1 .. Len(stack') : Faithful(stack'[d], tree'["src"])
  BY <1>1, <1>2 DEF FaithfulInv
<1>5. ASSUME NEW d \in 1 .. Len(stack') - 1 PROVE ScanTrue(stack'[d], tree'["src"])
  <2>1. d \in 1 .. Len(stack) - 1
    BY <1>2
  <2>2. d \in 1 .. Len(stack) /\ d # Len(stack)
    BY <1>1, <2>1
  <2>3. QED
    BY <2>1, <2>2, <1>2 DEF FaithfulInv
<1>6. QED
  BY <1>3, <1>4, <1>5 DEF FaithfulInv

\* As long as a call has the same directory before it, with the same lists.
LEMMA SameDirectory ==
  ASSUME NEW src, NEW g, NEW h, h.path = g.path, h.dirs = g.dirs, h.index = g.index, h.slot = g.slot,
         h.work.extraDirs \subseteq g.work.extraDirs,
         h.pc \in Reading => g.pc \in Reading, g.pc = "leave" => h.pc = "leave"
  PROVE  /\ Faithful(g, src) => Faithful(h, src)
         /\ ScanTrue(g, src) => ScanTrue(h, src)
<1>1. ReadSlot(h) = ReadSlot(g) /\ ScanSlot(h) = ScanSlot(g) /\ \A i : Dir(h, i) = Dir(g, i)
  BY DEF ReadSlot, ScanSlot, Dir
<1>2. ScanTrue(g, src) => ScanTrue(h, src)
  BY <1>1 DEF ScanTrue
<1>3. BelowAsked(g, src) => BelowAsked(h, src)
  BY DEF BelowAsked
<1>4. MatchesTrue(g, src) => MatchesTrue(h, src)
  BY <1>1 DEF MatchesTrue
<1>5. ReadTrue(g, src) => ReadTrue(h, src)
  BY <1>1 DEF ReadTrue
<1>6. ExtraTrue(g, src) => ExtraTrue(h, src)
  BY <1>1 DEF ExtraTrue
<1>7. QED
  BY <1>2, <1>3, <1>4, <1>5, <1>6 DEF Faithful

LEMMA InnermostFaithful ==
  ASSUME StackInv, FaithfulInv, stack # <<>>
  PROVE  Faithful(f, tree["src"])
<1>1. Len(stack) \in 1 .. Len(stack)
  BY Innermost
<1>2. QED
  BY <1>1 DEF FaithfulInv, f

LEMMA StaysFaithful ==
  ASSUME StackInv, FaithfulInv, stack # <<>>, NEW h \in Frame,
         stack' = [stack EXCEPT ![Len(stack)] = h], tree'["src"] = tree["src"],
         h.path = f.path, h.dirs = f.dirs, h.index = f.index, h.slot = f.slot,
         h.work.extraDirs \subseteq f.work.extraDirs,
         h.pc \in Reading => f.pc \in Reading, f.pc = "leave" => h.pc = "leave",
         h.pc = "leave" \/ (ScanEnded' => ScanEnded)
  PROVE  FaithfulInv'
<1>1. Faithful(h, tree["src"])
  BY InnermostFaithful, SameDirectory
<1>2. ScanEnded' => ScanTrue(h, tree["src"])
  <2>1. CASE h.pc = "leave"
    BY <2>1 DEF ScanTrue
  <2>2. CASE ScanEnded' => ScanEnded
    BY <2>2, SameDirectory DEF FaithfulInv
  <2>3. QED
    BY <2>1, <2>2
<1>3. QED
  BY <1>1, <1>2, TopFaithful

LEMMA GotoFaithful ==
  ASSUME StackInv, FaithfulInv, stack # <<>>, NEW p \in FramePc, Goto(p), tree'["src"] = tree["src"],
         p \in Reading => f.pc \in Reading, f.pc = "leave" => p = "leave",
         p = "leave" \/ (ScanEnded' => ScanEnded)
  PROVE  FaithfulInv'
<1> DEFINE h == [f EXCEPT !.pc = p]
<1>1. f \in Frame
  BY Innermost
<1>2. /\ h \in Frame /\ h.pc = p /\ h.path = f.path
      /\ h.dirs = f.dirs /\ h.index = f.index /\ h.slot = f.slot /\ h.work = f.work
  BY <1>1, GotoFrame
<1>3. stack' = [stack EXCEPT ![Len(stack)] = h]
  BY DEF Goto, Top
<1> HIDE DEF h
<1>4. QED
  BY <1>2, <1>3, StaysFaithful

LEMMA TurnFaithful ==
  ASSUME PipelineInv, FaithfulInv, Turn
  PROVE  FaithfulInv'
<1>1. StackInv /\ stack # <<>> /\ f.pc = "turn" /\ tree'["src"] = tree["src"] /\ (ScanEnded' <=> ScanEnded)
  BY DEF PipelineInv, Turn, at, UnchangedAround, trees, ScanEnded
<1>2. /\ f \in Frame /\ CallOK(f) /\ ScanIndex \in {0, 1} /\ ReadIndex \in {0, 1} /\ ScanIndex # ReadIndex
      /\ ScanSlot(f) = f.slot[ScanIndex] /\ ReadSlot(f) = f.slot[ReadIndex]
      /\ f.index \in Nat /\ Len(f.dirs) \in Nat /\ f.slot \in [{0, 1} -> Slot]
  BY <1>1, Innermost, FrameParts DEF read
<1>3. CASE f.index >= Len(f.dirs)
  <2>1. PICK p \in {"leave", "merge"} : Goto(p)
    BY <1>2, <1>3 DEF Turn
  <2>2. p \in FramePc /\ f.pc \in Reading /\ f.pc # "leave"
    BY <1>1 DEF FramePc, Reading
  <2>3. QED
    BY <1>1, <2>1, <2>2, GotoFaithful
<1>4. CASE f.index < Len(f.dirs)
  <2> DEFINE h == [f EXCEPT !.slot[ScanIndex].idx = f.index, !.pc = "orderSrc"]
             new == [f.slot[ScanIndex] EXCEPT !.idx = f.index]
  <2>1. stack' = [stack EXCEPT ![Len(stack)] = h]
    BY <1>2, <1>4 DEF Turn, Goto, Top
  <2>2. new \in Slot /\ new.path = f.slot[ScanIndex].path
    <3>1. f.slot[ScanIndex] \in Slot
      BY <1>2
    <3>2. QED
      BY <3>1, <1>2 DEF Slot
  <2>3. h = [f EXCEPT !.slot[ScanIndex] = new, !.pc = "orderSrc"]
    OBVIOUS
  <2> HIDE DEF h, new
  <2>4. /\ h \in Frame /\ h.pc = "orderSrc" /\ h.index = f.index /\ h.dirs = f.dirs /\ h.path = f.path
        /\ h.work = f.work /\ h.slot = [f.slot EXCEPT ![ScanIndex] = new]
    <3>1. "orderSrc" \in FramePc
      BY DEF FramePc
    <3>2. QED
      BY <3>1, <2>2, <2>3, <1>2 DEF Frame
  <2>5. ScanSlot(h) = new /\ ReadSlot(h) = ReadSlot(f)
    BY <1>2, <2>4 DEF ScanSlot, ReadSlot, ScanIndex, ReadIndex
  <2>6. new.path = {}
    BY <1>1, <1>2, <2>2 DEF CallOK, SlotsOK, EmptySlot
  <2>7. Faithful(h, tree["src"])
    <3>1. Faithful(f, tree["src"])
      BY <1>1, InnermostFaithful
    <3>2. f.pc \in Reading /\ f.pc # "leave" /\ \A i : Dir(h, i) = Dir(f, i)
      BY <1>1, <2>4 DEF Reading, Dir
    <3>3. BelowAsked(h, tree["src"])
      BY <3>1, <2>4 DEF Faithful, BelowAsked
    <3>4. MatchesTrue(h, tree["src"])
      BY <3>1, <3>2, <2>4 DEF Faithful, MatchesTrue
    <3>5. ReadTrue(h, tree["src"])
      BY <3>1, <3>2, <2>4, <2>5 DEF Faithful, ReadTrue
    <3>6. ExtraTrue(h, tree["src"])
      BY <3>1, <3>2, <2>4 DEF Faithful, ExtraTrue
    <3>7. QED
      BY <3>3, <3>4, <3>5, <3>6 DEF Faithful
  <2>8. ScanTrue(h, tree["src"])
    BY <2>5, <2>6 DEF ScanTrue, Truthful
  <2>9. QED
    BY <1>1, <2>1, <2>4, <2>7, <2>8, TopFaithful
<1>5. QED
  BY <1>2, <1>3, <1>4

LEMMA OrderScanFaithful ==
  ASSUME PipelineInv, FaithfulInv, NEW s \in Scanner, OrderScan(s)
  PROVE  FaithfulInv'
<1>1. StackInv /\ stack # <<>> /\ f.pc = Ordering(s) /\ tree'["src"] = tree["src"] /\ DataType
  BY DEF PipelineInv, OrderScan, at, UnchangedAround, trees
<1>2. /\ f \in Frame /\ CallOK(f) /\ ScanIndex \in {0, 1} /\ ReadIndex \in {0, 1} /\ ScanIndex # ReadIndex
      /\ ScanSlot(f) = f.slot[ScanIndex] /\ ReadSlot(f) = f.slot[ReadIndex]
      /\ f.index \in Nat /\ Len(f.dirs) \in Nat /\ f.slot \in [{0, 1} -> Slot]
  BY <1>1, Innermost, FrameParts DEF read
<1>3. f.pc \in Reading /\ f.pc # "leave" /\ AfterOrder(s) \in FramePc /\ AfterOrder(s) # "leave"
  BY <1>1 DEF Reading, Ordering, Scanner, AfterOrder, FramePc
<1> DEFINE next == f.dirs[f.index + 1]
<1>4. CASE s \notin next.in
  <2>1. Goto(AfterOrder(s)) /\ scanner' = scanner
    BY <1>4 DEF OrderScan
  <2>2. ScanEnded' <=> ScanEnded
    BY <2>1 DEF ScanEnded
  <2>3. QED
    BY <2>1, <2>2, <1>1, <1>3, GotoFaithful
<1>5. CASE s \in next.in
  <2> DEFINE h == [f EXCEPT !.slot[ScanIndex].path = @ \union {s}, !.pc = AfterOrder(s)]
             new == [f.slot[ScanIndex] EXCEPT !.path = @ \union {s}]
  <2>1. /\ stack' = [stack EXCEPT ![Len(stack)] = h]
        /\ scanner' = Order(s, Len(stack), ScanIndex, Append(f.path, next.name))
    BY <1>5 DEF OrderScan, Top
  <2>2. new \in Slot /\ new.path = f.slot[ScanIndex].path \union {s} /\ new.lists = f.slot[ScanIndex].lists
    <3>1. f.slot[ScanIndex] \in Slot
      BY <1>2
    <3>2. QED
      BY <3>1 DEF Slot
  <2>3. h = [f EXCEPT !.slot[ScanIndex] = new, !.pc = AfterOrder(s)]
    OBVIOUS
  <2> HIDE DEF h, new
  <2>4. /\ h \in Frame /\ h.pc = AfterOrder(s) /\ h.index = f.index /\ h.dirs = f.dirs /\ h.path = f.path
        /\ h.work = f.work /\ h.slot = [f.slot EXCEPT ![ScanIndex] = new]
    BY <2>2, <2>3, <1>2, <1>3 DEF Frame
  <2>5. ScanSlot(h) = new /\ ReadSlot(h) = ReadSlot(f) /\ \A i : Dir(h, i) = Dir(f, i)
    BY <1>2, <2>4 DEF ScanSlot, ReadSlot, ScanIndex, ReadIndex, Dir
  <2>6. Faithful(h, tree["src"])
    <3>1. Faithful(f, tree["src"])
      BY <1>1, InnermostFaithful
    <3>3. BelowAsked(h, tree["src"])
      BY <3>1, <2>4 DEF Faithful, BelowAsked
    <3>4. MatchesTrue(h, tree["src"])
      BY <3>1, <2>4, <2>5 DEF Faithful, MatchesTrue
    <3>5. ReadTrue(h, tree["src"])
      BY <3>1, <1>3, <2>4, <2>5 DEF Faithful, ReadTrue
    <3>6. ExtraTrue(h, tree["src"])
      BY <3>1, <1>3, <2>4, <2>5 DEF Faithful, ExtraTrue
    <3>7. QED
      BY <3>3, <3>4, <3>5, <3>6 DEF Faithful
  <2>7. ScanEnded' => ScanTrue(h, tree["src"])
    <3>1. CASE s = "src"
      <4>1. scanner'["src"].state = "running"
        BY <3>1, <2>1, <1>1 DEF Order, DataType
      <4>2. QED
        BY <4>1 DEF ScanEnded
    <3>2. CASE s # "src"
      <4>1. scanner'["src"] = scanner["src"]
        BY <3>2, <2>1, <1>1 DEF Order, DataType, Scanner
      <4>2. ScanEnded' => ScanTrue(f, tree["src"])
        BY <4>1, <1>1 DEF FaithfulInv, ScanEnded
      <4>3. "src" \in new.path <=> "src" \in ScanSlot(f).path
        BY <3>2, <2>2, <1>2
      <4>4. QED
        BY <4>2, <4>3, <1>2, <1>3, <2>2, <2>4, <2>5 DEF ScanTrue, Truthful
    <3>3. QED
      BY <3>1, <3>2
  <2>8. QED
    BY <1>1, <2>1, <2>4, <2>6, <2>7, TopFaithful
<1>6. QED
  BY <1>4, <1>5

LEMMA MergeFaithful ==
  ASSUME PipelineInv, FaithfulInv, Merge
  PROVE  FaithfulInv'
<1>1. /\ StackInv /\ AskedInv /\ stack # <<>> /\ f.pc = "merge" /\ tree'["src"] = tree["src"]
      /\ (ScanEnded' <=> ScanEnded)
  BY DEF PipelineInv, Merge, at, UnchangedAround, trees, ScanEnded
<1>2. /\ f \in Frame /\ CallOK(f) /\ ScanIndex \in {0, 1} /\ ReadIndex \in {0, 1} /\ ScanIndex # ReadIndex
      /\ ScanSlot(f) = f.slot[ScanIndex] /\ ReadSlot(f) = f.slot[ReadIndex] /\ read = f.slot[ReadIndex]
      /\ f.index \in Nat /\ Len(f.dirs) \in Nat /\ f.slot \in [{0, 1} -> Slot]
  BY <1>1, Innermost, FrameParts DEF read
<1>3. /\ f.index \in 1 .. Len(f.dirs) /\ read.path = match.in
      /\ here = Dir(f, f.index) /\ here \in Path
      /\ "src" \notin match.in => here \notin tree["src"].dirs
  BY <1>1, ReadIsCurrent, HereIsAsked DEF Processing
<1> DEFINE l == read.lists
           work == Work(read.lists)
           new == [f.slot[ReadIndex] EXCEPT !.lists = EmptySlot.lists]
           h == [f EXCEPT !.work = work, !.slot[ReadIndex].lists = EmptySlot.lists, !.pc = "waitSrc"]
<1>4. stack' = [stack EXCEPT ![Len(stack)] = h]
  BY DEF Merge, Top
<1>5. new \in Slot /\ l \in [Scanner -> Lists] /\ read.path \in SUBSET Scanner
  <2>1. f.slot[ReadIndex] \in Slot
    BY <1>2
  <2>2. QED
    BY <2>1, <1>2, SlotType DEF Slot
<1>6. h = [f EXCEPT !.work = work, !.slot[ReadIndex] = new, !.pc = "waitSrc"]
  OBVIOUS
<1>7. ASSUME NEW m \in work.extraDirs PROVE Append(here, m.name) \notin tree["src"].dirs
  <2> DEFINE names == l["dst"].dirs \ l["src"].dirs
             dstOnly == [l EXCEPT !["src"] = NoLists, !["ref"] = NoLists]
  <2>1. names \in SUBSET Names
    BY <1>5 DEF Lists, Scanner
  <2>2. m \in Matches(names, dstOnly, "dirs")
    BY <1>7 DEF Work
  <2> HIDE DEF names, dstOnly
  <2>3. m.name \in names
    BY <2>1, <2>2, MatchesType
  <2>4. m.name \in Names /\ m.name \notin l["src"].dirs
    BY <2>1, <2>3 DEF names
  <2>5. CASE "src" \in read.path
    <3>1. Truthful(ReadSlot(f), Dir(f, f.index), tree["src"])
      BY <1>1, <1>3, InnermostFaithful DEF Faithful, ReadTrue, Reading
    <3>2. l["src"].dirs = Here(tree["src"], here).dirs
      BY <3>1, <2>5, <1>2, <1>3 DEF Truthful
    <3>3. QED
      BY <3>2, <2>4 DEF Here
  <2>6. CASE "src" \notin read.path
    BY <2>4, <2>6, <1>1, <1>3, ParentInSource
  <2>7. QED
    BY <2>5, <2>6
<1>8. work \in [extraFiles : SUBSET Names, extraDirs : SUBSET Match,
                copyFiles : SUBSET Match, copyDirs : SUBSET Match]
  <2>1. \A s \in Scanner : s \notin read.path => l[s] = [dirs |-> {}, files |-> {}]
    BY <1>2 DEF CallOK, SlotsOK
  <2> HIDE DEF l
  <2>2. LET w == Work(l) IN w \in [extraFiles : SUBSET Names, extraDirs : SUBSET Match,
                                   copyFiles : SUBSET Match, copyDirs : SUBSET Match]
    BY <2>1, <1>5, WorkType
  <2>3. QED
    BY <2>2 DEF l
<1> HIDE DEF h, new, work, l
<1>9. /\ h \in Frame /\ h.pc = "waitSrc" /\ h.index = f.index /\ h.dirs = f.dirs /\ h.path = f.path
      /\ h.work = work /\ h.slot = [f.slot EXCEPT ![ReadIndex] = new]
  <2>1. "waitSrc" \in FramePc
    BY DEF FramePc
  <2>2. QED
    BY <2>1, <1>2, <1>5, <1>6, <1>8 DEF Frame
<1>10. ScanSlot(h) = ScanSlot(f) /\ \A i : Dir(h, i) = Dir(f, i)
  BY <1>2, <1>9 DEF ScanSlot, ScanIndex, ReadIndex, Dir
<1>11. Faithful(h, tree["src"])
  <2>1. Faithful(f, tree["src"])
    BY <1>1, InnermostFaithful
  <2>2. BelowAsked(h, tree["src"])
    BY <2>1, <1>9 DEF Faithful, BelowAsked
  <2>3. MatchesTrue(h, tree["src"])
    BY <2>1, <1>9, <1>10 DEF Faithful, MatchesTrue
  <2>4. ReadTrue(h, tree["src"])
    BY <1>9 DEF ReadTrue, Reading
  <2>5. ExtraTrue(h, tree["src"])
    BY <1>3, <1>7, <1>9, <1>10 DEF ExtraTrue
  <2>6. QED
    BY <2>2, <2>3, <2>4, <2>5 DEF Faithful
<1>12. ScanEnded' => ScanTrue(h, tree["src"])
  BY <1>1, <1>9, <1>10 DEF FaithfulInv, ScanTrue
<1>13. QED
  BY <1>1, <1>4, <1>9, <1>11, <1>12, TopFaithful

\* The slots change their roles: what has been scanned is read, and the slot
\* that has been read is empty.
LEMMA SwapFaithful ==
  ASSUME NEW src, NEW g, g.index \in Nat, g.index <= Len(g.dirs), g.pc # "leave", Len(g.dirs) \in Nat,
         Faithful(g, src), ScanTrue(g, src),
         NEW h, h.index = g.index + 1, h.dirs = g.dirs, h.path = g.path, h.work = NoWork,
         ReadSlot(h) = ScanSlot(g), ScanSlot(h).path = {}
  PROVE  Faithful(h, src) /\ ScanTrue(h, src)
<1>1. \A i : Dir(h, i) = Dir(g, i)
  BY DEF Dir
<1>2. BelowAsked(h, src)
  BY DEF Faithful, BelowAsked
<1>3. MatchesTrue(h, src)
  BY <1>1 DEF Faithful, MatchesTrue
<1>4. ReadTrue(h, src)
  <2>1. h.index \in 1 .. Len(h.dirs) => g.index < Len(g.dirs)
    OBVIOUS
  <2>2. QED
    BY <1>1, <2>1 DEF ReadTrue, ScanTrue
<1>5. ExtraTrue(h, src)
  BY DEF ExtraTrue, NoWork
<1>6. ScanTrue(h, src)
  BY DEF ScanTrue, Truthful
<1>7. QED
  BY <1>2, <1>3, <1>4, <1>5, <1>6 DEF Faithful

LEMMA WaitForScanFaithful ==
  ASSUME PipelineInv, FaithfulInv, NEW s \in Scanner, WaitForScan(s)
  PROVE  FaithfulInv'
<1>1. /\ StackInv /\ ScanInv /\ DataType /\ stack # <<>> /\ f.pc = Waiting(s)
      /\ tree'["src"] = tree["src"] /\ scanner[s].state # "running"
  BY DEF PipelineInv, WaitForScan, at, trees, Finished
<1>2. /\ f \in Frame /\ CallOK(f) /\ f.index \in Nat /\ Len(f.dirs) \in Nat
  BY <1>1, Innermost, FrameParts
<1>3. /\ \A t \in Scanner : scanner'[t] = IF t = s THEN Idle ELSE scanner[t]
  BY <1>1, Forgotten DEF WaitForScan
<1>4. f.pc \notin Reading /\ f.pc # "leave" /\ "src" \in Scanner
  BY <1>1 DEF Waiting, Reading, Scanner
<1>5. scanner[s].state # "exception" => (ScanEnded' => ScanEnded)
  <2>1. scanner["src"].state \in {"idle", "running", "lists", "exception"}
    BY <1>1, <1>4 DEF DataType, Scan
  <2>2. QED
    BY <2>1, <1>1, <1>3, <1>4 DEF ScanEnded
<1>6. CASE scanner[s].state = "exception"
  <2>1. Goto("leave") /\ "leave" \in FramePc
    BY <1>6 DEF WaitForScan, FramePc
  <2>2. QED
    BY <2>1, <1>1, GotoFaithful DEF Reading
<1>7. CASE scanner[s].state # "exception" /\ s # "dst"
  <2>1. PICK p \in {"waitRef", "waitDst"} : Goto(p)
    BY <1>7 DEF WaitForScan, AfterWait, Goto, Scanner
  <2>2. p \in FramePc /\ p \notin Reading
    BY <2>1 DEF FramePc, Reading
  <2>3. QED
    BY <2>1, <2>2, <1>1, <1>4, <1>5, <1>7, GotoFaithful
<1>8. CASE scanner[s].state # "exception" /\ s = "dst" /\ f.index # 0
  <2>1. Goto("extraFiles") /\ "extraFiles" \in FramePc /\ "extraFiles" \notin Reading
    BY <1>8 DEF WaitForScan, AfterWait, Goto, FramePc, Reading
  <2>2. QED
    BY <2>1, <1>1, <1>4, <1>5, <1>8, GotoFaithful
<1>9. CASE scanner[s].state # "exception" /\ s = "dst" /\ f.index = 0
  <2> DEFINE h == [f EXCEPT !.index = 1, !.pc = "turn"]
  <2>1. stack' = [stack EXCEPT ![Len(stack)] = h]
    BY <1>9 DEF WaitForScan, AfterWait, Top
  <2>2. /\ h \in Frame /\ h.index = f.index + 1 /\ h.dirs = f.dirs /\ h.path = f.path /\ h.work = f.work
        /\ h.slot = f.slot /\ h.pc = "turn"
    <3>1. f \in Frame /\ "turn" \in FramePc /\ 1 \in Nat
      BY <1>2 DEF FramePc
    <3>2. /\ h \in Frame /\ h.index = 1 /\ h.dirs = f.dirs /\ h.path = f.path /\ h.work = f.work
          /\ h.slot = f.slot /\ h.pc = "turn"
      BY <3>1 DEF Frame
    <3> HIDE DEF h
    <3>3. QED
      BY <3>2, <1>9
  <2> HIDE DEF h
  <2>3. f.work = NoWork /\ ReadSlot(f) = EmptySlot
    BY <1>2, <1>4, <1>9 DEF CallOK, WorkOK, SlotsOK
  <2>4. ReadSlot(h) = ScanSlot(f) /\ ScanSlot(h) = ReadSlot(f)
    <3>1. (f.index + 1 + 1) % 2 = f.index % 2
      BY <1>2, Parity
    <3>2. QED
      BY <3>1, <2>2 DEF ReadSlot, ScanSlot
  <2>5. ScanSlot(h).path = {}
    BY <2>3, <2>4 DEF EmptySlot
  <2>6. ScanTrue(f, tree["src"])
    <3>1. "src" \notin MayScan(f.pc)
      BY <1>1, <1>9 DEF Waiting, MayScan, Processing
    <3>2. scanner["src"].state = "idle"
      BY <3>1, <1>1, <1>4 DEF ScanInv
    <3>3. QED
      BY <3>2, <1>1 DEF FaithfulInv, ScanEnded
  <2>7. Faithful(f, tree["src"])
    BY <1>1, InnermostFaithful
  <2>8. f.index <= Len(f.dirs)
    BY <1>2, <1>9
  <2>9. Faithful(h, tree["src"]) /\ ScanTrue(h, tree["src"])
    BY <2>2, <2>3, <2>4, <2>5, <2>6, <2>7, <2>8, <1>2, <1>4, SwapFaithful
  <2>10. QED
    BY <2>1, <2>2, <2>9, <1>1, TopFaithful
<1>10. QED
  BY <1>6, <1>7, <1>8, <1>9

LEMMA SetAttributesFaithful ==
  ASSUME PipelineInv, FaithfulInv, SetAttributes
  PROVE  FaithfulInv'
<1>1. StackInv /\ ScanInv /\ DataType /\ stack # <<>> /\ f.pc = "attributes"
  BY DEF PipelineInv, SetAttributes, at
<1>2. /\ f \in Frame /\ CallOK(f) /\ ScanIndex \in {0, 1} /\ ReadIndex \in {0, 1} /\ ScanIndex # ReadIndex
      /\ ScanSlot(f) = f.slot[ScanIndex] /\ ReadSlot(f) = f.slot[ReadIndex] /\ read = f.slot[ReadIndex]
      /\ f.index \in Nat /\ Len(f.dirs) \in Nat /\ f.slot \in [{0, 1} -> Slot]
  BY <1>1, Innermost, FrameParts DEF read
<1>3. f.pc \in Processing /\ f.index \in 1 .. Len(f.dirs)
  BY <1>1, <1>2 DEF Processing, CallOK, IndexOK
<1>4. tree'["src"] = tree["src"]
  BY <1>1, TreeParts, WriteTypes DEF SetAttributes, trees
<1>5. ScanTrue(f, tree["src"])
  <2>1. scanner["src"].state = "idle"
    BY <1>1, <1>3, Quiet DEF Free, Scanner
  <2>2. QED
    BY <2>1, <1>1 DEF FaithfulInv, ScanEnded
<1> DEFINE h == [f EXCEPT !.slot[ReadIndex] = EmptySlot, !.index = @ + 1, !.pc = "turn", !.work = NoWork]
<1>6. stack' = [stack EXCEPT ![Len(stack)] = h]
  BY DEF SetAttributes, Top
<1>7. /\ h \in Frame /\ h.index = f.index + 1 /\ h.dirs = f.dirs /\ h.path = f.path /\ h.work = NoWork
      /\ h.slot = [f.slot EXCEPT ![ReadIndex] = EmptySlot]
  <2>1. f \in Frame /\ ReadIndex \in {0, 1} /\ EmptySlot \in Slot /\ "turn" \in FramePc
    BY <1>2, SlotType DEF FramePc
  <2>2. NoWork \in [extraFiles : SUBSET Names, extraDirs : SUBSET Match,
                    copyFiles : SUBSET Match, copyDirs : SUBSET Match]
    BY DEF NoWork
  <2> DEFINE slot == [f.slot EXCEPT ![ReadIndex] = EmptySlot]
             next == f.index + 1
  <2>3. slot \in [{0, 1} -> Slot] /\ next \in Nat
    BY <2>1, <1>2
  <2>4. h = [f EXCEPT !.slot = slot, !.index = next, !.pc = "turn", !.work = NoWork]
    OBVIOUS
  <2> HIDE DEF h, slot, next
  <2>5. h.index = next /\ h.dirs = f.dirs /\ h.path = f.path /\ h.slot = slot /\ h.work = NoWork /\ h \in Frame
    BY <2>1, <2>2, <2>3, <2>4 DEF Frame
  <2>6. QED
    BY <2>5 DEF slot, next
<1> HIDE DEF h
<1>8. ReadSlot(h) = ScanSlot(f) /\ ScanSlot(h).path = {}
  <2>1. (f.index + 1 + 1) % 2 = f.index % 2
    BY <1>2, Parity
  <2>2. ReadSlot(h) = ScanSlot(f)
    BY <2>1, <1>2, <1>7 DEF ReadSlot, ScanSlot, ScanIndex, ReadIndex
  <2>3. ScanSlot(h) = EmptySlot
    BY <1>2, <1>7 DEF ScanSlot, ReadIndex
  <2>4. QED
    BY <2>2, <2>3 DEF EmptySlot
<1>9. Faithful(f, tree["src"]) /\ f.pc # "leave" /\ f.index <= Len(f.dirs)
  BY <1>1, <1>3, InnermostFaithful
<1>10. Faithful(h, tree["src"]) /\ ScanTrue(h, tree["src"])
  BY <1>2, <1>5, <1>7, <1>8, <1>9, SwapFaithful
<1>11. QED
  BY <1>1, <1>4, <1>6, <1>7, <1>10, TopFaithful

\* The steps that process a directory, or end the call, without calling another.
LEMMA ProcessingFaithful ==
  ASSUME PipelineInv, FaithfulInv,
         \/ RemoveExtraFile \/ ExtraFilesDone \/ RemoveDirectory \/ CreateDirectory \/ UpdateDirectory
         \/ SyncFile \/ FilesDone \/ Fail \/ FailFile
  PROVE  FaithfulInv'
<1>1. StackInv /\ DataType /\ stack # <<>>
  BY DEF PipelineInv, RemoveExtraFile, ExtraFilesDone, RemoveDirectory, CreateDirectory, UpdateDirectory,
         SyncFile, FilesDone, Fail, FailFile, at
<1>2. f \in Frame
  BY <1>1, Innermost
<1>3. scanner' = scanner /\ (ScanEnded' <=> ScanEnded)
  BY DEF RemoveExtraFile, ExtraFilesDone, RemoveDirectory, CreateDirectory, UpdateDirectory,
         SyncFile, FilesDone, Fail, FailFile, Unscanned, ScanEnded
<1>4. tree'["src"] = tree["src"]
  <2>1. ASSUME NEW dirs, NEW files, NEW done, NEW touched, Write(dirs, files, done, touched)
        PROVE  tree'["src"] = tree["src"]
    BY <2>1, <1>1 DEF Write, DataType, Scanner
  <2>2. CASE ExtraFilesDone \/ FilesDone \/ Fail
    BY <2>2 DEF ExtraFilesDone, FilesDone, Fail, UnchangedAround, trees
  <2>3. CASE RemoveExtraFile \/ RemoveDirectory \/ CreateDirectory
    BY <2>1, <2>3 DEF RemoveExtraFile, RemoveDirectory, CreateDirectory
  <2>4. CASE UpdateDirectory
    BY <2>1, <2>4 DEF UpdateDirectory
  <2>5. CASE SyncFile \/ FailFile
    BY <2>1, <2>5 DEF SyncFile, FailFile
  <2>6. QED
    BY <2>2, <2>3, <2>4, <2>5
<1>5. CASE RemoveExtraFile \/ SyncFile
  <2>1. f.pc \in {"extraFiles", "files"}
    BY <1>5 DEF RemoveExtraFile, SyncFile, at
  <2>2. PICK h \in Frame : /\ stack' = [stack EXCEPT ![Len(stack)] = h]
                           /\ h.path = f.path /\ h.dirs = f.dirs /\ h.index = f.index /\ h.slot = f.slot
                           /\ h.pc = f.pc /\ h.work.extraDirs = f.work.extraDirs
    <3>1. CASE RemoveExtraFile
      <4>1. PICK n : stack' = [stack EXCEPT ![Len(stack)] = [f EXCEPT !.work.extraFiles = @ \ {n}]]
        BY <3>1 DEF RemoveExtraFile, Top
      <4> DEFINE h == [f EXCEPT !.work.extraFiles = @ \ {n}]
      <4>2. /\ h \in Frame /\ h.path = f.path /\ h.dirs = f.dirs /\ h.index = f.index /\ h.slot = f.slot
            /\ h.pc = f.pc /\ h.work.extraDirs = f.work.extraDirs
        BY <1>2 DEF Frame
      <4> HIDE DEF h
      <4>3. stack' = [stack EXCEPT ![Len(stack)] = h]
        BY <4>1 DEF h
      <4>4. QED
        BY <4>2, <4>3
    <3>2. CASE SyncFile
      <4>1. PICK m : stack' = [stack EXCEPT ![Len(stack)] = [f EXCEPT !.work.copyFiles = @ \ {m}]]
        BY <3>2 DEF SyncFile, Top
      <4> DEFINE h == [f EXCEPT !.work.copyFiles = @ \ {m}]
      <4>2. /\ h \in Frame /\ h.path = f.path /\ h.dirs = f.dirs /\ h.index = f.index /\ h.slot = f.slot
            /\ h.pc = f.pc /\ h.work.extraDirs = f.work.extraDirs
        BY <1>2 DEF Frame
      <4> HIDE DEF h
      <4>3. stack' = [stack EXCEPT ![Len(stack)] = h]
        BY <4>1 DEF h
      <4>4. QED
        BY <4>2, <4>3
    <3>3. QED
      BY <3>1, <3>2, <1>5
  <2>3. QED
    BY <2>1, <2>2, <1>1, <1>3, <1>4, StaysFaithful
<1>6. CASE ExtraFilesDone \/ RemoveDirectory \/ CreateDirectory \/ UpdateDirectory \/ FilesDone \/ Fail \/ FailFile
  <2>1. PICK p \in {"extraDirs", "files", "subdirs", "leave"} : Goto(p)
    BY <1>6 DEF ExtraFilesDone, RemoveDirectory, CreateDirectory, UpdateDirectory, FilesDone, Fail, FailFile
  <2>2. p \in FramePc /\ p \notin Reading /\ f.pc # "leave"
    BY <1>6, <2>1 DEF FramePc, Reading, ExtraFilesDone, RemoveDirectory, CreateDirectory, UpdateDirectory,
       FilesDone, Fail, FailFile, at
  <2>3. QED
    BY <2>1, <2>2, <1>1, <1>3, <1>4, GotoFaithful
<1>7. QED
  BY <1>5, <1>6

LEMMA CallFaithful ==
  ASSUME PipelineInv, FaithfulInv, stack # <<>>, f.pc \in Processing, UNCHANGED scanner,
         tree'["src"] = tree["src"],
         NEW g \in Frame, g.pc \in Processing, g.path = f.path, g.dirs = f.dirs, g.index = f.index,
         g.slot = f.slot, g.work.extraDirs \subseteq f.work.extraDirs,
         NEW optional \in SUBSET {"src", "ref"}, NEW M \in SUBSET Match, Distinct(M), M # {},
         \A m \in M : m.in \subseteq optional \union {"dst"},
         \A m \in M : "src" \notin m.in => Append(here, m.name) \notin tree["src"].dirs,
         stack' = Append([stack EXCEPT ![Len(stack)] = g], Call(optional, here, M))
  PROVE  FaithfulInv'
<1> DEFINE k == Call(optional, here, M)
           base == [stack EXCEPT ![Len(stack)] = g]
<1>1. StackInv /\ ScanInv
  BY DEF PipelineInv
<1>2. Len(stack) \in 1 .. Len(stack) /\ stack \in Seq(Frame) /\ Len(stack) \in Nat
  BY <1>1, Innermost DEF StackInv
<1>3. here \in Path /\ here # <<>> /\ here[1] \in Asked
  BY HereIsAsked
<1>4. /\ k.path = here /\ k.dirs = InOrder(M) /\ k.index = 0 /\ k.slot = [i \in {0, 1} |-> EmptySlot]
      /\ k.work = NoWork
  BY DEF Call
<1>5. k \in Frame
  BY <1>3, CallStarts DEF CallOK
<1>6. \A i \in 1 .. Len(k.dirs) : k.dirs[i] \in M
  <2>1. InOrder(M) \in Seq(M)
    BY InOrderType
  <2>2. QED
    BY <2>1, <1>4, ElementOfSeq
<1> HIDE DEF k, base
<1>7. /\ base \in Seq(Frame) /\ Len(base) = Len(stack)
      /\ \A d \in 1 .. Len(stack) : base[d] = IF d = Len(stack) THEN g ELSE stack[d]
  BY <1>2, ExceptSeq DEF base
<1>8. stack' = Append(base, k)
  BY DEF base, k
<1>9. /\ Len(stack') = Len(stack) + 1 /\ stack'[Len(stack) + 1] = k
      /\ \A d \in 1 .. Len(stack) : stack'[d] = base[d]
  BY <1>5, <1>7, <1>8, AppendProperties
<1>10. f' = k
  BY <1>9 DEF f
<1>11. Faithful(g, tree["src"]) /\ ScanTrue(g, tree["src"])
  <2>1. Faithful(f, tree["src"])
    BY <1>1, InnermostFaithful
  <2>2. ScanTrue(f, tree["src"])
    <3>1. scanner["src"].state = "idle"
      BY <1>1, Quiet DEF Free, Scanner
    <3>2. QED
      BY <3>1 DEF FaithfulInv, ScanEnded
  <2>3. g.pc \notin Reading /\ f.pc # "leave"
    BY DEF Processing, Reading
  <2>4. QED
    BY <2>1, <2>2, <2>3, SameDirectory
<1>12. Faithful(k, tree["src"]) /\ ScanTrue(k, tree["src"])
  <2>1. BelowAsked(k, tree["src"])
    BY <1>3, <1>4 DEF BelowAsked, Asked
  <2>2. MatchesTrue(k, tree["src"])
    <3>1. SUFFICES ASSUME NEW i \in 1 .. Len(k.dirs), "src" \notin k.dirs[i].in
                   PROVE  Append(here, k.dirs[i].name) \notin tree["src"].dirs
      BY <1>4 DEF MatchesTrue, Dir
    <3>2. QED
      BY <3>1, <1>6
  <2>3. ReadTrue(k, tree["src"]) /\ ExtraTrue(k, tree["src"])
    BY <1>4 DEF ReadTrue, ExtraTrue
  <2>4. ScanTrue(k, tree["src"])
    <3>1. ScanSlot(k).path = {}
      BY <1>4 DEF ScanSlot, EmptySlot
    <3>2. QED
      BY <3>1 DEF ScanTrue, Truthful
  <2>5. QED
    BY <2>1, <2>2, <2>3, <2>4 DEF Faithful
<1>13. ASSUME NEW d \in 1 .. Len(stack) PROVE Faithful(stack'[d], tree["src"]) /\ ScanTrue(stack'[d], tree["src"])
  <2>1. CASE d = Len(stack)
    BY <2>1, <1>7, <1>9, <1>11
  <2>2. CASE d # Len(stack)
    <3>1. d \in 1 .. Len(stack) - 1
      BY <2>2, <1>2
    <3>2. stack'[d] = stack[d]
      BY <2>2, <1>7, <1>9
    <3>3. QED
      BY <3>1, <3>2 DEF FaithfulInv
  <2>3. QED
    BY <2>1, <2>2
<1>14. \A d \in 1 .. Len(stack') : Faithful(stack'[d], tree'["src"])
  <2>1. \A d \in 1 .. Len(stack') : d \in 1 .. Len(stack) \/ d = Len(stack) + 1
    BY <1>2, <1>9
  <2>2. QED
    BY <2>1, <1>9, <1>12, <1>13
<1>15. \A d \in 1 .. Len(stack') - 1 : ScanTrue(stack'[d], tree'["src"])
  <2>1. \A d \in 1 .. Len(stack') - 1 : d \in 1 .. Len(stack)
    BY <1>2, <1>9
  <2>2. QED
    BY <2>1, <1>13
<1>16. QED
  BY <1>10, <1>12, <1>14, <1>15 DEF FaithfulInv

LEMMA CopyExtraDirectoriesFaithful ==
  ASSUME PipelineInv, FaithfulInv, CopyExtraDirectories
  PROVE  FaithfulInv'
<1>1. StackInv /\ stack # <<>> /\ f.pc = "extraDirs" /\ f \in Frame /\ CallOK(f)
  BY Innermost DEF PipelineInv, CopyExtraDirectories, at
<1>2. f.pc \in Processing /\ f.pc \notin Reading /\ f.pc # "leave"
  BY <1>1 DEF Processing, Reading
<1>3. scanner' = scanner /\ (ScanEnded' <=> ScanEnded) /\ tree'["src"] = tree["src"]
  BY DEF CopyExtraDirectories, UnchangedAround, trees, ScanEnded
<1>4. CASE f.work.extraDirs = {}
  <2>1. Goto("directory") /\ "directory" \in FramePc /\ "directory" \notin Reading
    BY <1>4 DEF CopyExtraDirectories, FramePc, Reading
  <2>2. QED
    BY <2>1, <1>1, <1>2, <1>3, GotoFaithful
<1>5. CASE f.work.extraDirs # {}
  <2> DEFINE g == [f EXCEPT !.pc = "directory", !.work.extraDirs = {}]
  <2>1. /\ g \in Frame /\ g.pc = "directory" /\ g.path = f.path /\ g.dirs = f.dirs
        /\ g.index = f.index /\ g.slot = f.slot /\ g.work.extraDirs = {}
    <3>1. "directory" \in FramePc
      BY DEF FramePc
    <3>2. QED
      BY <3>1, <1>1 DEF Frame
  <2>2. stack' = Append([stack EXCEPT ![Len(stack)] = g], Call({}, here, f.work.extraDirs))
    BY <1>5 DEF CopyExtraDirectories, f
  <2> HIDE DEF g
  <2>3. /\ f.work.extraDirs \in SUBSET Match /\ Distinct(f.work.extraDirs)
        /\ \A m \in f.work.extraDirs : m.in \subseteq {} \union {"dst"}
    BY <1>1, FrameParts DEF CallOK, WorkOK
  <2>4. \A m \in f.work.extraDirs : Append(here, m.name) \notin tree["src"].dirs
    <3>1. f.index \in 1 .. Len(f.dirs) /\ here = Dir(f, f.index)
      BY <1>1, <1>2, ReadIsCurrent, HereIsAsked
    <3>2. Faithful(f, tree["src"])
      BY <1>1, InnermostFaithful
    <3>3. QED
      BY <3>1, <3>2, <1>2 DEF Faithful, ExtraTrue
  <2>5. g.pc \in Processing /\ g.work.extraDirs \subseteq f.work.extraDirs /\ {} \in SUBSET {"src", "ref"}
    BY <2>1 DEF Processing
  <2>6. QED
    BY <2>1, <2>2, <2>3, <2>4, <2>5, <1>1, <1>2, <1>3, <1>5, CallFaithful
<1>6. QED
  BY <1>4, <1>5

LEMMA CopySubdirectoriesFaithful ==
  ASSUME PipelineInv, FaithfulInv, CopySubdirectories
  PROVE  FaithfulInv'
<1>1. StackInv /\ stack # <<>> /\ f.pc = "subdirs" /\ f \in Frame /\ CallOK(f) /\ ReadSlot(f) = read
  BY Innermost DEF PipelineInv, CopySubdirectories, at
<1>2. f.pc \in Processing /\ f.pc \notin Reading /\ f.pc # "leave"
  BY <1>1 DEF Processing, Reading
<1>3. scanner' = scanner /\ (ScanEnded' <=> ScanEnded) /\ tree'["src"] = tree["src"]
  BY DEF CopySubdirectories, UnchangedAround, trees, ScanEnded
<1>4. CASE f.work.copyDirs = {} \/ "src" \notin match.in
  <2>1. Goto("attributes") /\ "attributes" \in FramePc /\ "attributes" \notin Reading
    BY <1>4 DEF CopySubdirectories, FramePc, Reading
  <2>2. QED
    BY <2>1, <1>1, <1>2, <1>3, GotoFaithful
<1>5. CASE ~ (f.work.copyDirs = {} \/ "src" \notin match.in)
  <2> DEFINE g == [f EXCEPT !.pc = "attributes"]
             optional == read.path \intersect {"src", "ref"}
  <2>1. /\ g \in Frame /\ g.pc = "attributes" /\ g.path = f.path /\ g.dirs = f.dirs
        /\ g.index = f.index /\ g.slot = f.slot /\ g.work = f.work
    <3>1. f \in Frame /\ "attributes" \in FramePc
      BY <1>1 DEF FramePc
    <3>2. QED
      BY <3>1 DEF Frame
  <2>2. stack' = Append([stack EXCEPT ![Len(stack)] = g], Call(optional, here, f.work.copyDirs))
    BY <1>5 DEF CopySubdirectories, f
  <2>3. /\ f.work.copyDirs \in SUBSET Match /\ Distinct(f.work.copyDirs) /\ f.work.copyDirs # {}
        /\ \A m \in f.work.copyDirs : "src" \in m.in /\ m.in \subseteq read.path
    BY <1>1, <1>5, FrameParts DEF CallOK, WorkOK
  <2>4. read.path \subseteq {"src", "ref", "dst"}
    BY <1>1, <1>2, ReadIsCurrent DEF Match, Scanner
  <2>5. optional \in SUBSET {"src", "ref"} /\ \A m \in f.work.copyDirs : m.in \subseteq optional \union {"dst"}
    BY <2>3, <2>4
  <2>6. g.pc \in Processing
    BY <2>1 DEF Processing
  <2> HIDE DEF g, optional
  <2>7. QED
    BY <2>1, <2>2, <2>3, <2>5, <2>6, <1>1, <1>2, <1>3, CallFaithful
<1>6. QED
  BY <1>4, <1>5

LEMMA ReturnFaithful ==
  ASSUME PipelineInv, FaithfulInv, Return
  PROVE  FaithfulInv'
<1>1. StackInv /\ DataType /\ stack # <<>> /\ tree'["src"] = tree["src"]
  BY DEF PipelineInv, Return, at, trees
<1> DEFINE rest == SubSeq(stack, 1, Len(stack) - 1)
<1>2. Len(stack) \in Nat /\ Len(stack) > 0 /\ stack \in Seq(Frame)
  BY <1>1, Innermost DEF StackInv
<1>3. /\ rest \in Seq(Frame) /\ Len(rest) = Len(stack) - 1
      /\ \A d \in 1 .. Len(rest) : rest[d] = stack[d]
  <2>1. \A d \in 1 .. Len(stack) - 1 : stack[d] \in Frame
    BY <1>2, ElementOfSeq
  <2> DEFINE n == Len(stack) - 1
  <2>2. n \in Int /\ n >= 0 /\ 1 \in Int /\ n - 1 + 1 = n
    BY <1>2
  <2> HIDE DEF n
  <2>3. \A d \in 1 .. n : stack[d] \in Frame
    BY <2>1 DEF n
  <2>4. /\ SubSeq(stack, 1, n) \in Seq(Frame)
        /\ Len(SubSeq(stack, 1, n)) = IF 1 <= n THEN n - 1 + 1 ELSE 0
        /\ \A d \in 1 .. n - 1 + 1 : SubSeq(stack, 1, n)[d] = stack[1 + d - 1]
    BY <2>2, <2>3, SubSeqProperties
  <2>5. rest = SubSeq(stack, 1, n)
    BY DEF n
  <2>6. Len(rest) = n
    BY <2>2, <2>4, <2>5
  <2>7. \A d \in 1 .. n : rest[d] = stack[d]
    BY <2>2, <2>4, <2>5
  <2>8. QED
    BY <2>4, <2>5, <2>6, <2>7 DEF n
<1> HIDE DEF rest
<1>4. stack' = IF thrown /\ rest # <<>> THEN [rest EXCEPT ![Len(rest)].pc = "leave"] ELSE rest
  BY DEF Return, rest
<1>5. ASSUME NEW d \in 1 .. Len(rest)
      PROVE  rest[d] \in Frame /\ Faithful(rest[d], tree["src"]) /\ ScanTrue(rest[d], tree["src"])
  <2>1. d \in 1 .. Len(stack) - 1 /\ d \in 1 .. Len(stack)
    BY <1>2, <1>3
  <2>2. QED
    BY <2>1, <1>2, <1>3, ElementOfSeq DEF FaithfulInv
<1>6. CASE thrown /\ rest # <<>>
  <2> DEFINE last == [rest[Len(rest)] EXCEPT !.pc = "leave"]
  <2>1. Len(rest) \in 1 .. Len(rest) /\ Len(rest) \in Nat
    BY <1>3, <1>6, EmptySeq
  <2>2. /\ last \in Frame /\ last.pc = "leave" /\ last.path = rest[Len(rest)].path
        /\ last.dirs = rest[Len(rest)].dirs /\ last.index = rest[Len(rest)].index
        /\ last.slot = rest[Len(rest)].slot /\ last.work = rest[Len(rest)].work
    <3> DEFINE g == rest[Len(rest)]
    <3>1. g \in Frame /\ "leave" \in FramePc
      BY <2>1, <1>5 DEF FramePc
    <3>2. last = [g EXCEPT !.pc = "leave"]
      OBVIOUS
    <3> HIDE DEF g, last
    <3>3. /\ last \in Frame /\ last.pc = "leave" /\ last.path = g.path /\ last.dirs = g.dirs
          /\ last.index = g.index /\ last.slot = g.slot /\ last.work = g.work
      BY <3>1, <3>2, GotoFrame
    <3>4. QED
      BY <3>3 DEF g
  <2>3. stack' = [rest EXCEPT ![Len(rest)] = last]
    BY <1>4, <1>6
  <2> HIDE DEF last
  <2>4. Faithful(last, tree["src"]) /\ ScanTrue(last, tree["src"])
    <3> DEFINE g == rest[Len(rest)]
    <3>1. Faithful(g, tree["src"]) /\ ScanTrue(g, tree["src"])
      BY <2>1, <1>5
    <3> HIDE DEF g
    <3>2. QED
      BY <3>1, <2>2, SameDirectory DEF g, Reading
  <2>5. /\ stack' \in Seq(Frame) /\ Len(stack') = Len(rest)
        /\ \A d \in 1 .. Len(rest) : stack'[d] = IF d = Len(rest) THEN last ELSE rest[d]
    BY <2>1, <2>2, <2>3, <1>3, ExceptSeq
  <2>6. \A d \in 1 .. Len(stack') : Faithful(stack'[d], tree'["src"]) /\ ScanTrue(stack'[d], tree'["src"])
    BY <2>4, <2>5, <1>1, <1>5
  <2>7. \A d \in 1 .. Len(stack') - 1 : d \in 1 .. Len(stack')
    BY <2>1, <2>5
  <2>8. f' = stack'[Len(stack')] /\ Len(stack') \in 1 .. Len(stack')
    BY <2>1, <2>5 DEF f
  <2>9. QED
    BY <2>6, <2>7, <2>8 DEF FaithfulInv
<1>7. CASE ~ (thrown /\ rest # <<>>)
  <2>1. stack' = rest
    BY <1>4, <1>7
  <2>2. \A d \in 1 .. Len(rest) - 1 : d \in 1 .. Len(rest)
    BY <1>2, <1>3
  <2>3. rest # <<>> => Len(rest) \in 1 .. Len(rest)
    BY <1>3, EmptySeq
  <2>4. f' = rest[Len(rest)]
    BY <2>1 DEF f
  <2>5. QED
    BY <2>1, <2>2, <2>3, <2>4, <1>1, <1>5 DEF FaithfulInv
<1>8. QED
  BY <1>6, <1>7

LEMMA CompleteFaithful ==
  ASSUME PipelineInv, FaithfulInv, NEW s \in Scanner, Complete(s)
  PROVE  FaithfulInv'
<1>1. StackInv /\ ScanInv /\ RootInv /\ DataType /\ scanner[s].state = "running" /\ tree' = tree
  BY DEF PipelineInv, Complete, trees
<1>2. scanner' = [scanner EXCEPT ![s].state = "lists"] /\ scanner \in [Scanner -> Scan] /\ "src" \in Scanner
  BY <1>1 DEF Complete, DataType, Scanner
<1>3. CASE stack = <<>>
  <2>1. scanner[s].depth = 0
    BY <1>1, <1>3 DEF RootInv
  <2>2. stack' = <<>>
    BY <2>1, <1>3 DEF Complete
  <2>3. QED
    BY <2>2 DEF FaithfulInv
<1>4. CASE stack # <<>>
  <2>1. /\ f \in Frame /\ CallOK(f) /\ ScanIndex \in {0, 1} /\ ReadIndex \in {0, 1} /\ ScanIndex # ReadIndex
        /\ ScanSlot(f) = f.slot[ScanIndex] /\ ReadSlot(f) = f.slot[ReadIndex]
        /\ f.index \in Nat /\ Len(f.dirs) \in Nat /\ f.slot \in [{0, 1} -> Slot]
        /\ Len(stack) \in Nat /\ Len(stack) > 0
    BY <1>1, <1>4, Innermost, FrameParts DEF read
  <2>2. /\ scanner[s].depth = Len(stack) /\ scanner[s].slot = ScanIndex
        /\ scanner[s].path = Append(f.path, f.dirs[f.index + 1].name)
    BY <1>1, <1>4 DEF ScanInv
  <2> DEFINE lists == Here(tree[s], scanner[s].path)
             h == [f EXCEPT !.slot[ScanIndex].lists[s] = lists]
             new == [f.slot[ScanIndex] EXCEPT !.lists[s] = lists]
  <2>3. stack' = [stack EXCEPT ![Len(stack)] = h]
    <3>1. stack' = [stack EXCEPT ![Len(stack)].slot[ScanIndex].lists[s] = lists]
      BY <2>1, <2>2 DEF Complete
    <3>2. stack \in [1 .. Len(stack) -> Frame] /\ Len(stack) \in 1 .. Len(stack)
      BY <1>1, <1>4, Innermost, <2>1
    <3> HIDE DEF lists
    <3>3. QED
      BY <3>1, <3>2 DEF f
  <2>4. lists \in Lists
    BY HereType
  <2>5. /\ new \in Slot /\ new.path = f.slot[ScanIndex].path
        /\ \A t \in Scanner : new.lists[t] = IF t = s THEN lists ELSE f.slot[ScanIndex].lists[t]
    <3>1. f.slot[ScanIndex] \in Slot
      BY <2>1
    <3> HIDE DEF lists
    <3>2. QED
      BY <3>1, <2>4 DEF Slot
  <2>6. h = [f EXCEPT !.slot = [f.slot EXCEPT ![ScanIndex] = new]]
    BY <2>1 DEF Frame
  <2> HIDE DEF new, h, lists
  <2>7. /\ h \in Frame /\ h.path = f.path /\ h.dirs = f.dirs
        /\ h.index = f.index /\ h.pc = f.pc /\ h.work = f.work
        /\ h.slot = [f.slot EXCEPT ![ScanIndex] = new]
    BY <2>1, <2>5, <2>6 DEF Frame
  <2>8. ScanSlot(h) = new /\ ReadSlot(h) = ReadSlot(f) /\ \A i : Dir(h, i) = Dir(f, i)
    BY <2>1, <2>7 DEF ScanSlot, ReadSlot, ScanIndex, ReadIndex, Dir
  <2>9. Faithful(h, tree["src"])
    <3>1. Faithful(f, tree["src"])
      BY <1>1, <1>4, InnermostFaithful
    <3>2. BelowAsked(h, tree["src"])
      BY <3>1, <2>7 DEF Faithful, BelowAsked
    <3>3. MatchesTrue(h, tree["src"])
      BY <3>1, <2>7, <2>8 DEF Faithful, MatchesTrue
    <3>4. ReadTrue(h, tree["src"])
      BY <3>1, <2>7, <2>8 DEF Faithful, ReadTrue
    <3>5. ExtraTrue(h, tree["src"])
      BY <3>1, <2>7, <2>8 DEF Faithful, ExtraTrue
    <3>6. QED
      BY <3>2, <3>3, <3>4, <3>5 DEF Faithful
  <2>10. ScanEnded' => ScanTrue(h, tree["src"])
    <3>1. CASE s = "src"
      <4>1. lists = Here(tree["src"], Dir(f, f.index + 1))
        BY <3>1, <2>2 DEF lists, Dir
      <4>2. new.lists["src"] = lists
        BY <3>1, <2>5
      <4>3. QED
        BY <4>1, <4>2, <2>7, <2>8 DEF ScanTrue, Truthful
    <3>2. CASE s # "src"
      <4>1. scanner'["src"] = scanner["src"]
        BY <3>2, <1>2
      <4>2. ScanEnded' => ScanTrue(f, tree["src"])
        BY <4>1, <1>4 DEF ScanEnded, FaithfulInv
      <4>3. new.lists["src"] = f.slot[ScanIndex].lists["src"]
        BY <3>2, <1>2, <2>5
      <4>4. QED
        BY <4>2, <4>3, <2>1, <2>5, <2>7, <2>8 DEF ScanTrue, Truthful
    <3>3. QED
      BY <3>1, <3>2
  <2>11. QED
    BY <1>1, <1>4, <2>3, <2>7, <2>9, <2>10, TopFaithful
<1>5. QED
  BY <1>3, <1>4

\* The calls stay as they are, and no scan of the source ends.
LEMMA CallsStay ==
  ASSUME FaithfulInv, stack' = stack, tree'["src"] = tree["src"], ScanEnded' => ScanEnded
  PROVE  FaithfulInv'
BY DEF FaithfulInv, f

LEMMA CopyGroupFaithful ==
  ASSUME PipelineInv, FaithfulInv, CopyGroup
  PROVE  FaithfulInv'
<1>1. DataType /\ RootInv /\ AskedInv /\ pc = "waitSrc" /\ Finished("src") /\ tree' = tree
  BY DEF PipelineInv, CopyGroup, trees
<1>2. stack = <<>> /\ ~ Free("src") /\ group \subseteq Names /\ group \subseteq Asked /\ group # {}
      /\ (scanner["src"].state = "lists" => root["src"].dirs = group)
  BY <1>1 DEF RootInv, Waiting, Scanner, DataType, AskedInv
<1>3. CASE scanner["src"].state = "exception"
  <2>1. stack' = <<>>
    BY <1>2, <1>3 DEF CopyGroup
  <2>2. QED
    BY <2>1 DEF FaithfulInv
<1>4. CASE scanner["src"].state # "exception"
  <2>1. root["src"].dirs = group
    <3>1. scanner["src"].state \in {"idle", "running", "lists", "exception"}
      BY <1>1 DEF DataType, Scan, Scanner
    <3>2. QED
      BY <3>1, <1>1, <1>2, <1>4 DEF Finished, Free
  <2> DEFINE asked == Matches(group, root, "dirs")
             k == Call({"src", "ref"}, <<>>, asked)
  <2>2. /\ asked \in SUBSET Match /\ Distinct(asked) /\ asked # {}
        /\ \A m \in asked : m.name \in group /\ m.in \subseteq Scanner
    BY <1>2, MatchesType
  <2>3. \A m \in asked : "src" \in m.in
    <3>1. \A m \in asked : "src" \in m.in <=> m.name \in root["src"].dirs
      BY <1>2, MatchedDirs DEF Scanner
    <3>2. QED
      BY <3>1, <2>1, <2>2
  <2>4. stack' = <<k>>
    BY <1>4, <2>1 DEF CopyGroup
  <2> HIDE DEF asked
  <2>5. k.path = <<>> /\ k.dirs = InOrder(asked) /\ k.index = 0 /\ k.slot = [i \in {0, 1} |-> EmptySlot]
    BY DEF Call
  <2>6. \A i \in 1 .. Len(k.dirs) : k.dirs[i] \in asked
    <3>1. InOrder(asked) \in Seq(asked)
      BY <2>2, InOrderType
    <3>2. QED
      BY <3>1, <2>5, ElementOfSeq
  <2> HIDE DEF k
  <2>7. Faithful(k, tree["src"]) /\ ScanTrue(k, tree["src"])
    <3>1. BelowAsked(k, tree["src"])
      BY <1>2, <2>2, <2>5, <2>6 DEF BelowAsked, Asked
    <3>2. MatchesTrue(k, tree["src"])
      BY <2>3, <2>6 DEF MatchesTrue
    <3>3. ReadTrue(k, tree["src"]) /\ ExtraTrue(k, tree["src"])
      BY <2>5 DEF ReadTrue, ExtraTrue
    <3>4. ScanSlot(k).path = {}
      BY <2>5 DEF ScanSlot, EmptySlot
    <3>5. QED
      BY <3>1, <3>2, <3>3, <3>4 DEF Faithful, ScanTrue, Truthful
  <2>8. Len(stack') = 1 /\ stack'[1] = k /\ f' = k
    BY <2>4 DEF f
  <2>9. QED
    BY <2>7, <2>8, <1>1 DEF FaithfulInv
<1>5. QED
  BY <1>3, <1>4

LEMMA FaithfulStep ==
  ASSUME PipelineInv, FaithfulInv, [Next]_vars
  PROVE  FaithfulInv'
<1>1. CASE CallBackup \/ Backup \/ FailBackup
  <2>1. CASE CopyGroup
    BY <2>1, CopyGroupFaithful
  <2>2. CASE CallBackup \/ OrderRoots \/ NextGroup \/ WaitForRoot("ref", "dst") \/ WaitForRoot("dst", "src")
             \/ NoReference \/ CreateDestination \/ LeaveBackup \/ FailBackup
    <3>1. pc # "copy" /\ stack' = stack
      BY <2>2 DEF CallBackup, OrderRoots, NextGroup, WaitForRoot, Waiting, NoReference, CreateDestination,
         LeaveBackup, FailBackup
    <3>2. stack' = <<>>
      BY <3>1 DEF PipelineInv, RootInv
    <3>3. QED
      BY <3>2 DEF FaithfulInv
  <2>3. QED
    BY <1>1, <2>1, <2>2 DEF Backup
<1>2. CASE Copying \/ Fail \/ FailFile
  <2>1. CASE \E s \in Scanner : OrderScan(s) \/ WaitForScan(s)
    BY <2>1, OrderScanFaithful, WaitForScanFaithful
  <2>2. QED
    BY <1>2, <2>1, TurnFaithful, MergeFaithful, ProcessingFaithful, CopyExtraDirectoriesFaithful,
       CopySubdirectoriesFaithful, SetAttributesFaithful, ReturnFaithful DEF Copying
<1>3. CASE \E s \in Scanner : Scans(s)
  <2>1. PICK s \in Scanner : Complete(s) \/ FailScan(s)
    BY <1>3 DEF Scans
  <2>2. CASE Complete(s)
    BY <2>2, CompleteFaithful
  <2>3. CASE FailScan(s)
    <3>1. stack' = stack /\ tree' = tree /\ scanner' = [scanner EXCEPT ![s].state = "exception"]
      BY <2>3 DEF FailScan, trees
    <3>2. scanner \in [Scanner -> Scan] /\ "src" \in Scanner
      BY DEF PipelineInv, DataType, Scanner
    <3>3. ScanEnded' => ScanEnded
      BY <3>1, <3>2 DEF ScanEnded
    <3>4. QED
      BY <3>1, <3>3, CallsStay
  <2>4. QED
    BY <2>1, <2>2, <2>3
<1>4. CASE UNCHANGED vars
  BY <1>4, CallsStay DEF vars, trees, ScanEnded
<1>5. QED
  BY <1>1, <1>2, <1>3, <1>4 DEF Next

-----------------------------------------------------------------------------
(* The theorem. *)

\* However far a call gets, and for any trees: what it was not asked for stays
\* as it is, and no directory is removed that the source has as well.
THEOREM NothingEverLost == Spec => []NothingLost
<1>1. Init => KeepInv
  <2> SUFFICES ASSUME Init PROVE KeepInv
    OBVIOUS
  <2>1. FaithfulInv
    <3>1. Len(stack) = 0 /\ stack = <<>>
      BY EmptySeq DEF Init
    <3>2. QED
      BY <3>1 DEF FaithfulInv
  <2>2. NothingLost
    BY DEF Init, NothingLost
  <2>3. QED
    BY <2>1, <2>2, Initially DEF KeepInv
<1>2. KeepInv /\ [Next]_vars => KeepInv'
  BY Inductive, FaithfulStep, NothingLostStep DEF KeepInv
<1>3. KeepInv => NothingLost
  BY DEF KeepInv
<1>4. QED
  BY <1>1, <1>2, <1>3, PTL DEF Spec

=============================================================================
