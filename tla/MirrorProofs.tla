---------------------------- MODULE MirrorProofs ----------------------------
(***************************************************************************)
(* What a backup does in the end, for any trees: the destination is the    *)
(* one the call began with, but for what the calls of CopyDirectories have *)
(* dealt with, which is as in the source and has been counted once.  From  *)
(* this follow that no call to the file system meets something that the    *)
(* backup has left behind or not yet done, that a call which ends without  *)
(* an exception leaves a mirror of the source, and that its statistics are *)
(* right.                                                                  *)
(***************************************************************************)
EXTENDS CopyDirectoriesProofs

-----------------------------------------------------------------------------
(* Paths. *)

\* q is p, or is below it.
Under(p, q) == Len(p) <= Len(q) /\ \A i \in 1 .. Len(p) : q[i] = p[i]

WellFormed(t) ==
  /\ t.dirs \intersect t.files = {} /\ <<>> \notin t.files
  /\ \A p \in t.dirs \union t.files : p = <<>> \/ Parent(p) \in t.dirs

\* An entry of a directory is longer by its name.
LEMMA AppendParts ==
  ASSUME NEW p \in Path, NEW n \in Names
  PROVE  /\ Append(p, n) \in Path /\ Len(p) \in Nat /\ Len(Append(p, n)) = Len(p) + 1
         /\ Append(p, n)[Len(p) + 1] = n
         /\ \A i \in 1 .. Len(p) : Append(p, n)[i] = p[i]
BY AppendProperties, LenProperties DEF Path

\* Under is a partial order on paths;
LEMMA UnderSelf ==
  ASSUME NEW p \in Path
  PROVE  Under(p, p)
BY LenProperties DEF Under, Path

LEMMA UnderTransitive ==
  ASSUME NEW p \in Path, NEW q \in Path, NEW r \in Path, Under(p, q), Under(q, r)
  PROVE  Under(p, r)
<1>1. Len(p) \in Nat /\ Len(q) \in Nat /\ Len(r) \in Nat
  BY LenProperties DEF Path
<1>2. QED
  BY <1>1 DEF Under

\* entries are below their directory,
LEMMA UnderAppend ==
  ASSUME NEW p \in Path, NEW n \in Names
  PROVE  Under(p, Append(p, n))
BY AppendParts DEF Under

\* and what is below an entry is below its directory, and longer.
LEMMA UnderParent ==
  ASSUME NEW p \in Path, NEW n \in Names, NEW q \in Path, Under(Append(p, n), q)
  PROVE  Under(p, q) /\ Len(p) < Len(q) /\ p # q /\ q[Len(p) + 1] = n /\ q # <<>>
<1>1. /\ Len(p) \in Nat /\ Len(q) \in Nat /\ Len(Append(p, n)) = Len(p) + 1
      /\ Append(p, n)[Len(p) + 1] = n
      /\ \A i \in 1 .. Len(p) : Append(p, n)[i] = p[i]
  BY AppendParts, LenProperties DEF Path
<1>2. Len(p) < Len(q) /\ q[Len(p) + 1] = n /\ \A i \in 1 .. Len(p) : q[i] = p[i]
  BY <1>1 DEF Under
<1>3. q # <<>>
  BY <1>1, <1>2, EmptySeq
<1>4. QED
  BY <1>1, <1>2, <1>3 DEF Under

\* Two names in a directory have nothing in common.
LEMMA Siblings ==
  ASSUME NEW p \in Path, NEW n \in Names, NEW m \in Names, NEW q \in Path,
         Under(Append(p, n), q), Under(Append(p, m), q)
  PROVE  n = m
BY UnderParent

\* What is below a directory has the same root.
LEMMA UnderFirst ==
  ASSUME NEW p \in Path, p # <<>>, NEW q \in Path, Under(p, q)
  PROVE  q # <<>> /\ q[1] = p[1]
<1>1. Len(p) \in Nat /\ Len(q) \in Nat /\ Len(p) # 0
  BY LenProperties, EmptySeq DEF Path
<1>2. 1 \in 1 .. Len(p) /\ Len(q) # 0
  BY <1>1 DEF Under
<1>3. QED
  BY <1>2, EmptySeq DEF Under

\* Each path but the root has a parent and a name.
LEMMA Split ==
  ASSUME NEW q \in Path, q # <<>>
  PROVE  Parent(q) \in Path /\ q[Len(q)] \in Names /\ q = Append(Parent(q), q[Len(q)])
<1>1. q \in Seq(Names) /\ Len(q) \in Nat /\ Len(q) # 0
  BY LenProperties, EmptySeq DEF Path
<1>2. q[Len(q)] \in Names
  BY <1>1, ElementOfSeq
<1>3. /\ Parent(q) \in Seq(Names) /\ Len(Parent(q)) = Len(q) - 1
      /\ \A i \in 1 .. Len(q) - 1 : Parent(q)[i] = q[i]
  <2> DEFINE k == Len(q) - 1
  <2>1. k \in Nat /\ k < Len(q) /\ \A i \in 1 .. k : q[i] \in Names
    BY <1>1, ElementOfSeq
  <2> HIDE DEF k
  <2>2. /\ SubSeq(q, 1, k) \in Seq(Names) /\ Len(SubSeq(q, 1, k)) = k
        /\ \A i \in 1 .. k : SubSeq(q, 1, k)[i] = q[i]
    BY <2>1, SubSeqProperties
  <2>3. QED
    BY <2>2 DEF k, Parent
<1> DEFINE r == Append(Parent(q), q[Len(q)])
<1>4. r \in Seq(Names) /\ Len(r) = Len(q) /\ \A i \in 1 .. Len(q) : r[i] = q[i]
  BY <1>1, <1>2, <1>3, AppendProperties
<1>5. r = q
  BY <1>1, <1>4, SeqEqual
<1>6. QED
  BY <1>2, <1>3, <1>5 DEF Path

\* Entries of a directory differ in their names.
LEMMA SameEntry ==
  ASSUME NEW p \in Path, NEW n \in Names, NEW q \in Path, NEW m \in Names, Append(p, n) = Append(q, m)
  PROVE  p = q /\ n = m
BY AppendInjective DEF Path

\* What is below p, but not p, is below an entry of p.
LEMMA UnderEntry ==
  ASSUME NEW p \in Path, NEW q \in Path, Under(p, q), p # q
  PROVE  \E n \in Names : Under(Append(p, n), q)
<1>1. p \in Seq(Names) /\ q \in Seq(Names) /\ Len(p) \in Nat /\ Len(q) \in Nat
  BY LenProperties DEF Path
<1>2. Len(p) < Len(q)
  <2>1. ASSUME Len(p) = Len(q) PROVE FALSE
    BY <2>1, <1>1, SeqEqual DEF Under
  <2>2. QED
    BY <2>1, <1>1 DEF Under
<1>3. q[Len(p) + 1] \in Names
  BY <1>1, <1>2, ElementOfSeq
<1> DEFINE n == q[Len(p) + 1]
           r == Append(p, n)
<1>4. Len(r) = Len(p) + 1 /\ r[Len(p) + 1] = n /\ \A i \in 1 .. Len(p) : r[i] = p[i]
  BY <1>3, AppendParts
<1>41. Under(r, q)
  <2> HIDE DEF r
  <2>1. Len(r) <= Len(q)
    BY <1>1, <1>2, <1>4
  <2>2. ASSUME NEW i \in 1 .. Len(r) PROVE q[i] = r[i]
    <3>1. CASE i = Len(p) + 1
      BY <3>1, <1>4
    <3>2. CASE i \in 1 .. Len(p)
      BY <3>2, <1>4 DEF Under
    <3>3. QED
      BY <3>1, <3>2, <1>1, <1>4
  <2>3. QED
    BY <2>1, <2>2 DEF Under
<1>5. QED
  BY <1>3, <1>41

\* What is below an entry is the entry, or is below its directory.
LEMMA UnderOfAppend ==
  ASSUME NEW p \in Path, NEW q \in Path, NEW n \in Names, Under(p, Append(q, n))
  PROVE  p = Append(q, n) \/ Under(p, q)
<1>1. /\ p \in Seq(Names) /\ Len(p) \in Nat /\ Len(q) \in Nat /\ Append(q, n) \in Seq(Names)
      /\ Len(Append(q, n)) = Len(q) + 1
      /\ \A i \in 1 .. Len(q) : Append(q, n)[i] = q[i]
  BY AppendParts, LenProperties DEF Path
<1>2. CASE Len(p) = Len(q) + 1
  BY <1>1, <1>2, SeqEqual DEF Under
<1>3. CASE Len(p) <= Len(q)
  BY <1>1, <1>3 DEF Under
<1>4. QED
  BY <1>1, <1>2, <1>3 DEF Under

\* A tree has all that is above an entry.
LEMMA Ancestors ==
  ASSUME NEW t \in Tree, WellFormed(t), NEW p \in Path, NEW q \in t.dirs \union t.files,
         Under(p, q), p # q
  PROVE  p \in t.dirs
<1>1. /\ t.dirs \in SUBSET Path /\ t.files \in SUBSET Path /\ q \in Path
      /\ q \in Seq(Names) /\ p \in Seq(Names) /\ Len(p) \in Nat /\ Len(q) \in Nat
  <2>1. t.dirs \in SUBSET Path /\ t.files \in SUBSET Path
    BY DEF Tree
  <2>2. QED
    BY <2>1, LenProperties DEF Path
<1>2. Len(p) < Len(q)
  <2>1. PICK n \in Names : Under(Append(p, n), q)
    BY <1>1, UnderEntry
  <2>2. QED
    BY <2>1, <1>1, UnderParent
<1> DEFINE cut(k) == SubSeq(q, 1, k)
           S == {k \in Nat : Len(p) <= k /\ k < Len(q) /\ cut(k) \in t.dirs}
<1>3. \A k \in 0 .. Len(q) : /\ cut(k) \in Seq(Names) /\ Len(cut(k)) = k
                             /\ \A i \in 1 .. k : cut(k)[i] = q[i]
  BY <1>1, SubSeqProperties
<1>4. Len(q) - 1 \in S
  <2>1. q # <<>>
    BY <1>1, <1>2, EmptySeq
  <2>2. Parent(q) \in t.dirs
    BY <2>1 DEF WellFormed
  <2>3. QED
    BY <2>2, <1>1, <1>2 DEF Parent
<1>5. PICK k \in S : \A l \in S : k <= l
  <2>1. S \in SUBSET Nat /\ S # {}
    BY <1>4
  <2> HIDE DEF S
  <2>2. QED
    BY <2>1, Least
<1>6. k \in Nat /\ Len(p) <= k /\ k < Len(q) /\ cut(k) \in t.dirs
  OBVIOUS
<1>7. k = Len(p)
  <2> SUFFICES ASSUME k # Len(p) PROVE FALSE
    OBVIOUS
  <2>1. k - 1 \in Nat /\ k - 1 >= Len(p) /\ k - 1 < Len(q) /\ k \in 0 .. Len(q) /\ k - 1 \in 0 .. Len(q)
    BY <1>1, <1>6
  <2>2. cut(k) # <<>>
    BY <2>1, <1>3, EmptySeq
  <2>3. Parent(cut(k)) \in t.dirs
    BY <2>2, <1>6 DEF WellFormed
  <2>4. Parent(cut(k)) = cut(k - 1)
    <3> DEFINE c == cut(k)
               b == cut(k - 1)
    <3>1. /\ c \in Seq(Names) /\ Len(c) = k /\ \A i \in 1 .. k : c[i] = q[i]
          /\ b \in Seq(Names) /\ Len(b) = k - 1 /\ \A i \in 1 .. k - 1 : b[i] = q[i]
      BY <2>1, <1>3
    <3> HIDE DEF c, b, cut
    <3>2. /\ Parent(c) \in Seq(Names) /\ Len(Parent(c)) = k - 1
          /\ \A i \in 1 .. k - 1 : Parent(c)[i] = c[i]
      BY <3>1, <2>1, SubSeqProperties DEF Parent
    <3>3. Parent(c) = b
      BY <3>1, <3>2, <2>1, SeqEqual
    <3>4. QED
      BY <3>3 DEF c, b
  <2>5. k - 1 \in S
    BY <2>1, <2>3, <2>4
  <2>6. QED
    BY <2>5, <1>5, <1>6
<1>8. cut(k) = p
  <2>1. /\ cut(k) \in Seq(Names) /\ Len(cut(k)) = Len(p) /\ \A i \in 1 .. Len(p) : cut(k)[i] = q[i]
    BY <1>1, <1>3, <1>6, <1>7
  <2> HIDE DEF cut
  <2>2. QED
    BY <2>1, <1>1, SeqEqual DEF Under
<1>9. QED
  BY <1>6, <1>8

-----------------------------------------------------------------------------
(* What has been dealt with. *)

\* The trees as they were when the backup began; only dst changes.
Base == [tree EXCEPT !["dst"] = before]

HereOf(g) == Dir(g, g.index)
Late      == {"files", "subdirs", "attributes"}

ExtraNames(g, base) == Here(base["dst"], HereOf(g)).dirs \ Here(base["src"], HereOf(g)).dirs
SubNames(g, base)   == Here(base["src"], HereOf(g)).dirs

\* The subdirectories that the call g has made a call for ...
Handed(g, base) == IF g.pc = "directory" THEN ExtraNames(g, base) ELSE SubNames(g, base)

\* ... and those for which such a call has returned; a caller waits for one.
Ready(g, role, base) ==
  (IF g.pc \in Late \/ (g.pc = "directory" /\ role = "inner") THEN ExtraNames(g, base) ELSE {})
    \union (IF g.pc = "attributes" /\ role = "inner" THEN SubNames(g, base) ELSE {})

\* A directory with all that is below it.
Closes(g, role, base, p) ==
  \/ \E j \in 1 .. Len(g.dirs) : j < g.index /\ Under(Dir(g, j), p)
  \/ \E n \in Ready(g, role, base) : Under(Append(HereOf(g), n), p)

ClosesDir(g, role, base, p) ==
  Closes(g, role, base, p) \/ (g.pc \in Late /\ p = HereOf(g))

\* A file of the current directory.
Synced(g, base, n) ==
  LET p == Append(HereOf(g), n) IN
  /\ p \in base["src"].files => g.pc \in Late /\ \A m \in g.work.copyFiles : m.name # n
  /\ p \notin base["src"].files => n \notin g.work.extraFiles

Syncs(g, base, p) ==
  g.pc \in Processing /\ \E n \in Names : p = Append(HereOf(g), n) /\ Synced(g, base, n)

ClosesFile(g, role, base, p) ==
  Closes(g, role, base, Parent(p)) \/ Syncs(g, base, p)

\* The groups that are being copied or will be.
Pending == (UNION todo) \union (IF pc \in {"copy", "waitSrc", "waitRef", "waitDst"} THEN group ELSE {})

Region    == {p \in Path : p # <<>> /\ p[1] \in Asked}
AllDirs   == {p \in Region : p \in before.dirs \union tree["src"].dirs}
AllFiles  == {p \in Region : p \in before.files \union tree["src"].files}

\* What some call has dealt with; all but the innermost one are in a call.
ClosedIn(p) ==
  /\ stack # <<>>
  /\ \/ Closes(f, "inner", Base, p)
     \/ \E d \in 1 .. Len(stack) - 1 : Closes(stack[d], "caller", Base, p)
DirDone(p) ==
  /\ stack # <<>>
  /\ \/ ClosesDir(f, "inner", Base, p)
     \/ \E d \in 1 .. Len(stack) - 1 : ClosesDir(stack[d], "caller", Base, p)
FileDone(p) ==
  /\ stack # <<>>
  /\ \/ ClosesFile(f, "inner", Base, p)
     \/ \E d \in 1 .. Len(stack) - 1 : ClosesFile(stack[d], "caller", Base, p)

ClosedDirs == {p \in AllDirs : p[1] \in Pending => ClosedIn(p)}
DoneDirs   == {p \in AllDirs : p[1] \in Pending => DirDone(p)}
DoneFiles  == {p \in AllFiles : p[1] \in Pending => FileDone(p)}

\* The destination is the old one, but for what has been dealt with, which is
\* as in the source.
Progress ==
  /\ dryRun => dst = before
  /\ ~dryRun =>
       /\ \A p \in Region :
            /\ p \in dst.dirs <=> IF p \in DoneDirs THEN p \in tree["src"].dirs ELSE p \in before.dirs
            /\ p \in dst.files <=> IF p \in DoneFiles THEN p \in tree["src"].files ELSE p \in before.files
       /\ ClosedDirs \intersect tree["src"].dirs \subseteq fresh
       /\ DoneFiles \intersect tree["src"].files \subseteq fresh
       /\ pc \in {"waitSrc", "copy"} => <<>> \in dst.dirs
       /\ pc = "group" /\ group # {} => <<>> \in dst.dirs

Counts(done, old, new) == [added   |-> Cardinality(done \ old),
                           kept    |-> Cardinality(done \intersect old \intersect new),
                           removed |-> Cardinality(done \ new)]

\* It has been counted once.
Tally ==
  /\ IsFiniteSet(DoneDirs) /\ IsFiniteSet(DoneFiles)
  /\ count = [dirs  |-> Counts(DoneDirs, before.dirs, tree["src"].dirs),
              files |-> Counts(DoneFiles, before.files, tree["src"].files)]

-----------------------------------------------------------------------------
(* What the calls know. *)

\* The trees that have the directories of a call.
Known(g, base) ==
  /\ \A i, j \in 1 .. Len(g.dirs) : g.dirs[i].name = g.dirs[j].name => i = j
  /\ \A i \in 1 .. Len(g.dirs) :
       /\ g.dirs[i].in \intersect {"src", "dst"} # {}
       /\ \A s \in g.dirs[i].in : Dir(g, i) \in base[s].dirs
       /\ \A s \in {"src", "dst"} : Dir(g, i) \in base[s].dirs => s \in g.dirs[i].in

\* The lists of S are those of the directory p.
ListsTrue(slot, p, base, S) == \A s \in slot.path \intersect S : slot.lists[s] = Here(base[s], p)

ReadKnown(g, base) ==
  g.pc \in Reading /\ g.index \in 1 .. Len(g.dirs) => ListsTrue(ReadSlot(g), HereOf(g), base, Scanner)

ScanKnown(g, base, S) ==
  g.pc # "leave" /\ g.index < Len(g.dirs) => ListsTrue(ScanSlot(g), Dir(g, g.index + 1), base, S)

\* What is left to do of what ThreeWayMerge has found.
FilesKnown(g, base, old, new) ==
  /\ g.work.extraFiles \subseteq old.files \ new.files
  /\ g.pc \in {"waitSrc", "waitRef", "waitDst"} => old.files \ new.files \subseteq g.work.extraFiles
  /\ g.pc \in Processing \ {"extraFiles"} => g.work.extraFiles = {}
  /\ \A m \in g.work.copyFiles : m.name \in new.files /\ ("dst" \in m.in <=> m.name \in old.files)
  /\ g.pc \notin Late => \A n \in new.files : \E m \in g.work.copyFiles : m.name = n
  /\ g.pc \in {"subdirs", "attributes"} => g.work.copyFiles = {}
  /\ Distinct(g.work.copyFiles)

DirsKnown(g, base, old, new) ==
  /\ \A m \in g.work.extraDirs : m.in = {"dst"} /\ m.name \in old.dirs \ new.dirs
  /\ g.pc \notin Late \union {"directory"} =>
       \A n \in old.dirs \ new.dirs : \E m \in g.work.extraDirs : m.name = n
  /\ \A m \in g.work.copyDirs :
       /\ m.name \in new.dirs /\ (m.name \in old.dirs => "dst" \in m.in)
       /\ \A s \in m.in : Append(HereOf(g), m.name) \in base[s].dirs
  /\ \A n \in new.dirs : \E m \in g.work.copyDirs : m.name = n

WorkKnown(g, base) ==
  g.pc \notin Reading \union {"leave"} /\ g.index \in 1 .. Len(g.dirs) =>
    /\ FilesKnown(g, base, Here(base["dst"], HereOf(g)), Here(base["src"], HereOf(g)))
    /\ DirsKnown(g, base, Here(base["dst"], HereOf(g)), Here(base["src"], HereOf(g)))

CallKnows(g, base) == Known(g, base) /\ ReadKnown(g, base) /\ WorkKnown(g, base)

\* The scans that have come to an end.
Ended == {s \in Scanner : scanner[s].state \in {"idle", "lists"}}

KnowsInv ==
  /\ \A d \in 1 .. Len(stack) : CallKnows(stack[d], Base)
  /\ \A d \in 1 .. Len(stack) - 1 : ScanKnown(stack[d], Base, Scanner)
  /\ stack # <<>> => /\ ScanKnown(f, Base, Ended)
                     /\ f.pc = "leave" => f.index = Len(f.dirs) + 1

-----------------------------------------------------------------------------
(* Which call is for what. *)

For(g, names) == /\ \A i \in 1 .. Len(g.dirs) : g.dirs[i].name \in names
                 /\ \A n \in names : \E i \in 1 .. Len(g.dirs) : g.dirs[i].name = n

\* Everything the call h is for is below what the call g has handed on.
Within(g, h, base) ==
  \A i \in 1 .. Len(h.dirs) : \E n \in Handed(g, base) : Under(Append(HereOf(g), n), Dir(h, i))

LinkInv ==
  /\ stack # <<>> => stack[1].path = <<>> /\ For(stack[1], group)
  /\ \A d \in 1 .. Len(stack) - 1 : /\ stack[d + 1].path = HereOf(stack[d])
                                    /\ For(stack[d + 1], Handed(stack[d], Base))
  /\ \A d, e \in 1 .. Len(stack) : d < e => Within(stack[d], stack[e], Base)

\* The roots of ref and dst are scanned once, before anything changes.
First(s) == pc = "waitRef" \/ (pc = "group" /\ group = {}) \/ (pc = "waitDst" /\ s = "dst")

RootTrue(s) ==
  LET names == Here(Base[s], <<>>) IN
  /\ root[s].dirs \subseteq names.dirs
  /\ s = "dst" => /\ root[s].dirs = names.dirs \intersect Asked
                  /\ root[s].files = names.files \intersect Asked

RootsKnown ==
  \A s \in {"ref", "dst"} :
    /\ First(s) /\ Free(s) => ~Exists(s)
    /\ First(s) /\ scanner[s].state \in {"idle", "lists"} => RootTrue(s)
    /\ ~First(s) /\ (pc \in {"waitDst", "waitSrc", "copy"} \/ (pc = "group" /\ group # {})) =>
         RootTrue(s) /\ (s = "dst" => root[s].files = {})

-----------------------------------------------------------------------------
(* The inductive invariant. *)

TodoInv ==
  /\ pc # "idle" => group \subseteq Asked /\ (UNION todo) \subseteq Asked
  /\ \A g, h \in todo : g = h \/ g \intersect h = {}
  /\ pc \in {"copy", "waitSrc", "waitRef", "waitDst"} => group \intersect (UNION todo) = {}
  /\ pc \in {"roots", "waitRef", "waitDst"} \/ (pc = "group" /\ group = {}) => Pending = Asked
  /\ pc = "leave" /\ ~thrown => todo = {}

SoundInv ==
  /\ WellFormed(dst)
  /\ pc # "idle" => WellFormed(before)
  /\ pc = "idle" => count = Zero /\ ~thrown
  /\ \A s \in Scanner : scanner[s].state = "running" => scanner[s].path \in tree[s].dirs
  /\ thrown => IF stack = <<>> THEN pc = "leave" ELSE f.pc = "leave"

ProgressInv == KnowsInv /\ LinkInv /\ RootsKnown /\ Progress /\ Tally

MirrorInv == PipelineInv /\ SoundInv /\ TodoInv /\ (pc # "idle" /\ ~thrown => ProgressInv)

-----------------------------------------------------------------------------
(* What is done in a directory is done by the innermost call alone. *)

\* The directories of a call are paths.
LEMMA DirType ==
  ASSUME NEW g \in Frame, NEW i \in 1 .. Len(g.dirs)
  PROVE  /\ g.path \in Path /\ g.dirs[i].name \in Names /\ Dir(g, i) \in Path
         /\ Dir(g, i) = Append(g.path, g.dirs[i].name)
<1>1. g.path \in Path /\ g.dirs[i].name \in Names
  BY FrameParts DEF Match
<1>2. QED
  BY <1>1, AppendParts DEF Dir

\* What the backup began with are trees.
LEMMA BaseType ==
  ASSUME DataType
  PROVE  /\ Base["dst"] = before /\ Base["src"] = tree["src"] /\ Base["ref"] = tree["ref"]
         /\ Base \in [Scanner -> Tree] /\ "src" \in Scanner /\ "ref" \in Scanner /\ "dst" \in Scanner
BY DEF Base, DataType, Scanner

\* Nothing has been handed on before the directory is dealt with.
LEMMA ReadyNames ==
  ASSUME NEW g, NEW role, NEW base
  PROVE  /\ Ready(g, role, base) \subseteq Names /\ Handed(g, base) \subseteq Names
         /\ g.pc \notin Late \union {"directory"} => Ready(g, role, base) = {}
BY DEF Ready, Handed, ExtraNames, SubNames, Here, Late

\* What is below a directory that comes later is not touched.
LEMMA OwnLater ==
  ASSUME NEW g, CallOK(g), NEW base, NEW role, Known(g, base),
         NEW j \in 1 .. Len(g.dirs), j > g.index, NEW q \in Path, Under(Dir(g, j), q)
  PROVE  ~Closes(g, role, base, q) /\ ~ClosesDir(g, role, base, q) /\ ~Syncs(g, base, q)
<1>1. g \in Frame /\ IndexOK(g) /\ g.index \in Nat
  BY FrameParts DEF CallOK
<1>2. \A i, k \in 1 .. Len(g.dirs) : g.dirs[i].name = g.dirs[k].name => i = k
  BY DEF Known
<1>3. ASSUME NEW i \in 1 .. Len(g.dirs), Under(Dir(g, i), q) PROVE i = j
  <2>1. g.dirs[i].name = g.dirs[j].name
    BY <1>1, <1>3, DirType, Siblings
  <2>2. QED
    BY <2>1, <1>2
<1>4. g.pc \in Late \union {"directory"} \union Processing => g.index \in 1 .. Len(g.dirs)
  BY <1>1 DEF IndexOK, Late, Processing
<1>5. ASSUME g.index \in 1 .. Len(g.dirs) PROVE ~Under(HereOf(g), q)
  BY <1>1, <1>3, <1>5 DEF HereOf
<1>6. ASSUME g.index \in 1 .. Len(g.dirs), NEW n \in Names PROVE ~Under(Append(HereOf(g), n), q)
  BY <1>1, <1>5, <1>6, DirType, UnderParent DEF HereOf
<1>7. ~Closes(g, role, base, q)
  <2>1. ASSUME NEW n \in Ready(g, role, base) PROVE ~Under(Append(HereOf(g), n), q)
    BY <1>4, <1>6, ReadyNames
  <2>2. ASSUME NEW i \in 1 .. Len(g.dirs), i < g.index PROVE ~Under(Dir(g, i), q)
    BY <1>1, <1>3, <2>2
  <2>3. QED
    BY <2>1, <2>2 DEF Closes
<1>8. ~(g.pc \in Late /\ q = HereOf(g))
  <2>1. ASSUME g.pc \in Late PROVE q # HereOf(g)
    <3>1. g.index \in 1 .. Len(g.dirs)
      BY <1>4, <2>1
    <3>2. HereOf(g) \in Path /\ Under(HereOf(g), HereOf(g))
      BY <3>1, <1>1, DirType, UnderSelf DEF HereOf
    <3>3. QED
      BY <3>1, <3>2, <1>5
  <2>2. QED
    BY <2>1
<1>9. ~Syncs(g, base, q)
  <2>1. ASSUME g.pc \in Processing, NEW n \in Names PROVE q # Append(HereOf(g), n)
    <3>1. g.index \in 1 .. Len(g.dirs) /\ HereOf(g) \in Path
      BY <1>1, <1>4, <2>1, DirType DEF HereOf
    <3>2. Under(HereOf(g), Append(HereOf(g), n))
      BY <3>1, UnderAppend
    <3>3. QED
      BY <3>1, <3>2, <1>5
  <2>2. QED
    BY <2>1 DEF Syncs
<1>10. QED
  BY <1>7, <1>8, <1>9 DEF ClosesDir

\* In the current directory only what has been returned is closed.
LEMMA OwnCurrent ==
  ASSUME NEW g, CallOK(g), NEW base, NEW role, Known(g, base),
         g.index \in 1 .. Len(g.dirs), NEW q \in Path, Under(HereOf(g), q)
  PROVE  /\ Closes(g, role, base, q) <=> \E n \in Ready(g, role, base) : Under(Append(HereOf(g), n), q)
         /\ ~Closes(g, role, base, HereOf(g))
         /\ \A n \in Names : Closes(g, role, base, Append(HereOf(g), n)) <=> n \in Ready(g, role, base)
<1>1. g \in Frame /\ g.index \in Nat
  BY FrameParts DEF CallOK
<1>2. HereOf(g) \in Path /\ HereOf(g) = Dir(g, g.index) /\ HereOf(g) = Append(g.path, g.dirs[g.index].name)
  BY <1>1, DirType DEF HereOf
<1>3. ASSUME NEW p \in Path, Under(HereOf(g), p), NEW i \in 1 .. Len(g.dirs), i < g.index PROVE ~Under(Dir(g, i), p)
  <2>1. ASSUME Under(Dir(g, i), p) PROVE FALSE
    <3>1. g.dirs[i].name = g.dirs[g.index].name
      <4>1. /\ g.path \in Path /\ g.dirs[i].name \in Names /\ g.dirs[g.index].name \in Names
            /\ Dir(g, i) = Append(g.path, g.dirs[i].name)
        BY <1>1, DirType
      <4>2. Under(Append(g.path, g.dirs[i].name), p) /\ Under(Append(g.path, g.dirs[g.index].name), p)
        BY <4>1, <1>2, <1>3, <2>1
      <4>3. QED
        BY <4>1, <4>2, Siblings
    <3>2. \A k \in 1 .. Len(g.dirs) : g.dirs[k].name = g.dirs[g.index].name => k = g.index
      BY DEF Known
    <3>3. QED
      BY <3>1, <3>2, <1>1, <1>3
  <2>2. QED
    BY <2>1
<1>4. ASSUME NEW p \in Path, Under(HereOf(g), p)
      PROVE  Closes(g, role, base, p) <=> \E n \in Ready(g, role, base) : Under(Append(HereOf(g), n), p)
  BY <1>3, <1>4 DEF Closes
<1>5. ~Closes(g, role, base, HereOf(g))
  <2>1. Under(HereOf(g), HereOf(g))
    BY <1>2, UnderSelf
  <2>2. \A n \in Ready(g, role, base) : ~Under(Append(HereOf(g), n), HereOf(g))
    BY <1>2, ReadyNames, UnderParent
  <2>3. QED
    BY <2>1, <2>2, <1>2, <1>4
<1>6. ASSUME NEW n \in Names PROVE Closes(g, role, base, Append(HereOf(g), n)) <=> n \in Ready(g, role, base)
  <2> DEFINE p == Append(HereOf(g), n)
  <2>1. p \in Path /\ Under(HereOf(g), p) /\ Under(p, p)
    BY <1>2, AppendParts, UnderAppend, UnderSelf
  <2>2. \A m \in Ready(g, role, base) : Under(Append(HereOf(g), m), p) => m = n
    BY <2>1, <1>2, ReadyNames, Siblings
  <2>3. QED
    BY <2>1, <2>2, <1>4
<1>7. QED
  BY <1>4, <1>5, <1>6

\* A call does nothing below what it has handed on.
LEMMA OuterCall ==
  ASSUME NEW g, CallOK(g), NEW base, Known(g, base), g.pc \in Calling,
         NEW n \in Handed(g, base), NEW q \in Path, Under(Append(HereOf(g), n), q)
  PROVE  /\ ~Closes(g, "caller", base, q) /\ ~ClosesDir(g, "caller", base, q)
         /\ q # Append(HereOf(g), n) => ~Syncs(g, base, q)
<1>1. g \in Frame /\ g.index \in 1 .. Len(g.dirs)
  BY DEF CallOK, IndexOK, Calling, Processing
<1>2. HereOf(g) \in Path /\ n \in Names
  BY <1>1, DirType, ReadyNames DEF HereOf
<1>3. Under(HereOf(g), q) /\ HereOf(g) # q /\ Len(q) > Len(HereOf(g))
  BY <1>2, UnderParent
<1>4. ASSUME NEW m \in Ready(g, "caller", base) PROVE ~Under(Append(HereOf(g), m), q)
  <2>1. ASSUME Under(Append(HereOf(g), m), q) PROVE FALSE
    <3>1. m = n
      BY <2>1, <1>2, ReadyNames, Siblings
    <3>2. QED
      BY <3>1 DEF Ready, Handed, ExtraNames, SubNames, Calling, Late
  <2>2. QED
    BY <2>1
<1>5. ~Closes(g, "caller", base, q)
  BY <1>1, <1>3, <1>4, OwnCurrent
<1>6. ~ClosesDir(g, "caller", base, q)
  BY <1>3, <1>5 DEF ClosesDir
<1>7. ASSUME q # Append(HereOf(g), n), Syncs(g, base, q) PROVE FALSE
  <2>1. PICK m \in Names : q = Append(HereOf(g), m)
    BY <1>7 DEF Syncs
  <2>2. Under(Append(HereOf(g), m), q)
    BY <2>1, <1>2, AppendParts, UnderSelf
  <2>3. m = n
    BY <2>2, <1>2, Siblings
  <2>4. QED
    BY <2>1, <2>3, <1>7
<1>8. QED
  BY <1>5, <1>6, <1>7

\* Two paths that are below each other are the same.
LEMMA UnderBoth ==
  ASSUME NEW p \in Path, NEW q \in Path, Under(p, q), Under(q, p)
  PROVE  p = q
BY LenProperties, SeqEqual DEF Under, Path

\* What is below a directory, and not the directory, has its parent below it.
LEMMA UpToParent ==
  ASSUME NEW p \in Path, NEW q \in Path, Under(p, q), p # q, q # <<>>
  PROVE  Parent(q) \in Path /\ Under(p, Parent(q))
<1> DEFINE r == Parent(q)
           n == q[Len(q)]
<1>1. r \in Path /\ n \in Names /\ q = Append(r, n)
  BY Split
<1> HIDE DEF r, n
<1>2. p = q \/ Under(p, r)
  BY <1>1, UnderOfAppend
<1>3. QED
  BY <1>1, <1>2 DEF r

\* The frames of the stack, and the innermost one.
LEMMA Levels ==
  ASSUME StackInv, stack # <<>>
  PROVE  /\ Len(stack) \in Nat /\ Len(stack) \in 1 .. Len(stack) /\ f = stack[Len(stack)]
         /\ \A d \in 1 .. Len(stack) : CallOK(stack[d]) /\ stack[d] \in Frame
         /\ \A d \in 1 .. Len(stack) : d # Len(stack) => d \in 1 .. Len(stack) - 1
         /\ \A d \in 1 .. Len(stack) - 1 : /\ d \in 1 .. Len(stack) /\ d + 1 \in 1 .. Len(stack) /\ d < Len(stack)
                                           /\ stack[d].pc \in Calling
<1>1. Len(stack) \in Nat /\ Len(stack) > 0
  BY Innermost
<1>2. QED
  BY <1>1 DEF StackInv, f, CallOK

\* A call that waits for another is in one of its directories.
LEMMA CallingIndex ==
  ASSUME NEW g, CallOK(g), g.pc \in Calling \union Processing
  PROVE  g.index \in 1 .. Len(g.dirs) /\ HereOf(g) \in Path /\ g.dirs[g.index].name \in Names
         /\ HereOf(g) = Append(g.path, g.dirs[g.index].name) /\ g.path \in Path /\ g \in Frame
<1>1. g \in Frame /\ g.index \in 1 .. Len(g.dirs)
  BY DEF CallOK, IndexOK, Calling, Processing
<1>2. QED
  BY <1>1, DirType DEF HereOf

\* A call is for something below the group that is being copied.
LEMMA InGroup ==
  ASSUME StackInv, LinkInv, TodoInv, stack # <<>>, pc = "copy", NEW j \in 1 .. Len(f.dirs),
         NEW q \in Path, Under(Dir(f, j), q)
  PROVE  q \in Region /\ q[1] \in group /\ q[1] \in Pending
<1>1. CallOK(f) /\ f \in Frame
  BY Innermost
<1>2. /\ Dir(f, j) \in Path /\ f.path \in Path /\ f.dirs[j].name \in Names
      /\ Dir(f, j) = Append(f.path, f.dirs[j].name)
  BY <1>1, DirType
<1>3. Dir(f, j) # <<>> /\ Dir(f, j)[1] \in group
  <2>1. CASE Len(stack) = 1
    <3>1. f.path = <<>> /\ f.dirs[j].name \in group
      BY <2>1 DEF LinkInv, For, f
    <3>2. Append(f.path, f.dirs[j].name) # <<>>
          /\ Append(f.path, f.dirs[j].name)[1] = IF f.path = <<>> THEN f.dirs[j].name ELSE f.path[1]
      BY <1>2, FirstOfAppend
    <3>3. QED
      BY <3>1, <3>2, <1>2
  <2>2. CASE Len(stack) # 1
    <3> DEFINE g == stack[1]
    <3>1. /\ 1 \in 1 .. Len(stack) - 1 /\ 1 \in 1 .. Len(stack) /\ 1 < Len(stack)
          /\ Len(stack) \in 1 .. Len(stack)
      <4>1. Len(stack) \in 1 .. Len(stack) /\ Len(stack) \in Nat
        BY Levels
      <4> DEFINE n == Len(stack)
      <4>2. n \in Nat /\ n # 1 /\ n \in 1 .. n
        BY <4>1, <2>2
      <4> HIDE DEF n
      <4>3. 1 \in 1 .. n - 1 /\ 1 \in 1 .. n /\ 1 < n
        BY <4>2
      <4>4. QED
        BY <4>2, <4>3 DEF n
    <3>2. CallOK(g) /\ g.pc \in Calling
      BY <3>1, Levels
    <3>3. Within(g, f, Base)
      BY <3>1 DEF LinkInv, f
    <3>4. g.path = <<>> /\ \A i \in 1 .. Len(g.dirs) : g.dirs[i].name \in group
      BY DEF LinkInv, For
    <3> HIDE DEF g
    <3>5. /\ g.index \in 1 .. Len(g.dirs) /\ HereOf(g) \in Path /\ g.dirs[g.index].name \in Names
          /\ HereOf(g) = Append(g.path, g.dirs[g.index].name) /\ g.path \in Path
      BY <3>2, CallingIndex
    <3>6. HereOf(g) # <<>> /\ HereOf(g)[1] \in group
      BY <3>4, <3>5, FirstOfAppend
    <3>7. PICK n \in Handed(g, Base) : Under(Append(HereOf(g), n), Dir(f, j))
      BY <3>3 DEF Within
    <3>8. n \in Names
      BY ReadyNames
    <3>9. Under(HereOf(g), Dir(f, j))
      BY <3>5, <3>7, <3>8, <1>2, UnderParent
    <3>10. QED
      BY <3>5, <3>6, <3>9, <1>2, UnderFirst
  <2>3. QED
    BY <2>1, <2>2
<1>4. q # <<>> /\ q[1] \in group
  BY <1>2, <1>3, UnderFirst
<1>5. q[1] \in Asked
  BY <1>4 DEF TodoInv
<1>6. group \subseteq Pending
  BY DEF Pending
<1>7. QED
  BY <1>4, <1>5, <1>6 DEF Region

\* In its own directories only the innermost call deals with anything.
LEMMA InnerRegion ==
  ASSUME StackInv, KnowsInv, LinkInv, TodoInv, stack # <<>>, pc = "copy",
         NEW j \in 1 .. Len(f.dirs), NEW q \in Path, Under(Dir(f, j), q)
  PROVE  /\ q \in DoneDirs <=> q \in AllDirs /\ ClosesDir(f, "inner", Base, q)
         /\ q \in ClosedDirs <=> q \in AllDirs /\ Closes(f, "inner", Base, q)
         /\ q # Dir(f, j) => (q \in DoneFiles <=> q \in AllFiles /\ ClosesFile(f, "inner", Base, q))
         /\ q # Dir(f, j) => Under(Dir(f, j), Parent(q)) /\ Parent(q) \in Path
<1>1. CallOK(f) /\ f \in Frame /\ Dir(f, j) \in Path
  BY Innermost, DirType
<1>2. q[1] \in Pending
  BY InGroup
<1>3. ASSUME NEW d \in 1 .. Len(stack) - 1
      PROVE  /\ ~Closes(stack[d], "caller", Base, q) /\ ~ClosesDir(stack[d], "caller", Base, q)
             /\ q # Dir(f, j) => ~ClosesFile(stack[d], "caller", Base, q)
  <2> DEFINE g == stack[d]
  <2>1. d < Len(stack) /\ d \in 1 .. Len(stack) - 1 /\ d \in 1 .. Len(stack) /\ CallOK(g) /\ g.pc \in Calling
        /\ Len(stack) \in 1 .. Len(stack)
    BY Levels
  <2>2. Within(g, f, Base) /\ Known(g, Base)
    BY <2>1 DEF LinkInv, KnowsInv, CallKnows, f
  <2> HIDE DEF g
  <2>3. PICK n \in Handed(g, Base) : Under(Append(HereOf(g), n), Dir(f, j))
    BY <2>2 DEF Within
  <2>4. HereOf(g) \in Path /\ n \in Names /\ Append(HereOf(g), n) \in Path
    BY <2>1, CallingIndex, ReadyNames, AppendParts
  <2>5. Under(Append(HereOf(g), n), q)
    BY <2>3, <2>4, <1>1, UnderTransitive
  <2>6. ~Closes(g, "caller", Base, q) /\ ~ClosesDir(g, "caller", Base, q)
    BY <2>1, <2>2, <2>5, OuterCall
  <2>7. ASSUME q # Dir(f, j) PROVE ~ClosesFile(g, "caller", Base, q)
    <3>1. Parent(q) \in Path /\ Under(Dir(f, j), Parent(q))
      BY <2>7, <1>1, InGroup, UpToParent DEF Region
    <3>2. Under(Append(HereOf(g), n), Parent(q))
      BY <3>1, <2>3, <2>4, <1>1, UnderTransitive
    <3>3. ~Closes(g, "caller", Base, Parent(q))
      BY <3>1, <3>2, <2>1, <2>2, OuterCall
    <3>4. q # Append(HereOf(g), n)
      BY <2>7, <2>3, <2>4, <1>1, UnderBoth
    <3>5. ~Syncs(g, Base, q)
      BY <3>4, <2>1, <2>2, <2>5, OuterCall
    <3>6. QED
      BY <3>3, <3>5 DEF ClosesFile
  <2>8. QED
    BY <2>6, <2>7 DEF g
<1>4. /\ DirDone(q) <=> ClosesDir(f, "inner", Base, q)
      /\ ClosedIn(q) <=> Closes(f, "inner", Base, q)
      /\ q # Dir(f, j) => (FileDone(q) <=> ClosesFile(f, "inner", Base, q))
  BY <1>3 DEF DirDone, ClosedIn, FileDone
<1>5. q # Dir(f, j) => Under(Dir(f, j), Parent(q)) /\ Parent(q) \in Path
  BY <1>1, InGroup, UpToParent DEF Region
<1>6. QED
  BY <1>2, <1>4, <1>5 DEF DoneDirs, ClosedDirs, DoneFiles

\* Directories that come later, and what is below them.
LEMMA LaterUntouched ==
  ASSUME StackInv, KnowsInv, LinkInv, TodoInv, stack # <<>>, pc = "copy",
         NEW j \in 1 .. Len(f.dirs), j > f.index, NEW q \in Path, Under(Dir(f, j), q)
  PROVE  /\ q \notin DoneDirs /\ q \notin ClosedDirs /\ q \in Region
         /\ q # Dir(f, j) => q \notin DoneFiles
<1>1. CallOK(f) /\ Known(f, Base)
  BY Innermost, Levels DEF KnowsInv, CallKnows
<1>2. ~Closes(f, "inner", Base, q) /\ ~ClosesDir(f, "inner", Base, q) /\ ~Syncs(f, Base, q)
  BY <1>1, OwnLater
<1>3. q \notin DoneDirs /\ q \notin ClosedDirs /\ q \in Region
  BY <1>2, InnerRegion, InGroup
<1>4. ASSUME q # Dir(f, j) PROVE q \notin DoneFiles
  <2>1. Under(Dir(f, j), Parent(q)) /\ Parent(q) \in Path
    BY <1>4, InnerRegion
  <2>2. ~Closes(f, "inner", Base, Parent(q))
    BY <2>1, <1>1, OwnLater
  <2>3. QED
    BY <2>2, <1>2, <1>4, InnerRegion DEF ClosesFile
<1>5. QED
  BY <1>3, <1>4

\* The current directory and its entries.
LEMMA HereStatus ==
  ASSUME StackInv, KnowsInv, LinkInv, TodoInv, stack # <<>>, pc = "copy", f.index \in 1 .. Len(f.dirs)
  PROVE  /\ HereOf(f) \in Region /\ HereOf(f) \notin ClosedDirs
         /\ HereOf(f) \in DoneDirs <=> HereOf(f) \in AllDirs /\ f.pc \in Late
         /\ \A n \in Names :
              LET p == Append(HereOf(f), n) IN
              /\ p \in Region
              /\ p \in DoneDirs <=> p \in AllDirs /\ n \in Ready(f, "inner", Base)
              /\ p \in ClosedDirs <=> p \in AllDirs /\ n \in Ready(f, "inner", Base)
              /\ p \in DoneFiles <=> p \in AllFiles /\ Syncs(f, Base, p)
<1>1. CallOK(f) /\ Known(f, Base) /\ f \in Frame
  BY Innermost, Levels DEF KnowsInv, CallKnows
<1>2. HereOf(f) \in Path /\ HereOf(f) = Dir(f, f.index)
  BY <1>1, DirType DEF HereOf
<1>3. Under(HereOf(f), HereOf(f))
  BY <1>2, UnderSelf
<1>4. HereOf(f) \in Region
  BY <1>2, <1>3, InGroup
<1>5. ~Closes(f, "inner", Base, HereOf(f))
  BY <1>1, <1>3, <1>2, OwnCurrent
<1>6. HereOf(f) \notin ClosedDirs
  BY <1>2, <1>3, <1>5, InnerRegion
<1>7. HereOf(f) \in DoneDirs <=> HereOf(f) \in AllDirs /\ f.pc \in Late
  BY <1>2, <1>3, <1>5, InnerRegion DEF ClosesDir
<1>8. ASSUME NEW n \in Names
      PROVE  LET p == Append(HereOf(f), n) IN
              /\ p \in Region
              /\ p \in DoneDirs <=> p \in AllDirs /\ n \in Ready(f, "inner", Base)
              /\ p \in ClosedDirs <=> p \in AllDirs /\ n \in Ready(f, "inner", Base)
              /\ p \in DoneFiles <=> p \in AllFiles /\ Syncs(f, Base, p)
  <2> DEFINE p == Append(HereOf(f), n)
  <2>1. p \in Path /\ Under(HereOf(f), p) /\ Parent(p) = HereOf(f)
    BY <1>2, AppendParts, UnderAppend, FirstOfAppend
  <2>2. p # HereOf(f)
    BY <1>2, AppendParts
  <2>3. Closes(f, "inner", Base, p) <=> n \in Ready(f, "inner", Base)
    BY <1>1, <1>2, <1>3, OwnCurrent
  <2> HIDE DEF p
  <2>4. p \in Region
    BY <2>1, <1>2, InGroup
  <2>5. ClosesDir(f, "inner", Base, p) <=> Closes(f, "inner", Base, p)
    BY <2>2 DEF ClosesDir
  <2>6. /\ p \in DoneDirs <=> p \in AllDirs /\ n \in Ready(f, "inner", Base)
        /\ p \in ClosedDirs <=> p \in AllDirs /\ n \in Ready(f, "inner", Base)
    BY <2>1, <2>3, <2>5, <1>2, InnerRegion
  <2>7. ClosesFile(f, "inner", Base, p) <=> Syncs(f, Base, p)
    BY <2>1, <1>5 DEF ClosesFile
  <2>8. p \in DoneFiles <=> p \in AllFiles /\ Syncs(f, Base, p)
    BY <2>1, <2>2, <2>7, <1>2, InnerRegion
  <2>9. QED
    BY <2>4, <2>6, <2>8 DEF p
<1>9. QED
  BY <1>4, <1>6, <1>7, <1>8

-----------------------------------------------------------------------------
(* A step of the innermost call. *)

\* What is never changed by a backup.
LEMMA BaseStays ==
  ASSUME DataType, tree' \in [Scanner -> Tree], tree'["src"] = tree["src"], tree'["ref"] = tree["ref"],
         before' = before
  PROVE  Base' = Base /\ Asked' = Asked /\ Region' = Region /\ AllDirs' = AllDirs /\ AllFiles' = AllFiles
<1>1. tree \in [Scanner -> Tree] /\ "dst" \in Scanner
  BY DEF DataType, Scanner
<1>2. \A s \in Scanner : Base'[s] = Base[s]
  BY <1>1 DEF Base, Scanner
<1>3. Base \in [Scanner -> Tree \union {before}] /\ Base' \in [Scanner -> Tree \union {before}]
  BY <1>1 DEF Base
<1>4. Base' = Base
  BY <1>2, <1>3
<1>5. Asked' = Asked
  BY DEF Asked
<1>6. Region' = Region
  BY <1>5 DEF Region
<1>7. QED
  BY <1>4, <1>5, <1>6 DEF AllDirs, AllFiles

\* A step that replaces the innermost frame.
LEMMA TopParts ==
  ASSUME StackInv, stack # <<>>, NEW h \in Frame, stack' = [stack EXCEPT ![Len(stack)] = h]
  PROVE  /\ Len(stack') = Len(stack) /\ stack' # <<>> /\ f' = h
         /\ \A d \in 1 .. Len(stack) - 1 : stack'[d] = stack[d]
         /\ stack'[Len(stack)] = h
<1>1. Len(stack) \in 1 .. Len(stack) /\ stack \in Seq(Frame) /\ Len(stack) \in Nat
  BY Innermost DEF StackInv
<1>2. /\ stack' \in Seq(Frame) /\ Len(stack') = Len(stack)
      /\ \A d \in 1 .. Len(stack) : stack'[d] = IF d = Len(stack) THEN h ELSE stack[d]
  BY <1>1, ExceptSeq
<1>3. f' = h /\ stack'[Len(stack)] = h
  BY <1>1, <1>2 DEF f
<1>4. stack' # <<>>
  BY <1>1, <1>2, EmptySeq
<1>5. ASSUME NEW d \in 1 .. Len(stack) - 1 PROVE stack'[d] = stack[d]
  <2>1. d \in 1 .. Len(stack) /\ d # Len(stack)
    BY <1>1
  <2>2. QED
    BY <2>1, <1>2
<1>6. QED
  BY <1>2, <1>3, <1>4, <1>5

\* The other calls know what they knew.
LEMMA TopKnows ==
  ASSUME StackInv, KnowsInv, stack # <<>>, NEW h \in Frame, stack' = [stack EXCEPT ![Len(stack)] = h],
         Base' = Base, CallKnows(h, Base), ScanKnown(h, Base, Ended'),
         h.pc = "leave" => h.index = Len(h.dirs) + 1
  PROVE  KnowsInv'
<1>1. /\ Len(stack') = Len(stack) /\ stack' # <<>> /\ f' = h
      /\ \A d \in 1 .. Len(stack) - 1 : stack'[d] = stack[d]
      /\ stack'[Len(stack)] = h
  BY TopParts
<1>2. \A d \in 1 .. Len(stack) : d # Len(stack) => d \in 1 .. Len(stack) - 1
  BY Levels
<1>3. \A d \in 1 .. Len(stack') : CallKnows(stack'[d], Base')
  BY <1>1, <1>2 DEF KnowsInv
<1>4. \A d \in 1 .. Len(stack') - 1 : ScanKnown(stack'[d], Base', Scanner)
  BY <1>1 DEF KnowsInv
<1>5. QED
  BY <1>1, <1>3, <1>4 DEF KnowsInv

\* The calls are for what they were for.
LEMMA TopLinks ==
  ASSUME StackInv, LinkInv, stack # <<>>, NEW h \in Frame, stack' = [stack EXCEPT ![Len(stack)] = h],
         Base' = Base, group' = group, h.path = f.path, h.dirs = f.dirs
  PROVE  LinkInv'
<1>1. /\ Len(stack') = Len(stack) /\ stack' # <<>> /\ f' = h
      /\ \A d \in 1 .. Len(stack) - 1 : stack'[d] = stack[d]
      /\ stack'[Len(stack)] = h
  BY TopParts
<1>2. /\ \A d \in 1 .. Len(stack) : d # Len(stack) => d \in 1 .. Len(stack) - 1
      /\ \A d \in 1 .. Len(stack) - 1 : d \in 1 .. Len(stack) /\ d + 1 \in 1 .. Len(stack) /\ d < Len(stack)
      /\ Len(stack) \in 1 .. Len(stack) /\ f = stack[Len(stack)] /\ 1 \in 1 .. Len(stack) /\ Len(stack) \in Nat
  BY Levels
<1>3. \A d \in 1 .. Len(stack) : stack'[d].path = stack[d].path /\ stack'[d].dirs = stack[d].dirs
  BY <1>1, <1>2
<1>4. \A d \in 1 .. Len(stack) : \A names : For(stack'[d], names) <=> For(stack[d], names)
  BY <1>3 DEF For
<1>5. ASSUME NEW d \in 1 .. Len(stack), NEW e \in 1 .. Len(stack), d < e
      PROVE  Within(stack'[d], stack'[e], Base) <=> Within(stack[d], stack[e], Base)
  <2>1. d \in 1 .. Len(stack) - 1
    BY <1>2, <1>5
  <2>2. stack'[d] = stack[d]
    BY <2>1, <1>1
  <2>3. \A i : Dir(stack'[e], i) = Dir(stack[e], i)
    BY <1>3 DEF Dir
  <2>4. QED
    BY <2>2, <2>3, <1>3 DEF Within
<1>6. stack'[1].path = <<>> /\ For(stack'[1], group')
  BY <1>2, <1>3, <1>4 DEF LinkInv
<1>7. ASSUME NEW d \in 1 .. Len(stack') - 1
      PROVE  stack'[d + 1].path = HereOf(stack'[d]) /\ For(stack'[d + 1], Handed(stack'[d], Base'))
  <2>1. d \in 1 .. Len(stack) - 1 /\ d + 1 \in 1 .. Len(stack)
    BY <1>1, <1>2
  <2>2. stack'[d] = stack[d]
    BY <2>1, <1>1
  <2>3. QED
    BY <2>1, <2>2, <1>3, <1>4 DEF LinkInv
<1>8. ASSUME NEW d \in 1 .. Len(stack'), NEW e \in 1 .. Len(stack'), d < e
      PROVE  Within(stack'[d], stack'[e], Base')
  <2>1. d \in 1 .. Len(stack) /\ e \in 1 .. Len(stack)
    BY <1>1
  <2>2. Within(stack[d], stack[e], Base)
    BY <2>1, <1>8 DEF LinkInv
  <2>3. Within(stack'[d], stack'[e], Base)
    BY <2>1, <2>2, <1>5, <1>8
  <2>4. QED
    BY <2>3
<1>9. QED
  BY <1>6, <1>7, <1>8 DEF LinkInv

\* What the innermost call adds to what has been dealt with.
LEMMA ClosedGrow ==
  ASSUME StackInv, stack # <<>>, NEW h \in Frame, stack' = [stack EXCEPT ![Len(stack)] = h],
         Base' = Base, AllDirs' = AllDirs, Pending' = Pending, NEW X, X \subseteq AllDirs,
         \A p \in AllDirs : Closes(h, "inner", Base, p) <=> Closes(f, "inner", Base, p) \/ p \in X
  PROVE  ClosedDirs' = ClosedDirs \union X
<1>1. /\ Len(stack') = Len(stack) /\ stack' # <<>> /\ f' = h
      /\ \A d \in 1 .. Len(stack) - 1 : stack'[d] = stack[d]
  BY TopParts
<1>2. \A p \in AllDirs : ClosedIn(p)' <=> ClosedIn(p) \/ p \in X
  BY <1>1 DEF ClosedIn
<1>3. QED
  BY <1>2 DEF ClosedDirs

\* The same for directories dealt with,
LEMMA DirsGrow ==
  ASSUME StackInv, stack # <<>>, NEW h \in Frame, stack' = [stack EXCEPT ![Len(stack)] = h],
         Base' = Base, AllDirs' = AllDirs, Pending' = Pending, NEW X, X \subseteq AllDirs,
         \A p \in AllDirs : ClosesDir(h, "inner", Base, p) <=> ClosesDir(f, "inner", Base, p) \/ p \in X
  PROVE  DoneDirs' = DoneDirs \union X
<1>1. /\ Len(stack') = Len(stack) /\ stack' # <<>> /\ f' = h
      /\ \A d \in 1 .. Len(stack) - 1 : stack'[d] = stack[d]
  BY TopParts
<1>2. \A p \in AllDirs : DirDone(p)' <=> DirDone(p) \/ p \in X
  BY <1>1 DEF DirDone
<1>3. QED
  BY <1>2 DEF DoneDirs

\* and for files.
LEMMA FilesGrow ==
  ASSUME StackInv, stack # <<>>, NEW h \in Frame, stack' = [stack EXCEPT ![Len(stack)] = h],
         Base' = Base, AllFiles' = AllFiles, Pending' = Pending, NEW X, X \subseteq AllFiles,
         \A p \in AllFiles : ClosesFile(h, "inner", Base, p) <=> ClosesFile(f, "inner", Base, p) \/ p \in X
  PROVE  DoneFiles' = DoneFiles \union X
<1>1. /\ Len(stack') = Len(stack) /\ stack' # <<>> /\ f' = h
      /\ \A d \in 1 .. Len(stack) - 1 : stack'[d] = stack[d]
  BY TopParts
<1>2. \A p \in AllFiles : FileDone(p)' <=> FileDone(p) \/ p \in X
  BY <1>1 DEF FileDone
<1>3. QED
  BY <1>2 DEF DoneFiles

\* What is closed depends on where the call is, and what has returned to it.
LEMMA SameCloses ==
  ASSUME NEW g, NEW h, NEW base, NEW role, NEW role2, h.path = g.path, h.dirs = g.dirs, h.index = g.index,
         Ready(h, role2, base) = Ready(g, role, base)
  PROVE  \A p : Closes(h, role2, base, p) <=> Closes(g, role, base, p)
<1>1. HereOf(h) = HereOf(g) /\ \A j : Dir(h, j) = Dir(g, j)
  BY DEF HereOf, Dir
<1>2. QED
  BY <1>1 DEF Closes

-----------------------------------------------------------------------------
(* What the innermost call knows. *)

Waits == {"waitSrc", "waitRef", "waitDst"}

\* What holds of all calls holds of the innermost one.
LEMMA TopIsKnown ==
  ASSUME StackInv, KnowsInv, stack # <<>>
  PROVE  CallKnows(f, Base) /\ ScanKnown(f, Base, Ended)
BY Levels DEF KnowsInv

\* What is known of trees and lists depends on path, directories and slots.
LEMMA SlotsKnown ==
  ASSUME NEW base, NEW g, NEW h, h.path = g.path, h.dirs = g.dirs, h.index = g.index, h.slot = g.slot,
         h.pc \in Reading => g.pc \in Reading, g.pc = "leave" => h.pc = "leave"
  PROVE  /\ Known(g, base) => Known(h, base)
         /\ ReadKnown(g, base) => ReadKnown(h, base)
         /\ \A S : ScanKnown(g, base, S) => ScanKnown(h, base, S)
         /\ HereOf(h) = HereOf(g)
<1>1. ReadSlot(h) = ReadSlot(g) /\ ScanSlot(h) = ScanSlot(g) /\ HereOf(h) = HereOf(g) /\ \A i : Dir(h, i) = Dir(g, i)
  BY DEF ReadSlot, ScanSlot, HereOf, Dir
<1>2. \A S : ScanKnown(g, base, S) => ScanKnown(h, base, S)
  BY <1>1 DEF ScanKnown
<1>3. Known(g, base) => Known(h, base)
  BY <1>1 DEF Known
<1>4. ReadKnown(g, base) => ReadKnown(h, base)
  BY <1>1 DEF ReadKnown
<1>5. QED
  BY <1>1, <1>2, <1>3, <1>4

\* With less and less to do.
LEMMA WorkShrinks ==
  ASSUME NEW base, NEW g, NEW h, h.path = g.path, h.dirs = g.dirs, h.index = g.index,
         WorkKnown(g, base), g.pc \notin Reading \union {"leave"},
         h.work.extraFiles \subseteq g.work.extraFiles, h.work.extraDirs \subseteq g.work.extraDirs,
         h.work.copyFiles \subseteq g.work.copyFiles, h.work.copyDirs = g.work.copyDirs,
         h.pc \in Processing \ {"extraFiles"} => h.work.extraFiles = {},
         h.pc \in Waits => g.pc \in Waits /\ h.work.extraFiles = g.work.extraFiles,
         h.pc \notin Late => g.pc \notin Late /\ h.work.copyFiles = g.work.copyFiles,
         h.pc \notin Late \union {"directory"} =>
           g.pc \notin Late \union {"directory"} /\ h.work.extraDirs = g.work.extraDirs,
         h.pc \in {"subdirs", "attributes"} => h.work.copyFiles = {}
  PROVE  WorkKnown(h, base)
<1> SUFFICES ASSUME h.index \in 1 .. Len(h.dirs) PROVE WorkKnown(h, base)
  BY DEF WorkKnown
<1>1. HereOf(h) = HereOf(g)
  BY DEF HereOf, Dir
<1> DEFINE old == Here(base["dst"], HereOf(g))
           new == Here(base["src"], HereOf(g))
<1>2. FilesKnown(g, base, old, new) /\ DirsKnown(g, base, old, new)
  BY DEF WorkKnown
<1> HIDE DEF old, new
<1>3. FilesKnown(h, base, old, new)
  BY <1>2 DEF FilesKnown, Waits, Distinct
<1>4. DirsKnown(h, base, old, new)
  BY <1>2, <1>1 DEF DirsKnown
<1>5. QED
  BY <1>1, <1>3, <1>4 DEF WorkKnown, old, new

\* A call that works on a directory goes on knowing what there is.
LEMMA ProcessKnows ==
  ASSUME StackInv, KnowsInv, stack # <<>>, NEW h \in Frame, stack' = [stack EXCEPT ![Len(stack)] = h],
         Base' = Base, h.path = f.path, h.dirs = f.dirs, h.index = f.index, h.slot = f.slot,
         f.pc \notin Reading \union {"leave"}, h.pc \notin Reading \union {"leave"}, Ended' \subseteq Ended,
         WorkKnown(h, Base)
  PROVE  KnowsInv'
<1>1. CallKnows(f, Base) /\ ScanKnown(f, Base, Ended)
  BY TopIsKnown
<1>2. CallKnows(h, Base) /\ ScanKnown(h, Base, Ended)
  BY <1>1, SlotsKnown DEF CallKnows
<1>3. ScanKnown(h, Base, Ended')
  BY <1>2 DEF ScanKnown, ListsTrue
<1>4. QED
  BY <1>2, <1>3, TopKnows

\* A step before anything is done to a directory.
ScanningStep ==
  \E h \in Frame : /\ stack' = [stack EXCEPT ![Len(stack)] = h]
                   /\ h.path = f.path /\ h.dirs = f.dirs /\ h.pc \notin Processing
                   /\ h.index = f.index \/ (f.index = 0 /\ h.index = 1)

\* Lines 377-397: a slot is given to the scanners.
LEMMA TurnKnows ==
  ASSUME PipelineInv, KnowsInv, Turn
  PROVE  KnowsInv' /\ ScanningStep
<1>1. StackInv /\ stack # <<>> /\ f.pc = "turn" /\ Base' = Base /\ Ended' = Ended
  BY DEF PipelineInv, Turn, at, UnchangedAround, trees, Ended, Base
<1>2. /\ f \in Frame /\ CallOK(f) /\ ScanIndex \in {0, 1} /\ ReadIndex \in {0, 1} /\ ScanIndex # ReadIndex
      /\ ScanSlot(f) = f.slot[ScanIndex] /\ ReadSlot(f) = f.slot[ReadIndex]
      /\ f.index \in Nat /\ Len(f.dirs) \in Nat /\ f.slot \in [{0, 1} -> Slot]
  BY <1>1, Innermost, FrameParts DEF read
<1>3. CallKnows(f, Base) /\ ScanKnown(f, Base, Ended)
  BY <1>1, TopIsKnown
<1>4. CASE f.index >= Len(f.dirs)
  <2>1. PICK p \in {"leave", "merge"} : Goto(p) /\ (p = "leave" => f.index > Len(f.dirs))
    BY <1>2, <1>4 DEF Turn
  <2> DEFINE h == [f EXCEPT !.pc = p]
  <2>2. p \in FramePc /\ f.pc \in Reading /\ f.pc # "leave"
    BY <1>1, <2>1 DEF FramePc, Reading
  <2>3. /\ h \in Frame /\ h.pc = p /\ h.path = f.path
        /\ h.dirs = f.dirs /\ h.index = f.index /\ h.slot = f.slot /\ h.work = f.work
    BY <1>2, <2>2, GotoFrame
  <2>4. stack' = [stack EXCEPT ![Len(stack)] = h]
    BY <2>1 DEF Goto, Top
  <2> HIDE DEF h
  <2>5. Known(h, Base) /\ ReadKnown(h, Base) /\ ScanKnown(h, Base, Ended)
    BY <1>3, <2>2, <2>3, SlotsKnown DEF CallKnows
  <2>6. WorkKnown(h, Base)
    BY <2>1, <2>3 DEF WorkKnown, Reading
  <2>7. h.pc = "leave" => h.index = Len(h.dirs) + 1
    BY <1>2, <2>1, <2>3 DEF CallOK, IndexOK
  <2>8. ScanningStep
    BY <2>1, <2>3, <2>4 DEF ScanningStep, Processing
  <2>9. QED
    BY <1>1, <2>3, <2>4, <2>5, <2>6, <2>7, <2>8, TopKnows DEF CallKnows
<1>5. CASE f.index < Len(f.dirs)
  <2> DEFINE h == [f EXCEPT !.slot[ScanIndex].idx = f.index, !.pc = "orderSrc"]
             new == [f.slot[ScanIndex] EXCEPT !.idx = f.index]
  <2>1. stack' = [stack EXCEPT ![Len(stack)] = h]
    BY <1>2, <1>5 DEF Turn, Goto, Top
  <2>2. new \in Slot /\ new.path = f.slot[ScanIndex].path
    <3>1. f.slot[ScanIndex] \in Slot
      BY <1>2
    <3>2. QED
      BY <3>1, <1>2 DEF Slot
  <2>3. h = [f EXCEPT !.slot[ScanIndex] = new, !.pc = "orderSrc"]
    OBVIOUS
  <2> HIDE DEF h, new
  <2>4. /\ h \in Frame /\ h.pc = "orderSrc" /\ h.index = f.index /\ h.dirs = f.dirs /\ h.path = f.path
        /\ h.work = f.work /\ h.slot = [f.slot EXCEPT ![ScanIndex] = new]
    <3>1. "orderSrc" \in FramePc
      BY DEF FramePc
    <3>2. QED
      BY <3>1, <2>2, <2>3, <1>2 DEF Frame
  <2>5. ScanSlot(h) = new /\ ReadSlot(h) = ReadSlot(f) /\ HereOf(h) = HereOf(f) /\ \A i : Dir(h, i) = Dir(f, i)
    BY <1>2, <2>4 DEF ScanSlot, ReadSlot, ScanIndex, ReadIndex, HereOf, Dir
  <2>6. new.path = {}
    BY <1>1, <1>2, <2>2 DEF CallOK, SlotsOK, EmptySlot
  <2>7. CallKnows(h, Base)
    <3>1. f.pc \in Reading /\ h.pc \in Reading
      BY <1>1, <2>4 DEF Reading
    <3>2. Known(h, Base)
      BY <1>3, <2>4, <2>5 DEF CallKnows, Known
    <3>3. ReadKnown(h, Base)
      BY <1>3, <2>4, <2>5, <3>1 DEF CallKnows, ReadKnown
    <3>4. QED
      BY <3>1, <3>2, <3>3 DEF CallKnows, WorkKnown
  <2>8. ScanKnown(h, Base, Ended')
    BY <2>5, <2>6 DEF ScanKnown, ListsTrue
  <2>9. ScanningStep
    BY <2>1, <2>4 DEF ScanningStep, Processing
  <2>10. QED
    BY <1>1, <2>1, <2>4, <2>7, <2>8, <2>9, TopKnows
<1>6. QED
  BY <1>2, <1>4, <1>5

\* Lines 399-434: the next directory is scanned, as long as it has not changed.
LEMMA OrderScanKnows ==
  ASSUME PipelineInv, KnowsInv, NEW s \in Scanner, OrderScan(s)
  PROVE  KnowsInv' /\ ScanningStep
<1>1. StackInv /\ stack # <<>> /\ f.pc = Ordering(s) /\ Base' = Base /\ DataType
  BY DEF PipelineInv, OrderScan, at, UnchangedAround, trees, Base
<1>2. /\ f \in Frame /\ CallOK(f) /\ ScanIndex \in {0, 1} /\ ReadIndex \in {0, 1} /\ ScanIndex # ReadIndex
      /\ ScanSlot(f) = f.slot[ScanIndex] /\ ReadSlot(f) = f.slot[ReadIndex]
      /\ f.index \in Nat /\ Len(f.dirs) \in Nat /\ f.slot \in [{0, 1} -> Slot]
  BY <1>1, Innermost, FrameParts DEF read
<1>3. CallKnows(f, Base) /\ ScanKnown(f, Base, Ended)
  BY <1>1, TopIsKnown
<1>4. f.pc \in Reading /\ f.pc # "leave" /\ AfterOrder(s) \in FramePc /\ AfterOrder(s) # "leave"
      /\ (AfterOrder(s) \in Reading \/ (AfterOrder(s) = "waitSrc" /\ f.index = 0))
  BY <1>1 DEF Reading, Ordering, Scanner, AfterOrder, FramePc
<1> DEFINE next == f.dirs[f.index + 1]
           added == IF s \in next.in THEN {s} ELSE {}
           h == [f EXCEPT !.slot[ScanIndex].path = @ \union added, !.pc = AfterOrder(s)]
           new == [f.slot[ScanIndex] EXCEPT !.path = @ \union added]
<1>5. /\ new \in Slot /\ new.idx = f.slot[ScanIndex].idx /\ new.lists = f.slot[ScanIndex].lists
      /\ new.path = f.slot[ScanIndex].path \union added
      /\ s \notin next.in => new = f.slot[ScanIndex]
  <2>1. f.slot[ScanIndex] \in Slot
    BY <1>2
  <2>2. QED
    BY <2>1 DEF Slot
<1>6. /\ h.pc = AfterOrder(s) /\ h.index = f.index /\ h.dirs = f.dirs /\ h.path = f.path
      /\ h.slot = [f.slot EXCEPT ![ScanIndex] = new]
      /\ h.work = f.work /\ h \in Frame
  <2>1. h = [f EXCEPT !.slot[ScanIndex] = new, !.pc = AfterOrder(s)]
    OBVIOUS
  <2> HIDE DEF h, new
  <2>2. QED
    BY <2>1, <1>2, <1>4, <1>5 DEF Frame
<1>7. stack' = [stack EXCEPT ![Len(stack)] = h]
  <2>1. CASE s \in next.in
    BY <2>1 DEF OrderScan, Top
  <2>2. CASE s \notin next.in
    <3>1. [f.slot EXCEPT ![ScanIndex] = new] = f.slot
      BY <2>2, <1>2, <1>5
    <3>2. h = [f EXCEPT !.pc = AfterOrder(s)]
      <4>1. h = [f EXCEPT !.slot = [f.slot EXCEPT ![ScanIndex] = new], !.pc = AfterOrder(s)]
        OBVIOUS
      <4> HIDE DEF h, new
      <4>2. QED
        BY <4>1, <3>1, <1>2 DEF Frame
    <3>3. QED
      BY <3>2, <2>2 DEF OrderScan, Goto, Top
  <2>3. QED
    BY <2>1, <2>2
<1>8. Ended' \intersect new.path \subseteq Ended \intersect f.slot[ScanIndex].path
  <2>1. CASE s \in next.in
    <3>1. scanner' = Order(s, Len(stack), ScanIndex, Append(f.path, next.name)) /\ scanner \in [Scanner -> Scan]
      BY <2>1, <1>1 DEF OrderScan, DataType
    <3>2. scanner'[s].state = "running" /\ \A t \in Scanner : t # s => scanner'[t] = scanner[t]
      BY <3>1 DEF Order
    <3>3. QED
      BY <2>1, <3>2, <1>5 DEF Ended
  <2>2. CASE s \notin next.in
    <3>1. scanner' = scanner
      BY <2>2 DEF OrderScan
    <3>2. QED
      BY <2>2, <3>1, <1>5 DEF Ended
  <2>3. QED
    BY <2>1, <2>2
<1> HIDE DEF h, new, added
<1>9. ScanSlot(h) = new /\ ReadSlot(h) = ReadSlot(f) /\ HereOf(h) = HereOf(f) /\ \A i : Dir(h, i) = Dir(f, i)
  BY <1>2, <1>6 DEF ScanSlot, ReadSlot, ScanIndex, ReadIndex, HereOf, Dir
<1>10. CallKnows(h, Base)
  <2>1. Known(h, Base)
    BY <1>3, <1>6, <1>9 DEF CallKnows, Known
  <2>2. ReadKnown(h, Base)
    BY <1>3, <1>4, <1>6, <1>9 DEF CallKnows, ReadKnown
  <2>3. WorkKnown(h, Base)
    BY <1>4, <1>6 DEF WorkKnown
  <2>4. QED
    BY <2>1, <2>2, <2>3 DEF CallKnows
<1>11. ScanKnown(h, Base, Ended')
  BY <1>2, <1>3, <1>4, <1>5, <1>6, <1>8, <1>9 DEF ScanKnown, ListsTrue
<1>12. ScanningStep
  BY <1>4, <1>6, <1>7 DEF ScanningStep, Processing, Reading
<1>13. QED
  BY <1>1, <1>4, <1>6, <1>7, <1>10, <1>11, <1>12, TopKnows

\* All is well, and no exception is on its way.
Live == PipelineInv /\ SoundInv /\ TodoInv /\ ProgressInv

\* The parts of the invariant.
LEMMA LiveParts ==
  ASSUME Live
  PROVE  /\ PipelineInv /\ DataType /\ StackInv /\ ScanInv /\ RootInv /\ AskedInv /\ SoundInv /\ TodoInv
         /\ KnowsInv /\ LinkInv /\ RootsKnown /\ Progress /\ Tally
         /\ stack # <<>> => pc = "copy"
BY DEF Live, PipelineInv, ProgressInv, RootInv

\* Source and destination are trees.
LEMMA TreesSound ==
  ASSUME PipelineInv, SoundInv, pc # "idle"
  PROVE  /\ WellFormed(Base["src"]) /\ WellFormed(Base["dst"]) /\ WellFormed(tree["src"]) /\ WellFormed(before)
         /\ WellFormed(dst) /\ before \in Tree /\ tree["src"] \in Tree /\ dst \in Tree
         /\ before.dirs \in SUBSET Path /\ before.files \in SUBSET Path
         /\ tree["src"].dirs \in SUBSET Path /\ tree["src"].files \in SUBSET Path
         /\ dst.dirs \in SUBSET Path /\ dst.files \in SUBSET Path
<1>1. tree["src"] \in Trees
  BY DEF PipelineInv, AskedInv
<1>2. WellFormed(tree["src"])
  BY <1>1, ConstantsAssumption DEF WellFormed
<1>3. Base["dst"] = before /\ Base["src"] = tree["src"] /\ before \in Tree /\ tree["src"] \in Tree /\ dst \in Tree
  BY BaseType DEF PipelineInv, DataType, Scanner, dst
<1>4. \A t \in Tree : t.dirs \in SUBSET Path /\ t.files \in SUBSET Path
  BY DEF Tree
<1>5. QED
  BY <1>2, <1>3, <1>4 DEF SoundInv

\* Where there is no directory, there is nothing in it.
LEMMA NothingHere ==
  ASSUME NEW t, WellFormed(t), NEW p \in Path, p \notin t.dirs
  PROVE  Here(t, p) = NoLists
<1>1. ASSUME NEW n \in Names PROVE Append(p, n) \notin t.dirs \union t.files
  BY FirstOfAppend DEF WellFormed
<1>2. QED
  BY <1>1 DEF Here, NoLists

\* Each name is matched,
LEMMA MatchesFound ==
  ASSUME NEW names \in SUBSET Names, NEW lists, NEW kind
  PROVE  \A n \in names : \E m \in Matches(names, lists, kind) : m.name = n
<1> DEFINE made(n) == [name |-> n, in |-> {s \in Scanner : n \in lists[s][kind]}]
<1>1. Matches(names, lists, kind) = {made(n) : n \in names}
  BY DEF Matches
<1>2. \A n : made(n).name = n
  OBVIOUS
<1> HIDE DEF made
<1>3. \A n \in names : made(n) \in Matches(names, lists, kind)
  BY <1>1
<1>4. QED
  BY <1>2, <1>3

\* with the trees that have it.
LEMMA MatchedFiles ==
  ASSUME NEW names \in SUBSET Names, NEW lists, NEW m \in Matches(names, lists, "files")
  PROVE  \A s \in Scanner : s \in m.in <=> m.name \in lists[s].files
BY DEF Matches

\* True lists give true work.
LEMMA MergeFinds ==
  ASSUME NEW base, NEW h, h.pc = "waitSrc", HereOf(h) \in Path,
         NEW l \in [Scanner -> Lists], h.work = Work(l),
         l["src"] = Here(base["src"], HereOf(h)), l["dst"] = Here(base["dst"], HereOf(h)),
         l["ref"].dirs \subseteq Here(base["ref"], HereOf(h)).dirs
  PROVE  WorkKnown(h, base)
<1> DEFINE p == HereOf(h)
           old == Here(base["dst"], p)
           new == Here(base["src"], p)
           w == h.work
           dstOnly == [l EXCEPT !["src"] = NoLists, !["ref"] = NoLists]
<1>1. /\ old.dirs \in SUBSET Names /\ old.files \in SUBSET Names /\ new.dirs \in SUBSET Names /\ new.files \in SUBSET Names
      /\ old.dirs \ new.dirs \in SUBSET Names
  BY DEF Here
<1>2. /\ w.extraFiles = old.files \ new.files
      /\ w.extraDirs = Matches(old.dirs \ new.dirs, dstOnly, "dirs")
      /\ w.copyFiles = Matches(new.files, l, "files")
      /\ w.copyDirs = Matches(new.dirs, l, "dirs")
  BY DEF Work
<1>3. /\ l["src"] = new /\ l["dst"] = old /\ l["ref"].dirs \subseteq Here(base["ref"], p).dirs
      /\ dstOnly["src"].dirs = {} /\ dstOnly["ref"].dirs = {} /\ dstOnly["dst"] = old
  BY DEF Scanner, NoLists
<1>4. h.pc = "waitSrc" /\ p = HereOf(h)
  OBVIOUS
<1> HIDE DEF p, old, new, w, dstOnly
<1>5. FilesKnown(h, base, old, new)
  <2>1. /\ \A n \in new.files : \E m \in w.copyFiles : m.name = n
        /\ \A m \in w.copyFiles : m.name \in new.files /\ \A s \in Scanner : s \in m.in <=> m.name \in l[s].files
    <3> DEFINE names == new.files
    <3>1. names \in SUBSET Names /\ w.copyFiles = Matches(names, l, "files")
      BY <1>1, <1>2
    <3> HIDE DEF names
    <3>2a. \A n \in names : \E m \in w.copyFiles : m.name = n
      BY <3>1, MatchesFound
    <3>2b. \A m \in w.copyFiles : m.name \in names
      BY <3>1, MatchesType
    <3>2. /\ \A n \in names : \E m \in w.copyFiles : m.name = n
          /\ \A m \in w.copyFiles : m.name \in names
      BY <3>2a, <3>2b
    <3>3. \A m \in w.copyFiles : \A s \in Scanner : s \in m.in <=> m.name \in l[s].files
      BY <3>1, MatchedFiles
    <3>4. QED
      BY <3>2, <3>3 DEF names
  <2>2. Distinct(w.copyFiles)
    BY <1>1, <1>2, MatchesType
  <2>3. \A m \in w.copyFiles : m.name \in new.files /\ ("dst" \in m.in <=> m.name \in old.files)
    BY <2>1, <1>3 DEF Scanner
  <2>4. w = h.work
    BY DEF w
  <2>5. QED
    BY <2>1, <2>2, <2>3, <2>4, <1>2, <1>4 DEF FilesKnown, Processing, Late
<1>6. DirsKnown(h, base, old, new)
  <2> DEFINE names == old.dirs \ new.dirs
  <2>1. names \in SUBSET Names /\ w.extraDirs = Matches(names, dstOnly, "dirs")
    BY <1>1, <1>2
  <2> HIDE DEF names
  <2>2. /\ \A n \in names : \E m \in w.extraDirs : m.name = n
        /\ \A m \in w.extraDirs : m.name \in names /\ m.in \subseteq Scanner
                                  /\ \A s \in Scanner : s \in m.in <=> m.name \in dstOnly[s].dirs
    <3>1a. \A n \in names : \E m \in w.extraDirs : m.name = n
      BY <2>1, MatchesFound
    <3>1b. \A m \in w.extraDirs : m.name \in names /\ m.in \subseteq Scanner
      <4>1. \A m \in Matches(names, dstOnly, "dirs") : m.name \in names /\ m.in \subseteq Scanner
        BY <2>1, MatchesType
      <4>2. QED
        BY <4>1, <2>1
    <3>1. /\ \A n \in names : \E m \in w.extraDirs : m.name = n
          /\ \A m \in w.extraDirs : m.name \in names /\ m.in \subseteq Scanner
      BY <3>1a, <3>1b
    <3>2. \A m \in w.extraDirs : \A s \in Scanner : s \in m.in <=> m.name \in dstOnly[s].dirs
      BY <2>1, MatchedDirs
    <3>3. QED
      BY <3>1, <3>2
  <2>3. ASSUME NEW m \in w.extraDirs PROVE m.in = {"dst"} /\ m.name \in names
    <3>1. m.name \in old.dirs /\ m.name \in names
      BY <2>2 DEF names
    <3>2. m.in \subseteq Scanner /\ "src" \notin m.in /\ "ref" \notin m.in /\ "dst" \in m.in
      BY <3>1, <2>2, <1>3 DEF Scanner
    <3>3. QED
      BY <3>1, <3>2 DEF Scanner
  <2>4. /\ \A n \in new.dirs : \E m \in w.copyDirs : m.name = n
        /\ \A m \in w.copyDirs : m.name \in new.dirs /\ m.in \subseteq Scanner
                                 /\ \A s \in Scanner : s \in m.in <=> m.name \in l[s].dirs
    <3> DEFINE all == new.dirs
    <3>1. all \in SUBSET Names /\ w.copyDirs = Matches(all, l, "dirs")
      BY <1>1, <1>2
    <3> HIDE DEF all
    <3>2a. \A n \in all : \E m \in w.copyDirs : m.name = n
      BY <3>1, MatchesFound
    <3>2b. \A m \in w.copyDirs : m.name \in all /\ m.in \subseteq Scanner
      <4>1. \A m \in Matches(all, l, "dirs") : m.name \in all /\ m.in \subseteq Scanner
        BY <3>1, MatchesType
      <4>2. QED
        BY <4>1, <3>1
    <3>2. /\ \A n \in all : \E m \in w.copyDirs : m.name = n
          /\ \A m \in w.copyDirs : m.name \in all /\ m.in \subseteq Scanner
      BY <3>2a, <3>2b
    <3>3. \A m \in w.copyDirs : \A s \in Scanner : s \in m.in <=> m.name \in l[s].dirs
      BY <3>1, MatchedDirs
    <3>4. QED
      BY <3>2, <3>3 DEF all
  <2>5. ASSUME NEW m \in w.copyDirs
        PROVE  /\ m.name \in new.dirs /\ (m.name \in old.dirs => "dst" \in m.in)
               /\ \A s \in m.in : Append(p, m.name) \in base[s].dirs
    <3>1. m.name \in new.dirs /\ (m.name \in old.dirs => "dst" \in m.in)
      BY <2>4, <1>3 DEF Scanner
    <3>2. ASSUME NEW s \in m.in PROVE Append(p, m.name) \in base[s].dirs
      <4>1. s \in Scanner /\ m.name \in l[s].dirs
        BY <2>4
      <4>2. m.name \in Here(base[s], p).dirs
        <5>1. CASE s = "src"
          BY <5>1, <4>1, <1>3 DEF new
        <5>2. CASE s = "dst"
          BY <5>2, <4>1, <1>3 DEF old
        <5>3. CASE s = "ref"
          BY <5>3, <4>1, <1>3
        <5>4. QED
          BY <4>1, <5>1, <5>2, <5>3 DEF Scanner
      <4>3. QED
        BY <4>2 DEF Here
    <3>3. QED
      BY <3>1, <3>2
  <2>6. w = h.work
    BY DEF w
  <2>7. QED
    BY <2>2, <2>3, <2>4, <2>5, <2>6, <1>4 DEF DirsKnown, names, Late
<1>7. QED
  BY <1>4, <1>5, <1>6 DEF WorkKnown, old, new

\* Lines 448-490: what the lists say is true of the directory.
LEMMA MergeKnows ==
  ASSUME Live, Merge
  PROVE  KnowsInv' /\ ScanningStep
<1>1. StackInv /\ stack # <<>> /\ f.pc = "merge" /\ Base' = Base /\ Ended' = Ended /\ KnowsInv /\ pc # "idle"
  BY LiveParts DEF Merge, at, UnchangedAround, trees, Ended, Base
<1>2. /\ f \in Frame /\ CallOK(f) /\ ScanIndex \in {0, 1} /\ ReadIndex \in {0, 1} /\ ScanIndex # ReadIndex
      /\ ScanSlot(f) = f.slot[ScanIndex] /\ ReadSlot(f) = f.slot[ReadIndex] /\ read = f.slot[ReadIndex]
      /\ f.index \in Nat /\ Len(f.dirs) \in Nat /\ f.slot \in [{0, 1} -> Slot]
  BY <1>1, Innermost, FrameParts DEF read
<1>3. CallKnows(f, Base) /\ ScanKnown(f, Base, Ended)
  BY <1>1, TopIsKnown
<1>4. /\ f.index \in 1 .. Len(f.dirs) /\ match = f.dirs[f.index] /\ match \in Match /\ read.path = match.in
      /\ HereOf(f) \in Path /\ HereOf(f) = Dir(f, f.index)
  BY <1>1, <1>2, ReadIsCurrent, DirType DEF HereOf
<1> DEFINE l == read.lists
           work == Work(read.lists)
           new == [f.slot[ReadIndex] EXCEPT !.lists = EmptySlot.lists]
           h == [f EXCEPT !.work = work, !.slot[ReadIndex].lists = EmptySlot.lists, !.pc = "waitSrc"]
<1>5. stack' = [stack EXCEPT ![Len(stack)] = h]
  BY DEF Merge, Top
<1>6. new \in Slot /\ l \in [Scanner -> Lists] /\ read.path \in SUBSET Scanner
  <2>1. f.slot[ReadIndex] \in Slot
    BY <1>2
  <2>2. QED
    BY <2>1, <1>2, SlotType DEF Slot
<1>7. h = [f EXCEPT !.work = work, !.slot[ReadIndex] = new, !.pc = "waitSrc"]
  OBVIOUS
<1>8. work \in [extraFiles : SUBSET Names, extraDirs : SUBSET Match,
                copyFiles : SUBSET Match, copyDirs : SUBSET Match] /\ work = Work(l)
  <2>1. \A s \in Scanner : s \notin read.path => l[s] = [dirs |-> {}, files |-> {}]
    BY <1>2 DEF CallOK, SlotsOK
  <2> HIDE DEF l
  <2>2. LET w == Work(l) IN w \in [extraFiles : SUBSET Names, extraDirs : SUBSET Match,
                                   copyFiles : SUBSET Match, copyDirs : SUBSET Match]
    BY <2>1, <1>6, WorkType
  <2>3. QED
    BY <2>2 DEF l
<1>9. \A s \in read.path : l[s] = Here(Base[s], HereOf(f))
  <2>1. ListsTrue(ReadSlot(f), HereOf(f), Base, Scanner)
    BY <1>1, <1>3, <1>4 DEF CallKnows, ReadKnown, Reading
  <2>2. QED
    BY <2>1, <1>2, <1>6 DEF ListsTrue
<1>10. \A s \in Scanner : s \notin read.path => l[s] = NoLists
  BY <1>2 DEF CallOK, SlotsOK, NoLists
<1>11. ASSUME NEW s \in {"src", "dst"} PROVE l[s] = Here(Base[s], HereOf(f))
  <2>1. CASE s \notin read.path
    <3>1. HereOf(f) \notin Base[s].dirs
      BY <2>1, <1>3, <1>4 DEF CallKnows, Known
    <3>2. WellFormed(Base[s])
      BY <1>1, LiveParts, TreesSound
    <3>3. Here(Base[s], HereOf(f)) = NoLists
      BY <3>1, <3>2, <1>4, NothingHere
    <3>4. QED
      BY <3>3, <2>1, <1>10 DEF Scanner
  <2>2. QED
    BY <2>1, <1>9
<1>12. l["ref"].dirs \subseteq Here(Base["ref"], HereOf(f)).dirs
  <2>1. CASE "ref" \in read.path
    BY <2>1, <1>9
  <2>2. CASE "ref" \notin read.path
    BY <2>2, <1>10 DEF NoLists, Scanner
  <2>3. QED
    BY <2>1, <2>2
<1> HIDE DEF h, new, work, l
<1>13. /\ h \in Frame /\ h.pc = "waitSrc" /\ h.index = f.index /\ h.dirs = f.dirs /\ h.path = f.path
       /\ h.work = work /\ h.slot = [f.slot EXCEPT ![ReadIndex] = new]
  <2>1. "waitSrc" \in FramePc
    BY DEF FramePc
  <2>2. QED
    BY <2>1, <1>2, <1>6, <1>7, <1>8 DEF Frame
<1>14. ScanSlot(h) = ScanSlot(f) /\ HereOf(h) = HereOf(f) /\ \A i : Dir(h, i) = Dir(f, i)
  BY <1>2, <1>13 DEF ScanSlot, ScanIndex, ReadIndex, HereOf, Dir
<1>15. WorkKnown(h, Base)
  BY <1>4, <1>6, <1>8, <1>11, <1>12, <1>13, <1>14, MergeFinds
<1>16. CallKnows(h, Base)
  <2>1. Known(h, Base)
    BY <1>3, <1>13, <1>14 DEF CallKnows, Known
  <2>2. ReadKnown(h, Base)
    BY <1>13 DEF ReadKnown, Reading
  <2>3. QED
    BY <2>1, <2>2, <1>15 DEF CallKnows
<1>17. ScanKnown(h, Base, Ended')
  BY <1>1, <1>3, <1>13, <1>14 DEF ScanKnown
<1>18. ScanningStep
  BY <1>5, <1>13 DEF ScanningStep, Processing
<1>19. QED
  BY <1>1, <1>5, <1>13, <1>16, <1>17, <1>18, TopKnows

-----------------------------------------------------------------------------
(* Steps of a call that change neither the source nor the backup. *)

Steady == /\ Base' = Base /\ Region' = Region /\ AllDirs' = AllDirs /\ AllFiles' = AllFiles
          /\ Pending' = Pending /\ Asked' = Asked /\ group' = group /\ pc' = "copy" /\ RootsKnown' /\ TodoInv'

\* The source stays, and with it what there is to do.
LEMMA SteadyStep ==
  ASSUME Live, stack # <<>>, UNCHANGED backup, tree' \in [Scanner -> Tree],
         tree'["src"] = tree["src"], tree'["ref"] = tree["ref"], before' = before
  PROVE  Steady
<1>1. DataType /\ pc = "copy" /\ RootsKnown /\ TodoInv
  BY LiveParts
<1>2. Base' = Base /\ Asked' = Asked /\ Region' = Region /\ AllDirs' = AllDirs /\ AllFiles' = AllFiles
  BY <1>1, BaseStays
<1>3. Pending' = Pending /\ group' = group /\ pc' = "copy" /\ root' = root /\ todo' = todo
  BY <1>1 DEF backup, Pending
<1>4. TodoInv'
  BY <1>1, <1>2, <1>3 DEF TodoInv
<1>5. RootsKnown'
  <2>1. \A s \in {"ref", "dst"} : RootTrue(s) /\ (s = "dst" => root[s].files = {}) /\ ~First(s) /\ ~First(s)'
    BY <1>1, <1>3 DEF RootsKnown, First
  <2>2. \A s \in {"ref", "dst"} : RootTrue(s)'
    BY <2>1, <1>2, <1>3 DEF RootTrue
  <2>3. QED
    BY <2>1, <2>2, <1>3 DEF RootsKnown
<1>6. QED
  BY <1>2, <1>3, <1>4, <1>5 DEF Steady

LEMMA SteadyTrees ==
  ASSUME Live, stack # <<>>, UNCHANGED <<trees, backup>>
  PROVE  Steady
BY LiveParts, SteadyStep DEF trees, DataType

\* The innermost call goes on with its directory.
Advance(h) == /\ h \in Frame /\ stack' = [stack EXCEPT ![Len(stack)] = h]
              /\ h.path = f.path /\ h.dirs = f.dirs /\ h.index = f.index /\ h.slot = f.slot

\* What there is to do, and that it becomes less.
Shrinks(g, h) ==
  /\ h.work.extraFiles \subseteq g.work.extraFiles /\ h.work.extraDirs \subseteq g.work.extraDirs
  /\ h.work.copyFiles \subseteq g.work.copyFiles /\ h.work.copyDirs = g.work.copyDirs
  /\ h.pc \in Processing \ {"extraFiles"} => h.work.extraFiles = {}
  /\ h.pc \in Waits => g.pc \in Waits /\ h.work.extraFiles = g.work.extraFiles
  /\ h.pc \notin Late => g.pc \notin Late /\ h.work.copyFiles = g.work.copyFiles
  /\ h.pc \notin Late \union {"directory"} =>
       g.pc \notin Late \union {"directory"} /\ h.work.extraDirs = g.work.extraDirs
  /\ h.pc \in {"subdirs", "attributes"} => h.work.copyFiles = {}

\* Less to do is still known.
LEMMA AdvanceKnows ==
  ASSUME Live, stack # <<>>, Steady, Ended' \subseteq Ended, NEW h, Advance(h),
         f.pc \notin Reading \union {"leave"}, h.pc \notin Reading \union {"leave"}, Shrinks(f, h)
  PROVE  KnowsInv' /\ LinkInv'
<1>1. StackInv /\ KnowsInv /\ LinkInv /\ WorkKnown(f, Base)
  BY LiveParts, TopIsKnown DEF CallKnows
<1>2. WorkKnown(h, Base)
  BY <1>1, WorkShrinks DEF Shrinks, Advance
<1>3. KnowsInv'
  BY <1>1, <1>2, ProcessKnows DEF Advance, Steady
<1>4. LinkInv'
  BY <1>1, TopLinks DEF Advance, Steady
<1>5. QED
  BY <1>3, <1>4

\* Some files of the current directory become as in the source.
LEMMA SyncedNow ==
  ASSUME NEW g, NEW h, NEW base, HereOf(g) \in Path, HereOf(h) = HereOf(g), NEW N \in SUBSET Names, NEW files,
         \A n \in Names : Append(HereOf(g), n) \in files =>
           ((h.pc \in Processing /\ Synced(h, base, n)) <=> (g.pc \in Processing /\ Synced(g, base, n)) \/ n \in N)
  PROVE  \A p \in files : Syncs(h, base, p) <=> Syncs(g, base, p) \/ p \in {Append(HereOf(g), n) : n \in N}
<1> SUFFICES ASSUME NEW p \in files
             PROVE  Syncs(h, base, p) <=> Syncs(g, base, p) \/ p \in {Append(HereOf(g), n) : n \in N}
  OBVIOUS
<1>1. ASSUME NEW n \in Names, p = Append(HereOf(g), n)
      PROVE  /\ Syncs(h, base, p) <=> h.pc \in Processing /\ Synced(h, base, n)
             /\ Syncs(g, base, p) <=> g.pc \in Processing /\ Synced(g, base, n)
             /\ p \in {Append(HereOf(g), m) : m \in N} <=> n \in N
  <2>1. \A m \in Names : p = Append(HereOf(g), m) => m = n
    BY <1>1, SameEntry
  <2>2. QED
    BY <1>1, <2>1 DEF Syncs
<1>2. CASE \E n \in Names : p = Append(HereOf(g), n)
  <2>1. PICK n \in Names : p = Append(HereOf(g), n)
    BY <1>2
  <2>2. (h.pc \in Processing /\ Synced(h, base, n)) <=> (g.pc \in Processing /\ Synced(g, base, n)) \/ n \in N
    BY <2>1
  <2>3. QED
    BY <2>1, <2>2, <1>1
<1>3. CASE ~\E n \in Names : p = Append(HereOf(g), n)
  BY <1>3 DEF Syncs
<1>4. QED
  BY <1>2, <1>3

\* What has been dealt with after a step in the current directory.
LEMMA AdvanceDone ==
  ASSUME Live, stack # <<>>, Steady, NEW h, Advance(h), f.pc \in Processing \union {"waitDst"}, f.index \in 1 .. Len(f.dirs),
         Ready(h, "inner", Base) = Ready(f, "inner", Base), f.pc \in Late => h.pc \in Late,
         NEW N \in SUBSET Names, \A n \in N : Append(HereOf(f), n) \in AllFiles,
         \A n \in Names : Append(HereOf(f), n) \in AllFiles =>
           ((h.pc \in Processing /\ Synced(h, Base, n)) <=> (f.pc \in Processing /\ Synced(f, Base, n)) \/ n \in N)
  PROVE  /\ ClosedDirs' = ClosedDirs
         /\ DoneDirs' = DoneDirs \union (IF h.pc \in Late THEN {HereOf(f)} \intersect AllDirs ELSE {})
         /\ DoneFiles' = DoneFiles \union {Append(HereOf(f), n) : n \in N}
<1>1. StackInv /\ f \in Frame
  BY LiveParts, Innermost
<1>2. HereOf(f) \in Path /\ HereOf(h) = HereOf(f)
  BY <1>1, DirType DEF Advance, HereOf, Dir
<1> DEFINE Y == IF h.pc \in Late THEN {HereOf(f)} \intersect AllDirs ELSE {}
           Z == {Append(HereOf(f), n) : n \in N}
<1>3. \A p : Closes(h, "inner", Base, p) <=> Closes(f, "inner", Base, p)
  BY SameCloses DEF Advance
<1>4. \A p \in AllDirs : ClosesDir(h, "inner", Base, p) <=> ClosesDir(f, "inner", Base, p) \/ p \in Y
  BY <1>2, <1>3 DEF ClosesDir
<1>5. \A p \in AllFiles : Syncs(h, Base, p) <=> Syncs(f, Base, p) \/ p \in Z
  BY <1>2, SyncedNow
<1> HIDE DEF Y, Z
<1>6. \A p \in AllFiles : ClosesFile(h, "inner", Base, p) <=> ClosesFile(f, "inner", Base, p) \/ p \in Z
  BY <1>3, <1>5 DEF ClosesFile
<1>7. Y \subseteq AllDirs /\ Z \subseteq AllFiles
  BY DEF Y, Z
<1>8. /\ h \in Frame /\ stack' = [stack EXCEPT ![Len(stack)] = h]
      /\ Base' = Base /\ AllDirs' = AllDirs /\ AllFiles' = AllFiles /\ Pending' = Pending
  BY DEF Advance, Steady
<1>9. ClosedDirs' = ClosedDirs
  <2> DEFINE X == {}
  <2>1. X \subseteq AllDirs /\ \A p \in AllDirs : Closes(h, "inner", Base, p) <=> Closes(f, "inner", Base, p) \/ p \in X
    BY <1>3
  <2> HIDE DEF X
  <2>2. ClosedDirs' = ClosedDirs \union X
    BY <2>1, <1>1, <1>8, ClosedGrow
  <2>3. QED
    BY <2>2 DEF X
<1>10. DoneDirs' = DoneDirs \union Y
  BY <1>1, <1>4, <1>7, <1>8, DirsGrow
<1>11. DoneFiles' = DoneFiles \union Z
  BY <1>1, <1>6, <1>7, <1>8, FilesGrow
<1>12. QED
  BY <1>9, <1>10, <1>11 DEF Y, Z

-----------------------------------------------------------------------------
(* While the directories are scanned. *)

\* Directories that come later are as they were.
LEMMA LaterIsOld ==
  ASSUME Live, stack # <<>>, NEW j \in 1 .. Len(f.dirs), j > f.index
  PROVE  /\ Dir(f, j) \in dst.dirs <=> Dir(f, j) \in before.dirs
         /\ Here(dst, Dir(f, j)) = Here(before, Dir(f, j))
<1>1. StackInv /\ KnowsInv /\ LinkInv /\ TodoInv /\ pc = "copy" /\ Progress /\ f \in Frame
  BY LiveParts, Innermost
<1> DEFINE q == Dir(f, j)
<1>2. q \in Path /\ Under(q, q)
  BY <1>1, DirType, UnderSelf
<1>3. CASE dryRun
  BY <1>1, <1>3 DEF Progress
<1>4. CASE ~dryRun
  <2>1. /\ \A p \in Region : p \notin DoneDirs => (p \in dst.dirs <=> p \in before.dirs)
        /\ \A p \in Region : p \notin DoneFiles => (p \in dst.files <=> p \in before.files)
    BY <1>1, <1>4 DEF Progress
  <2>2. q \in Region /\ q \notin DoneDirs
    BY <1>1, <1>2, LaterUntouched
  <2>3. ASSUME NEW n \in Names
        PROVE  /\ Append(q, n) \in dst.dirs <=> Append(q, n) \in before.dirs
               /\ Append(q, n) \in dst.files <=> Append(q, n) \in before.files
    <3> DEFINE p == Append(q, n)
    <3>1. p \in Path /\ Under(q, p) /\ p # q
      BY <1>2, AppendParts, UnderAppend
    <3> HIDE DEF p
    <3>2. p \in Region /\ p \notin DoneDirs /\ p \notin DoneFiles
      BY <3>1, <1>1, LaterUntouched
    <3>3. QED
      BY <2>1, <3>2 DEF p
  <2>4. QED
    BY <2>1, <2>2, <2>3 DEF Here
<1>5. QED
  BY <1>3, <1>4

\* Scanning deals with nothing.
LEMMA ScanningDone ==
  ASSUME Live, stack # <<>>, Steady, f.pc \notin Processing, ScanningStep
  PROVE  ClosedDirs' = ClosedDirs /\ DoneDirs' = DoneDirs /\ DoneFiles' = DoneFiles
<1>1. PICK h \in Frame : /\ stack' = [stack EXCEPT ![Len(stack)] = h]
                         /\ h.path = f.path /\ h.dirs = f.dirs /\ h.pc \notin Processing
                         /\ h.index = f.index \/ (f.index = 0 /\ h.index = 1)
  BY DEF ScanningStep
<1>2. StackInv /\ f \in Frame
  BY LiveParts, Innermost
<1>3. Ready(h, "inner", Base) = {} /\ Ready(f, "inner", Base) = {} /\ h.pc \notin Late /\ f.pc \notin Late
  BY <1>1, ReadyNames DEF Processing, Late
<1>4. \A j : Dir(h, j) = Dir(f, j)
  BY <1>1 DEF Dir
<1>5. \A j \in 1 .. Len(f.dirs) : j < h.index <=> j < f.index
  BY <1>1
<1>6. \A p : Closes(h, "inner", Base, p) <=> Closes(f, "inner", Base, p)
  BY <1>1, <1>3, <1>4, <1>5 DEF Closes
<1>7. \A p : ClosesDir(h, "inner", Base, p) <=> ClosesDir(f, "inner", Base, p)
  BY <1>3, <1>6 DEF ClosesDir
<1>8. \A p : ClosesFile(h, "inner", Base, p) <=> ClosesFile(f, "inner", Base, p)
  BY <1>1, <1>6 DEF ClosesFile, Syncs
<1>9. Base' = Base /\ AllDirs' = AllDirs /\ AllFiles' = AllFiles /\ Pending' = Pending
  BY DEF Steady
<1> DEFINE X == {}
<1>10. X \subseteq AllDirs /\ X \subseteq AllFiles /\ \A p : p \notin X
  OBVIOUS
<1> HIDE DEF X
<1>11. ClosedDirs' = ClosedDirs \union X
  BY <1>1, <1>2, <1>6, <1>9, <1>10, ClosedGrow
<1>12. DoneDirs' = DoneDirs \union X
  BY <1>1, <1>2, <1>7, <1>9, <1>10, DirsGrow
<1>13. DoneFiles' = DoneFiles \union X
  BY <1>1, <1>2, <1>8, <1>9, <1>10, FilesGrow
<1>14. QED
  BY <1>10, <1>11, <1>12, <1>13

\* Nothing is done, and nothing is there to be shown.
LEMMA NothingDone ==
  ASSUME Live, stack # <<>>, Steady, UNCHANGED <<trees, count>>,
         ClosedDirs' = ClosedDirs, DoneDirs' = DoneDirs, DoneFiles' = DoneFiles
  PROVE  Progress' /\ Tally'
<1>1. Progress /\ Tally /\ pc = "copy" /\ pc' = "copy"
  BY LiveParts DEF Steady
<1>2. UNCHANGED <<tree, fresh, before, dryRun, count>> /\ Region' = Region /\ dst' = dst
  BY DEF trees, Steady, dst
<1>3. Progress'
  BY <1>1, <1>2 DEF Progress
<1>4. Tally'
  BY <1>1, <1>2 DEF Tally
<1>5. QED
  BY <1>3, <1>4

\* The trees stay as they are.
LEMMA SoundStays ==
  ASSUME Live, ~thrown, stack # <<>>, UNCHANGED <<trees, backup, thrown>>,
         \A s \in Scanner : scanner'[s].state = "running" => scanner'[s].path \in tree[s].dirs
  PROVE  SoundInv'
<1>1. SoundInv /\ pc = "copy"
  BY LiveParts
<1>2. UNCHANGED <<tree, before, pc, thrown>> /\ dst' = dst
  BY DEF trees, backup, dst
<1>3. QED
  BY <1>1, <1>2 DEF SoundInv

\* All of it together.
LEMMA ScanningLive ==
  ASSUME Live, ~thrown, stack # <<>>, UNCHANGED <<trees, count, backup, thrown>>, f.pc \notin Processing,
         PipelineInv', KnowsInv', ScanningStep,
         \A s \in Scanner : scanner'[s].state = "running" => scanner'[s].path \in tree[s].dirs
  PROVE  Live'
<1>1. Steady
  BY SteadyTrees
<1>2. Progress' /\ Tally'
  BY <1>1, ScanningDone, NothingDone
<1>3. LinkInv'
  <2>1. PICK h \in Frame : stack' = [stack EXCEPT ![Len(stack)] = h] /\ h.path = f.path /\ h.dirs = f.dirs
    BY DEF ScanningStep
  <2>2. StackInv /\ LinkInv
    BY LiveParts
  <2>3. Base' = Base /\ group' = group
    BY <1>1 DEF Steady
  <2>4. QED
    BY <2>1, <2>2, <2>3, TopLinks
<1>4. SoundInv'
  BY SoundStays
<1>5. QED
  BY <1>1, <1>2, <1>3, <1>4 DEF Live, ProgressInv, Steady

\* Turn, Merge and OrderScan preserve the invariant.
LEMMA TurnLive ==
  ASSUME Live, ~thrown, Turn, PipelineInv'
  PROVE  Live'
<1>1. KnowsInv' /\ ScanningStep
  BY LiveParts, TurnKnows
<1>2. stack # <<>> /\ f.pc \notin Processing /\ UNCHANGED <<trees, count, backup, thrown>> /\ scanner' = scanner
  BY DEF Turn, at, UnchangedAround, Processing
<1>3. \A s \in Scanner : scanner'[s].state = "running" => scanner'[s].path \in tree[s].dirs
  BY <1>2, LiveParts DEF SoundInv
<1>4. QED
  BY <1>1, <1>2, <1>3, ScanningLive

LEMMA MergeLive ==
  ASSUME Live, ~thrown, Merge, PipelineInv'
  PROVE  Live'
<1>1. KnowsInv' /\ ScanningStep
  BY MergeKnows
<1>2. stack # <<>> /\ f.pc \notin Processing /\ UNCHANGED <<trees, count, backup, thrown>> /\ scanner' = scanner
  BY DEF Merge, at, UnchangedAround, Processing
<1>3. \A s \in Scanner : scanner'[s].state = "running" => scanner'[s].path \in tree[s].dirs
  BY <1>2, LiveParts DEF SoundInv
<1>4. QED
  BY <1>1, <1>2, <1>3, ScanningLive

LEMMA OrderScanLive ==
  ASSUME Live, ~thrown, NEW s \in Scanner, OrderScan(s), PipelineInv'
  PROVE  Live'
<1>1. KnowsInv' /\ ScanningStep
  BY LiveParts, OrderScanKnows
<1>2. /\ stack # <<>> /\ f.pc = Ordering(s) /\ f.pc \notin Processing
      /\ UNCHANGED <<trees, count, backup, thrown>>
  BY DEF OrderScan, at, UnchangedAround, Processing, Ordering, Scanner
<1>3. /\ StackInv /\ DataType /\ f \in Frame /\ CallOK(f) /\ SoundInv
      /\ f.index \in Nat /\ Len(f.dirs) \in Nat
  BY <1>2, LiveParts, Innermost, FrameParts
<1>4. f.index < Len(f.dirs) /\ f.index + 1 \in 1 .. Len(f.dirs)
  <2>1. f.index < Len(f.dirs)
    BY <1>2, <1>3 DEF CallOK, IndexOK
  <2>2. QED
    BY <2>1, <1>3
<1> DEFINE j == f.index + 1
<1>5. ASSUME s \in f.dirs[j].in PROVE Dir(f, j) \in tree[s].dirs
  <2>1. Dir(f, j) \in Base[s].dirs
    <3>1. Known(f, Base)
      BY <1>2, LiveParts, TopIsKnown DEF CallKnows
    <3>2. QED
      BY <3>1, <1>4, <1>5 DEF Known
  <2>2. CASE s = "dst"
    <3>1. Dir(f, j) \in before.dirs
      BY <2>1, <2>2, <1>3, BaseType
    <3>2. j > f.index /\ j \in 1 .. Len(f.dirs)
      BY <1>3, <1>4
    <3> HIDE DEF j
    <3>3. Dir(f, j) \in dst.dirs
      BY <3>1, <3>2, <1>2, LaterIsOld
    <3>4. QED
      BY <3>3, <2>2 DEF dst
  <2>3. CASE s # "dst"
    BY <2>1, <2>3, <1>3, BaseType DEF Scanner
  <2>4. QED
    BY <2>2, <2>3
<1>6. ASSUME NEW t \in Scanner, scanner'[t].state = "running" PROVE scanner'[t].path \in tree[t].dirs
  <2>1. CASE s \in f.dirs[j].in
    <3>1. scanner' = Order(s, Len(stack), ScanIndex, Append(f.path, f.dirs[j].name)) /\ scanner \in [Scanner -> Scan]
      BY <2>1, <1>3 DEF OrderScan, DataType
    <3>2. scanner'[s].path = Dir(f, j) /\ (t # s => scanner'[t] = scanner[t])
      BY <3>1 DEF Order, Dir
    <3>3. QED
      BY <3>2, <2>1, <1>3, <1>5, <1>6 DEF SoundInv
  <2>2. CASE s \notin f.dirs[j].in
    <3>1. scanner' = scanner
      BY <2>2 DEF OrderScan
    <3>2. QED
      BY <3>1, <1>3, <1>6 DEF SoundInv
  <2>3. QED
    BY <2>1, <2>2
<1>7. QED
  BY <1>1, <1>2, <1>6, ScanningLive

\* The slots change their roles: what has been scanned is read, and the slot
\* that has been read is empty.
LEMMA SwapKnows ==
  ASSUME NEW base, NEW g, g.index \in Nat, g.index <= Len(g.dirs), g.pc # "leave", Len(g.dirs) \in Nat,
         Known(g, base), ScanKnown(g, base, Scanner),
         NEW h, h.index = g.index + 1, h.dirs = g.dirs, h.path = g.path, h.pc = "turn",
         ReadSlot(h) = ScanSlot(g), ScanSlot(h).path = {}
  PROVE  CallKnows(h, base) /\ \A S : ScanKnown(h, base, S)
<1>1. \A i : Dir(h, i) = Dir(g, i)
  BY DEF Dir
<1>2. Known(h, base)
  BY <1>1 DEF Known
<1>3. ReadKnown(h, base)
  <2>1. h.index \in 1 .. Len(h.dirs) => g.index < Len(g.dirs)
    OBVIOUS
  <2>2. HereOf(h) = Dir(g, g.index + 1)
    BY <1>1 DEF HereOf
  <2>3. QED
    BY <2>1, <2>2 DEF ReadKnown, ScanKnown
<1>4. WorkKnown(h, base)
  BY DEF WorkKnown, Reading
<1>5. \A S : ScanKnown(h, base, S)
  BY DEF ScanKnown, ListsTrue
<1>6. QED
  BY <1>2, <1>3, <1>4, <1>5 DEF CallKnows

\* Lines 439-442 and 493-495: what all waits have in common.
LEMMA WaitedFor ==
  ASSUME Live, NEW s \in Scanner, WaitForScan(s), scanner[s].state # "exception"
  PROVE  /\ StackInv /\ DataType /\ stack # <<>> /\ f.pc = Waiting(s) /\ f.pc \notin Processing /\ f.pc \in Waits
         /\ f.pc \notin Reading \union {"leave"}
         /\ UNCHANGED <<trees, count, backup, thrown>> /\ stack' = [stack EXCEPT ![Len(stack)] = AfterWait(s)]
         /\ f \in Frame /\ CallOK(f) /\ f.index \in Nat /\ Len(f.dirs) \in Nat /\ f.index <= Len(f.dirs)
         /\ Ended' = Ended /\ Base' = Base
         /\ \A t \in Scanner : scanner'[t].state = "running" => scanner'[t].path \in tree[t].dirs
<1>1. StackInv /\ DataType /\ SoundInv /\ stack # <<>> /\ f.pc = Waiting(s) /\ scanner[s].state # "running"
  BY LiveParts DEF WaitForScan, at, Finished
<1>2. f \in Frame /\ CallOK(f) /\ f.index \in Nat /\ Len(f.dirs) \in Nat
  BY <1>1, Innermost, FrameParts
<1>3. \A t \in Scanner : scanner'[t] = IF t = s THEN Idle ELSE scanner[t]
  BY <1>1, Forgotten DEF WaitForScan
<1>4. UNCHANGED <<trees, count, backup, thrown>> /\ stack' = [stack EXCEPT ![Len(stack)] = AfterWait(s)]
  BY DEF WaitForScan, Top
<1>5. f.pc \notin Reading \union {"leave"} \union Processing /\ f.pc \in Waits
  BY <1>1 DEF Waiting, Reading, Scanner, Processing, Waits
<1>6. Ended' = Ended
  <2>1. scanner[s].state \in {"idle", "lists"}
    BY <1>1 DEF DataType, Scan
  <2>2. QED
    BY <2>1, <1>3 DEF Ended, Idle
<1>7. Base' = Base
  BY <1>4 DEF Base, trees
<1>8. \A t \in Scanner : scanner'[t].state = "running" => scanner'[t].path \in tree[t].dirs
  BY <1>1, <1>3 DEF SoundInv, Idle
<1>9. f.index <= Len(f.dirs)
  BY <1>1, <1>2 DEF CallOK, IndexOK
<1>10. QED
  BY <1>1, <1>2, <1>4, <1>5, <1>6, <1>7, <1>8, <1>9

\* The next wait.
LEMMA NextWaitLive ==
  ASSUME Live, ~thrown, NEW s \in Scanner, WaitForScan(s), scanner[s].state # "exception", s # "dst", PipelineInv'
  PROVE  Live'
<1>1. PICK p \in {"waitRef", "waitDst"} : AfterWait(s) = [f EXCEPT !.pc = p]
  BY DEF AfterWait, Scanner
<1> DEFINE h == [f EXCEPT !.pc = p]
<1>2. p \in FramePc /\ p \notin Reading \union {"leave"} /\ p \notin Processing \union Late \union {"directory"} /\ p \in Waits
  BY <1>1 DEF FramePc, Reading, Processing, Waits, Late
<1>3. /\ h \in Frame /\ h.pc = p /\ h.path = f.path
      /\ h.dirs = f.dirs /\ h.index = f.index /\ h.slot = f.slot /\ h.work = f.work
  BY <1>2, WaitedFor, GotoFrame
<1>4. stack' = [stack EXCEPT ![Len(stack)] = h]
  BY <1>1, WaitedFor
<1> HIDE DEF h
<1>5. KnowsInv /\ WorkKnown(f, Base) /\ stack # <<>> /\ StackInv
  BY WaitedFor, LiveParts, TopIsKnown DEF CallKnows
<1>6. f.pc \in Waits /\ f.pc \notin Reading \union {"leave"} /\ f.pc \notin Late \union {"directory"} /\ Ended' = Ended /\ Base' = Base
  BY WaitedFor DEF Waits, Late
<1>7. WorkKnown(h, Base)
  <2>1. h.pc \notin {"subdirs", "attributes"}
    BY <1>2, <1>3 DEF Processing
  <2>2. QED
    BY <2>1, <1>2, <1>3, <1>5, <1>6, WorkShrinks
<1>8. KnowsInv'
  BY <1>2, <1>3, <1>4, <1>5, <1>6, <1>7, ProcessKnows
<1>9. ScanningStep
  BY <1>2, <1>3, <1>4 DEF ScanningStep
<1>10. QED
  BY <1>8, <1>9, WaitedFor, ScanningLive

\* The first wait, before there is anything to read.
LEMMA FirstTurnLive ==
  ASSUME Live, ~thrown, WaitForScan("dst"), scanner["dst"].state # "exception", f.index = 0, PipelineInv'
  PROVE  Live'
<1>1. "dst" \in Scanner /\ "waitDst" = Waiting("dst")
  BY DEF Scanner, Waiting
<1>2. /\ StackInv /\ DataType /\ stack # <<>> /\ f.pc = "waitDst" /\ f.pc \notin Processing
      /\ UNCHANGED <<trees, count, backup, thrown>> /\ stack' = [stack EXCEPT ![Len(stack)] = AfterWait("dst")]
      /\ f \in Frame /\ CallOK(f) /\ f.index \in Nat /\ Len(f.dirs) \in Nat /\ f.index <= Len(f.dirs)
      /\ Ended' = Ended /\ Base' = Base
      /\ \A t \in Scanner : scanner'[t].state = "running" => scanner'[t].path \in tree[t].dirs
  BY <1>1, WaitedFor
<1> DEFINE h == [f EXCEPT !.index = 1, !.pc = "turn"]
<1>3. stack' = [stack EXCEPT ![Len(stack)] = h]
  BY <1>2 DEF AfterWait
<1>4. /\ h \in Frame /\ h.index = f.index + 1 /\ h.index = 1 /\ h.dirs = f.dirs /\ h.path = f.path
      /\ h.slot = f.slot /\ h.pc = "turn"
  <2>1. f \in Frame /\ "turn" \in FramePc /\ 1 \in Nat
    BY <1>2 DEF FramePc
  <2>2. /\ h \in Frame /\ h.index = 1 /\ h.dirs = f.dirs /\ h.path = f.path
        /\ h.slot = f.slot /\ h.pc = "turn"
    BY <2>1 DEF Frame
  <2> HIDE DEF h
  <2>3. QED
    BY <2>2
<1> HIDE DEF h
<1>5. ReadSlot(f) = EmptySlot
  BY <1>2 DEF CallOK, SlotsOK
<1>6. ReadSlot(h) = ScanSlot(f) /\ ScanSlot(h) = ReadSlot(f)
  <2>1. (f.index + 1 + 1) % 2 = f.index % 2
    BY <1>2, Parity
  <2>2. QED
    BY <2>1, <1>4 DEF ReadSlot, ScanSlot
<1>7. ScanSlot(h).path = {}
  BY <1>5, <1>6 DEF EmptySlot
<1>8. Ended = Scanner
  <2>1. MayScan(f.pc) = {"dst"}
    BY <1>2 DEF MayScan, Processing
  <2>2. \A t \in Scanner : t # "dst" => scanner[t].state = "idle"
    BY <2>1, <1>2, LiveParts DEF ScanInv
  <2>3. scanner["dst"].state \in {"idle", "lists"}
    BY <1>1, <1>2 DEF DataType, Scan, WaitForScan, Finished
  <2>4. QED
    BY <2>2, <2>3 DEF Ended
<1>9. KnowsInv /\ Known(f, Base) /\ ScanKnown(f, Base, Scanner) /\ f.pc # "leave"
  BY <1>2, <1>8, LiveParts, TopIsKnown DEF CallKnows
<1>10. CallKnows(h, Base) /\ \A S : ScanKnown(h, Base, S)
  BY <1>2, <1>4, <1>6, <1>7, <1>9, SwapKnows
<1>11. KnowsInv'
  BY <1>2, <1>3, <1>4, <1>9, <1>10, TopKnows
<1>12. ScanningStep
  BY <1>2, <1>3, <1>4 DEF ScanningStep, Processing
<1>13. QED
  BY <1>2, <1>11, <1>12, ScanningLive

\* From now on, the directory is worked on.
LEMMA StartLive ==
  ASSUME Live, ~thrown, WaitForScan("dst"), scanner["dst"].state # "exception", f.index # 0, PipelineInv'
  PROVE  Live'
<1>1. "dst" \in Scanner /\ "waitDst" = Waiting("dst")
  BY DEF Scanner, Waiting
<1>2. /\ StackInv /\ DataType /\ stack # <<>> /\ f.pc = "waitDst" /\ f.pc \notin Processing /\ f.pc \in Waits
      /\ f.pc \notin Reading \union {"leave"}
      /\ UNCHANGED <<trees, count, backup, thrown>> /\ stack' = [stack EXCEPT ![Len(stack)] = AfterWait("dst")]
      /\ f \in Frame /\ CallOK(f) /\ f.index \in Nat /\ Len(f.dirs) \in Nat /\ f.index <= Len(f.dirs)
      /\ Ended' = Ended /\ Base' = Base
      /\ \A t \in Scanner : scanner'[t].state = "running" => scanner'[t].path \in tree[t].dirs
  BY <1>1, WaitedFor
<1> DEFINE h == [f EXCEPT !.pc = "extraFiles"]
<1>3. stack' = [stack EXCEPT ![Len(stack)] = h]
  BY <1>2 DEF AfterWait
<1>4. /\ h \in Frame /\ h.pc = "extraFiles" /\ h.path = f.path
      /\ h.dirs = f.dirs /\ h.index = f.index /\ h.slot = f.slot /\ h.work = f.work
  <2>1. "extraFiles" \in FramePc
    BY DEF FramePc
  <2>2. QED
    BY <2>1, <1>2, GotoFrame
<1> HIDE DEF h
<1>5. Advance(h) /\ f.index \in 1 .. Len(f.dirs)
  <2>1. f.index \in 1 .. Len(f.dirs)
    BY <1>2
  <2>2. Advance(h)
    BY <1>3, <1>4 DEF Advance
  <2>3. QED
    BY <2>1, <2>2
<1>6. h.pc \notin Reading \union {"leave"} /\ h.pc \notin Late \union {"directory"} \union Waits /\ h.pc \in Processing
  BY <1>4 DEF Reading, Late, Waits, Processing
<1>7. Shrinks(f, h) /\ f.pc \notin Late \union {"directory"}
  BY <1>2, <1>4, <1>6 DEF Shrinks, Late
<1>8. Steady
  BY <1>2, SteadyTrees
<1>9. KnowsInv' /\ LinkInv'
  <2>1. Ended' \subseteq Ended
    BY <1>2
  <2>2. QED
    BY <2>1, <1>2, <1>5, <1>6, <1>7, <1>8, AdvanceKnows
<1>10. Ready(h, "inner", Base) = Ready(f, "inner", Base)
  BY <1>6, <1>7, ReadyNames
<1> DEFINE N == {}
<1>11. ASSUME NEW n \in Names, Append(HereOf(f), n) \in AllFiles PROVE ~Synced(h, Base, n)
  <2>1. WorkKnown(f, Base)
    BY <1>2, LiveParts, TopIsKnown DEF CallKnows
  <2>2. FilesKnown(f, Base, Here(Base["dst"], HereOf(f)), Here(Base["src"], HereOf(f)))
    BY <2>1, <1>2, <1>5 DEF WorkKnown
  <2>3. Here(Base["dst"], HereOf(f)).files \ Here(Base["src"], HereOf(f)).files \subseteq f.work.extraFiles
    BY <2>2, <1>2 DEF FilesKnown
  <2>4. HereOf(h) = HereOf(f)
    BY <1>4 DEF HereOf, Dir
  <2> DEFINE p == Append(HereOf(f), n)
  <2>5. CASE p \in Base["src"].files
    BY <2>4, <2>5, <1>6 DEF Synced
  <2>6. CASE p \notin Base["src"].files
    <3>1. p \in Base["dst"].files
      BY <2>6, <1>2, <1>11, BaseType DEF AllFiles
    <3>2. n \in Here(Base["dst"], HereOf(f)).files \ Here(Base["src"], HereOf(f)).files
      BY <3>1, <2>6 DEF Here
    <3>3. n \in h.work.extraFiles
      BY <3>2, <2>3, <1>4
    <3>4. QED
      BY <3>3, <2>4, <2>6 DEF Synced
  <2>7. QED
    BY <2>5, <2>6
<1>12. N \in SUBSET Names /\ \A n : n \notin N
  OBVIOUS
<1> HIDE DEF N
<1>13. /\ ClosedDirs' = ClosedDirs
       /\ DoneDirs' = DoneDirs \union (IF h.pc \in Late THEN {HereOf(f)} \intersect AllDirs ELSE {})
       /\ DoneFiles' = DoneFiles \union {Append(HereOf(f), n) : n \in N}
  <2>1. \A n \in Names : Append(HereOf(f), n) \in AllFiles =>
           ((h.pc \in Processing /\ Synced(h, Base, n)) <=> (f.pc \in Processing /\ Synced(f, Base, n)) \/ n \in N)
    BY <1>2, <1>11, <1>12
  <2>2. f.pc \in Processing \union {"waitDst"} /\ (f.pc \in Late => h.pc \in Late) /\ \A n \in N : Append(HereOf(f), n) \in AllFiles
    BY <1>2, <1>7, <1>12
  <2>3. QED
    BY <2>1, <2>2, <1>2, <1>5, <1>8, <1>10, <1>12, AdvanceDone
<1>14. DoneDirs' = DoneDirs /\ DoneFiles' = DoneFiles
  BY <1>6, <1>12, <1>13
<1>15. Progress' /\ Tally'
  BY <1>2, <1>8, <1>13, <1>14, NothingDone
<1>16. SoundInv'
  BY <1>2, SoundStays
<1>17. QED
  BY <1>8, <1>9, <1>15, <1>16 DEF Live, ProgressInv, Steady

\* Each scan that is waited for.
LEMMA WaitForScanLive ==
  ASSUME Live, ~thrown, NEW s \in Scanner, WaitForScan(s), scanner[s].state # "exception", PipelineInv'
  PROVE  Live'
<1>1. CASE s # "dst"
  BY <1>1, NextWaitLive
<1>2. CASE s = "dst" /\ f.index = 0
  BY <1>2, FirstTurnLive
<1>3. CASE s = "dst" /\ f.index # 0
  BY <1>3, StartLive
<1>4. QED
  BY <1>1, <1>2, <1>3

-----------------------------------------------------------------------------
(* Between the calls of CopyDirectories. *)

\* Outside CopyDirectories whole groups have been dealt with.
LEMMA NoCall ==
  ASSUME stack = <<>>
  PROVE  /\ DoneDirs = {p \in AllDirs : p[1] \notin Pending} /\ ClosedDirs = {p \in AllDirs : p[1] \notin Pending}
         /\ DoneFiles = {p \in AllFiles : p[1] \notin Pending}
         /\ (KnowsInv <=> TRUE) /\ (LinkInv <=> TRUE)
<1>1. Len(stack) = 0
  OBVIOUS
<1>2. KnowsInv /\ LinkInv
  BY <1>1 DEF KnowsInv, LinkInv
<1>3. QED
  BY <1>2 DEF DoneDirs, ClosedDirs, DoneFiles, DirDone, ClosedIn, FileDone

\* Nothing is written and nothing changes that is still to be done.
LEMMA BetweenLive ==
  ASSUME Live, ~thrown, stack = <<>>, stack' = <<>>, pc # "idle", pc' # "idle", UNCHANGED <<trees, count, thrown>>,
         PipelineInv', TodoInv', RootsKnown', Pending' = Pending,
         ~dryRun => (pc' \in {"waitSrc", "copy"} \/ (pc' = "group" /\ group' # {}) => <<>> \in dst.dirs),
         \A s \in Scanner : scanner'[s].state = "running" => scanner'[s].path \in tree[s].dirs
  PROVE  Live'
<1>1. DataType /\ SoundInv /\ Progress /\ Tally
  BY LiveParts
<1>2. UNCHANGED <<tree, fresh, before, dryRun, count, thrown>> /\ dst' = dst
  BY DEF trees, dst
<1>3. Region' = Region /\ AllDirs' = AllDirs /\ AllFiles' = AllFiles
  BY <1>1, <1>2, BaseStays DEF DataType
<1>4. SoundInv'
  BY <1>1, <1>2 DEF SoundInv
<1>5. /\ DoneDirs' = {p \in AllDirs' : p[1] \notin Pending'} /\ ClosedDirs' = {p \in AllDirs' : p[1] \notin Pending'}
      /\ DoneFiles' = {p \in AllFiles' : p[1] \notin Pending'}
      /\ KnowsInv' /\ LinkInv'
  <2>1. Len(stack') = 0
    OBVIOUS
  <2>2. KnowsInv' /\ LinkInv'
    BY <2>1 DEF KnowsInv, LinkInv
  <2>3. QED
    BY <2>2 DEF DoneDirs, ClosedDirs, DoneFiles, DirDone, ClosedIn, FileDone
<1>6. DoneDirs' = DoneDirs /\ ClosedDirs' = ClosedDirs /\ DoneFiles' = DoneFiles
  BY <1>3, <1>5, NoCall
<1>7. Progress'
  BY <1>1, <1>2, <1>3, <1>6 DEF Progress
<1>8. Tally'
  BY <1>1, <1>2, <1>6 DEF Tally
<1>9. QED
  BY <1>4, <1>5, <1>7, <1>8 DEF Live, ProgressInv

\* What is known of a root stays known.
LEMMA RootStays ==
  ASSUME NEW s, root'[s] = root[s], Base' = Base, Asked' = Asked, RootTrue(s)
  PROVE  RootTrue(s)'
BY DEF RootTrue

\* Before the first group nothing has changed.
LEMMA RootsAreOld ==
  ASSUME Live, stack = <<>>, NEW s \in {"ref", "dst"}, First(s) \/ pc = "roots"
  PROVE  \A n \in Asked : /\ n \in Here(tree[s], <<>>).dirs <=> n \in Here(Base[s], <<>>).dirs
                          /\ n \in Here(tree[s], <<>>).files <=> n \in Here(Base[s], <<>>).files
<1>1. DataType /\ Progress /\ TodoInv
  BY LiveParts
<1>2. CASE s = "ref"
  BY <1>1, <1>2, BaseType
<1>3. CASE s = "dst"
  <2>1. Pending = Asked
    BY <1>1 DEF First, TodoInv
  <2>2. DoneDirs = {} /\ DoneFiles = {}
    BY <2>1, NoCall DEF AllDirs, AllFiles, Region
  <2>3. tree[s] = dst /\ Base[s] = before
    BY <1>1, <1>3, BaseType DEF dst
  <2>4. ASSUME NEW n \in Asked
        PROVE  /\ Append(<<>>, n) \in dst.dirs <=> Append(<<>>, n) \in before.dirs
               /\ Append(<<>>, n) \in dst.files <=> Append(<<>>, n) \in before.files
    <3> DEFINE p == Append(<<>>, n)
    <3>1. n \in Names /\ <<>> \in Path
      BY EmptySeq DEF Asked, Here, Path
    <3>2. p \in Path /\ p # <<>> /\ p[1] = n
      BY <3>1, FirstOfAppend
    <3> HIDE DEF p
    <3>3. p \in Region
      BY <3>2 DEF Region
    <3>4. QED
      BY <3>3, <2>2, <1>1 DEF Progress, p
  <2>5. \A n \in Asked : n \in Names
    BY DEF Asked, Here
  <2>6. QED
    BY <2>3, <2>4, <2>5 DEF Here
<1>4. QED
  BY <1>2, <1>3

\* The scan of a root ends.
LEMMA CompleteRootLive ==
  ASSUME Live, ~thrown, NEW s \in Scanner, Complete(s), stack = <<>>, PipelineInv'
  PROVE  Live'
<1>1. /\ StackInv /\ ScanInv /\ RootInv /\ DataType /\ SoundInv /\ RootsKnown /\ TodoInv /\ Progress
      /\ scanner[s].state = "running" /\ UNCHANGED <<trees, count, pc, todo, group, thrown>>
  BY LiveParts DEF Complete
<1>2. scanner' = [scanner EXCEPT ![s].state = "lists"] /\ scanner \in [Scanner -> Scan] /\ root \in [Scanner -> Lists]
  BY <1>1 DEF Complete, DataType
<1>3. scanner[s].depth = 0 /\ scanner[s].path = <<>> /\ pc \notin {"idle", "roots"}
  BY <1>1 DEF RootInv, Free
<1>4. /\ stack' = stack /\ root' = [root EXCEPT ![s] = Filtered(s, Here(tree[s], <<>>))]
  BY <1>3 DEF Complete
<1>5. /\ scanner'[s].state = "lists" /\ \A t \in Scanner : t # s => scanner'[t] = scanner[t] /\ root'[t] = root[t]
      /\ root'[s] = Filtered(s, Here(tree[s], <<>>))
  BY <1>2, <1>4
<1>6. Base' = Base /\ Asked' = Asked
  BY <1>1 DEF Base, Asked, trees
<1>7. ASSUME s \in {"ref", "dst"}, First(s) PROVE RootTrue(s)'
  <2> DEFINE now == Here(tree[s], <<>>)
             old == Here(Base[s], <<>>)
  <2>1. root'[s] = [dirs |-> now.dirs \intersect Asked, files |-> now.files \intersect Asked]
    BY <1>5, <1>7 DEF Filtered
  <2>2. \A n \in Asked : (n \in now.dirs <=> n \in old.dirs) /\ (n \in now.files <=> n \in old.files)
    BY <1>7, RootsAreOld
  <2> HIDE DEF now
  <2>3. root'[s].dirs = old.dirs \intersect Asked /\ root'[s].files = old.files \intersect Asked
    BY <2>1, <2>2
  <2>4. QED
    BY <2>3, <1>6 DEF RootTrue
<1>8. ASSUME s \in {"ref", "dst"}, ~First(s), pc \in {"waitDst", "waitSrc", "copy"} \/ (pc = "group" /\ group # {})
      PROVE  FALSE
  BY <1>1, <1>8 DEF RootInv, First, Free
<1>9. RootsKnown'
  <2> SUFFICES ASSUME NEW t \in {"ref", "dst"}
      PROVE /\ First(t)' /\ Free(t)' => ~Exists(t)'
            /\ First(t)' /\ scanner'[t].state \in {"idle", "lists"} => RootTrue(t)'
            /\ ~First(t)' /\ (pc' \in {"waitDst", "waitSrc", "copy"} \/ (pc' = "group" /\ group' # {})) =>
                 RootTrue(t)' /\ (t = "dst" => root'[t].files = {})
    BY DEF RootsKnown
  <2>1. (First(t)' <=> First(t)) /\ (Exists(t)' <=> Exists(t)) /\ pc' = pc /\ group' = group /\ t \in Scanner
    BY <1>1 DEF First, Exists, trees, Scanner
  <2>2. CASE t = s
    BY <2>1, <2>2, <1>5, <1>7, <1>8 DEF Free
  <2>3. CASE t # s
    <3>1. scanner'[t] = scanner[t] /\ root'[t] = root[t]
      BY <2>1, <2>3, <1>5
    <3>2. RootTrue(t) => RootTrue(t)'
      BY <3>1, <1>6, RootStays
    <3>3. QED
      BY <2>1, <3>1, <3>2, <1>1 DEF RootsKnown, Free
  <2>4. QED
    BY <2>2, <2>3
<1>10. Pending' = Pending /\ TodoInv'
  BY <1>1, <1>6 DEF Pending, TodoInv
<1>11. ASSUME NEW t \in Scanner, scanner'[t].state = "running" PROVE scanner'[t].path \in tree[t].dirs
  BY <1>1, <1>5, <1>11 DEF SoundInv
<1>12. ~dryRun => (pc \in {"waitSrc", "copy"} \/ (pc = "group" /\ group # {}) => <<>> \in dst.dirs)
  BY <1>1 DEF Progress
<1>13. QED
  BY <1>1, <1>3, <1>4, <1>9, <1>10, <1>11, <1>12, BetweenLive

\* The scan of a directory ends.
LEMMA CompleteFrame ==
  ASSUME PipelineInv, NEW s \in Scanner, Complete(s), stack # <<>>
  PROVE  /\ f.index < Len(f.dirs) /\ f.index + 1 \in 1 .. Len(f.dirs) /\ f.pc \notin Processing
         /\ scanner[s].path = Dir(f, f.index + 1)
         /\ UNCHANGED <<trees, count, backup, thrown>>
         /\ scanner'[s].state = "lists" /\ \A t \in Scanner : t # s => scanner'[t] = scanner[t]
         /\ \E h \in Frame : /\ stack' = [stack EXCEPT ![Len(stack)] = h] /\ h.path = f.path /\ h.dirs = f.dirs
                             /\ h.index = f.index /\ h.pc = f.pc /\ h.work = f.work
                             /\ ReadSlot(h) = ReadSlot(f) /\ ScanSlot(h).path = ScanSlot(f).path
                             /\ \A t \in Scanner : ScanSlot(h).lists[t] =
                                  IF t = s THEN Here(tree[s], Dir(f, f.index + 1)) ELSE ScanSlot(f).lists[t]
<1>1. StackInv /\ ScanInv /\ DataType /\ scanner[s].state = "running" /\ UNCHANGED <<trees, count, thrown>>
  BY DEF PipelineInv, Complete
<1>2. scanner' = [scanner EXCEPT ![s].state = "lists"] /\ scanner \in [Scanner -> Scan]
  BY <1>1 DEF Complete, DataType
<1>3. /\ f \in Frame /\ CallOK(f) /\ ScanIndex \in {0, 1} /\ ReadIndex \in {0, 1} /\ ScanIndex # ReadIndex
      /\ ScanSlot(f) = f.slot[ScanIndex] /\ ReadSlot(f) = f.slot[ReadIndex]
      /\ f.index \in Nat /\ Len(f.dirs) \in Nat /\ f.slot \in [{0, 1} -> Slot]
      /\ Len(stack) \in Nat /\ Len(stack) > 0
  BY <1>1, Innermost, FrameParts DEF read
<1>4. /\ scanner[s].depth = Len(stack) /\ scanner[s].slot = ScanIndex /\ f.index < Len(f.dirs)
      /\ scanner[s].path = Append(f.path, f.dirs[f.index + 1].name) /\ s \in MayScan(f.pc)
  BY <1>1 DEF ScanInv
<1>5. f.pc \notin Processing
  BY <1>4 DEF MayScan, Processing
<1> DEFINE lists == Here(tree[s], scanner[s].path)
           h == [f EXCEPT !.slot[ScanIndex].lists[s] = lists]
           new == [f.slot[ScanIndex] EXCEPT !.lists[s] = lists]
<1>6. stack' = [stack EXCEPT ![Len(stack)] = h] /\ root' = root
  <2>1. stack' = [stack EXCEPT ![Len(stack)].slot[ScanIndex].lists[s] = lists] /\ root' = root
    BY <1>3, <1>4 DEF Complete
  <2>2. stack \in [1 .. Len(stack) -> Frame] /\ Len(stack) \in 1 .. Len(stack)
    BY <1>1, Innermost, <1>3
  <2> HIDE DEF lists
  <2>3. QED
    BY <2>1, <2>2 DEF f
<1>7. lists \in Lists
  BY HereType
<1>8. /\ new \in Slot /\ new.path = f.slot[ScanIndex].path
      /\ \A t \in Scanner : new.lists[t] = IF t = s THEN lists ELSE f.slot[ScanIndex].lists[t]
  <2>1. f.slot[ScanIndex] \in Slot
    BY <1>3
  <2> HIDE DEF lists
  <2>2. QED
    BY <2>1, <1>7 DEF Slot
<1>9. h = [f EXCEPT !.slot = [f.slot EXCEPT ![ScanIndex] = new]]
  BY <1>3 DEF Frame
<1> HIDE DEF new, h
<1>10. /\ h \in Frame /\ h.path = f.path /\ h.dirs = f.dirs
       /\ h.index = f.index /\ h.pc = f.pc /\ h.work = f.work
       /\ h.slot = [f.slot EXCEPT ![ScanIndex] = new]
  BY <1>3, <1>8, <1>9 DEF Frame
<1>11. ScanSlot(h) = new /\ ReadSlot(h) = ReadSlot(f)
  BY <1>3, <1>10 DEF ScanSlot, ReadSlot, ScanIndex, ReadIndex
<1>12. scanner[s].path = Dir(f, f.index + 1) /\ f.index + 1 \in 1 .. Len(f.dirs)
  BY <1>3, <1>4 DEF Dir
<1>13. UNCHANGED backup
  BY <1>6 DEF Complete, backup
<1>14. scanner'[s].state = "lists" /\ \A t \in Scanner : t # s => scanner'[t] = scanner[t]
  BY <1>2
<1>15. \A t \in Scanner : ScanSlot(h).lists[t] =
                                  IF t = s THEN Here(tree[s], Dir(f, f.index + 1)) ELSE ScanSlot(f).lists[t]
  BY <1>3, <1>8, <1>11, <1>12
<1>16. ScanSlot(h).path = ScanSlot(f).path
  BY <1>3, <1>8, <1>11
<1>17. /\ f.index < Len(f.dirs) /\ f.index + 1 \in 1 .. Len(f.dirs) /\ f.pc \notin Processing
         /\ scanner[s].path = Dir(f, f.index + 1)
         /\ UNCHANGED <<trees, count, backup, thrown>>
  BY <1>1, <1>4, <1>5, <1>12, <1>13
<1>18. \E k \in Frame : /\ stack' = [stack EXCEPT ![Len(stack)] = k] /\ k.path = f.path /\ k.dirs = f.dirs
                             /\ k.index = f.index /\ k.pc = f.pc /\ k.work = f.work
                             /\ ReadSlot(k) = ReadSlot(f) /\ ScanSlot(k).path = ScanSlot(f).path
                             /\ \A t \in Scanner : ScanSlot(k).lists[t] =
                                  IF t = s THEN Here(tree[s], Dir(f, f.index + 1)) ELSE ScanSlot(f).lists[t]
  BY <1>6, <1>10, <1>11, <1>15, <1>16
<1>19. QED
  BY <1>14, <1>17, <1>18

\* Its lists are true, since nothing has been written there.
LEMMA CompleteCallLive ==
  ASSUME Live, ~thrown, NEW s \in Scanner, Complete(s), stack # <<>>, PipelineInv'
  PROVE  Live'
<1>1. /\ f.index < Len(f.dirs) /\ f.index + 1 \in 1 .. Len(f.dirs) /\ f.pc \notin Processing
      /\ UNCHANGED <<trees, count, backup, thrown>>
      /\ scanner'[s].state = "lists" /\ \A t \in Scanner : t # s => scanner'[t] = scanner[t]
  BY LiveParts, CompleteFrame
<1>2. PICK h \in Frame : /\ stack' = [stack EXCEPT ![Len(stack)] = h] /\ h.path = f.path /\ h.dirs = f.dirs
                             /\ h.index = f.index /\ h.pc = f.pc /\ h.work = f.work
                             /\ ReadSlot(h) = ReadSlot(f) /\ ScanSlot(h).path = ScanSlot(f).path
                             /\ \A t \in Scanner : ScanSlot(h).lists[t] =
                                  IF t = s THEN Here(tree[s], Dir(f, f.index + 1)) ELSE ScanSlot(f).lists[t]
  BY LiveParts, CompleteFrame
<1>3. /\ StackInv /\ DataType /\ SoundInv /\ KnowsInv /\ CallKnows(f, Base) /\ ScanKnown(f, Base, Ended)
      /\ (f.pc = "leave" => f.index = Len(f.dirs) + 1)
  BY LiveParts, TopIsKnown DEF KnowsInv
<1>4. \A i : Dir(h, i) = Dir(f, i)
  BY <1>2 DEF Dir
<1>5. CallKnows(h, Base)
  <2>1. HereOf(h) = HereOf(f)
    BY <1>2, <1>4 DEF HereOf
  <2>2. Known(h, Base)
    BY <1>2, <1>3, <1>4 DEF CallKnows, Known
  <2>3. ReadKnown(h, Base)
    BY <1>2, <1>3, <2>1 DEF CallKnows, ReadKnown
  <2>4. WorkKnown(h, Base)
    BY <1>2, <1>3, <2>1 DEF CallKnows, WorkKnown, FilesKnown, DirsKnown
  <2>5. QED
    BY <2>2, <2>3, <2>4 DEF CallKnows
<1> DEFINE p == Dir(f, f.index + 1)
<1>6. Here(tree[s], p) = Here(Base[s], p)
  <2>1. CASE s = "dst"
    <3> DEFINE j == f.index + 1
    <3>1. j \in 1 .. Len(f.dirs) /\ j > f.index
      <4>1. f.index \in Nat
        BY <1>3, Innermost, FrameParts
      <4>2. QED
        BY <4>1, <1>1
    <3> HIDE DEF j
    <3>2. Here(dst, Dir(f, j)) = Here(before, Dir(f, j))
      BY <3>1, LaterIsOld
    <3>3. QED
      BY <3>2, <2>1, <1>3, BaseType DEF j, dst
  <2>2. CASE s # "dst"
    BY <2>2, <1>3, BaseType DEF Scanner
  <2>3. QED
    BY <2>1, <2>2
<1>7. ScanKnown(h, Base, Ended')
  <2> SUFFICES ASSUME NEW t \in ScanSlot(h).path \intersect Ended', h.pc # "leave"
               PROVE  ScanSlot(h).lists[t] = Here(Base[t], Dir(h, h.index + 1))
    BY DEF ScanKnown, ListsTrue
  <2>1. t \in Scanner /\ Dir(h, h.index + 1) = p
    BY <1>2, <1>4 DEF Ended
  <2>2. CASE t = s
    BY <2>1, <2>2, <1>2, <1>6
  <2>3. CASE t # s
    <3>1. t \in Ended /\ t \in ScanSlot(f).path
      BY <2>1, <2>3, <1>1, <1>2 DEF Ended
    <3>2. ScanSlot(f).lists[t] = Here(Base[t], p)
      BY <3>1, <1>1, <1>2, <1>3 DEF ScanKnown, ListsTrue
    <3>3. QED
      BY <3>2, <2>1, <2>3, <1>2
  <2>4. QED
    BY <2>2, <2>3
<1>8. Base' = Base
  BY <1>1 DEF Base, trees
<1>9. KnowsInv'
  BY <1>2, <1>3, <1>5, <1>7, <1>8, TopKnows
<1>10. ScanningStep
  BY <1>1, <1>2 DEF ScanningStep
<1>11. \A t \in Scanner : scanner'[t].state = "running" => scanner'[t].path \in tree[t].dirs
  BY <1>1, <1>3 DEF SoundInv
<1>12. QED
  BY <1>1, <1>9, <1>10, <1>11, ScanningLive

\* A scan fails; nobody has seen it.
LEMMA FailScanLive ==
  ASSUME Live, ~thrown, NEW s \in Scanner, FailScan(s), PipelineInv'
  PROVE  Live'
<1>1. /\ UNCHANGED <<trees, count, backup, stack, thrown>> /\ scanner[s].state = "running" /\ scanner \in [Scanner -> Scan]
      /\ SoundInv /\ KnowsInv /\ RootInv /\ StackInv /\ ScanInv /\ DataType /\ RootsKnown /\ TodoInv /\ LinkInv
      /\ Progress /\ Tally /\ pc # "idle"
  <2>1. RootInv /\ DataType /\ scanner[s].state = "running"
    BY LiveParts DEF FailScan
  <2>2. pc # "idle"
    BY <2>1 DEF RootInv, Free
  <2>3. QED
    BY <2>1, <2>2, LiveParts DEF FailScan, DataType
<1>2. scanner'[s].state = "exception" /\ \A t \in Scanner : t # s => scanner'[t] = scanner[t]
  BY <1>1 DEF FailScan
<1>3. /\ Ended' \subseteq Ended
      /\ \A t \in Scanner : Free(t)' => Free(t)
      /\ \A t \in Scanner : scanner'[t].state \in {"idle", "lists"} => scanner[t].state \in {"idle", "lists"}
  BY <1>1, <1>2 DEF Ended, Free
<1>4. /\ Base' = Base /\ Asked' = Asked /\ Region' = Region /\ AllDirs' = AllDirs /\ AllFiles' = AllFiles
      /\ UNCHANGED <<tree, fresh, before, dryRun, pc, todo, group, root, stack, thrown, count>> /\ dst' = dst
  <2>1. UNCHANGED <<tree, fresh, before, dryRun, pc, todo, group, root, stack, thrown, count>>
    BY <1>1 DEF trees, backup
  <2>2. Base' = Base /\ Asked' = Asked /\ dst' = dst
    BY <2>1 DEF Base, Asked, dst
  <2>3. QED
    BY <2>1, <2>2 DEF Region, AllDirs, AllFiles
<1>5. f' = f /\ Pending' = Pending
  BY <1>4 DEF f, Pending
<1>6. KnowsInv'
  <2>1. \A S, T, g : T \subseteq S /\ ScanKnown(g, Base, S) => ScanKnown(g, Base, T)
    BY DEF ScanKnown, ListsTrue
  <2>2. stack # <<>> => ScanKnown(f, Base, Ended')
    BY <2>1, <1>1, <1>3 DEF KnowsInv
  <2>3. QED
    BY <2>2, <1>1, <1>4, <1>5 DEF KnowsInv
<1>7. LinkInv'
  BY <1>1, <1>4 DEF LinkInv
<1>8. RootsKnown'
  <2> SUFFICES ASSUME NEW t \in {"ref", "dst"}
      PROVE /\ First(t)' /\ Free(t)' => ~Exists(t)'
            /\ First(t)' /\ scanner'[t].state \in {"idle", "lists"} => RootTrue(t)'
            /\ ~First(t)' /\ (pc' \in {"waitDst", "waitSrc", "copy"} \/ (pc' = "group" /\ group' # {})) =>
                 RootTrue(t)' /\ (t = "dst" => root'[t].files = {})
    BY DEF RootsKnown
  <2>1. (First(t)' <=> First(t)) /\ (Exists(t)' <=> Exists(t)) /\ t \in Scanner /\ (RootTrue(t)' <=> RootTrue(t))
    BY <1>4 DEF First, Exists, Scanner, RootTrue
  <2>2. QED
    BY <2>1, <1>1, <1>3, <1>4 DEF RootsKnown
<1>9. TodoInv'
  BY <1>1, <1>4, <1>5 DEF TodoInv
<1>10. ClosedDirs' = ClosedDirs /\ DoneDirs' = DoneDirs /\ DoneFiles' = DoneFiles
  BY <1>4, <1>5 DEF ClosedDirs, DoneDirs, DoneFiles, ClosedIn, DirDone, FileDone
<1>11. Progress'
  BY <1>1, <1>4, <1>10 DEF Progress
<1>12. Tally'
  BY <1>1, <1>4, <1>10 DEF Tally
<1>13. SoundInv'
  <2>1. \A t \in Scanner : scanner'[t].state = "running" => scanner'[t].path \in tree[t].dirs
    BY <1>1, <1>2 DEF SoundInv
  <2>2. QED
    BY <2>1, <1>1, <1>4, <1>5 DEF SoundInv
<1>14. QED
  BY <1>6, <1>7, <1>8, <1>9, <1>11, <1>12, <1>13 DEF Live, ProgressInv

-----------------------------------------------------------------------------
(* Steps that change the backup. *)

\* What has been dealt with becomes more.
Adds(X, Y, Z) == ClosedDirs' = ClosedDirs \union X /\ DoneDirs' = DoneDirs \union Y /\ DoneFiles' = DoneFiles \union Z

\* What is written is what is added, and nothing is touched that has been done.
Fits(dirs, files, done, touched, X, Y, Z) ==
  /\ \A p \in Region : p \in dirs <=> IF p \in Y THEN p \in tree["src"].dirs ELSE p \in dst.dirs
  /\ \A p \in Region : p \in files <=> IF p \in Z THEN p \in tree["src"].files ELSE p \in dst.files
  /\ <<>> \in dirs
  /\ X \intersect tree["src"].dirs \subseteq done /\ X \subseteq DoneDirs \union Y
  /\ touched \intersect (ClosedDirs \union X) = {}
  /\ touched \intersect (DoneFiles \union Z) \intersect tree["src"].files = {}
  /\ Z \intersect tree["src"].files \subseteq done
  /\ \A p \in X \union Y \union Z : p \in Region

\* A directory done with all that is below it is done.
LEMMA ClosedAreDone ==
  ClosedDirs \subseteq DoneDirs /\ DoneDirs \subseteq Region /\ DoneFiles \subseteq Region
<1>1. \A p : ClosedIn(p) => DirDone(p)
  BY DEF ClosedIn, DirDone, ClosesDir
<1>2. QED
  BY <1>1 DEF ClosedDirs, DoneDirs, DoneFiles, AllDirs, AllFiles

\* What is written is what has been dealt with.
LEMMA WriteProgress ==
  ASSUME Live, stack # <<>>, Steady, NEW dirs \in SUBSET Path, NEW files \in SUBSET Path, NEW done, NEW touched,
         Write(dirs, files, done, touched),
         NEW X, NEW Y, NEW Z, Adds(X, Y, Z), ~dryRun => Fits(dirs, files, done, touched, X, Y, Z)
  PROVE  Progress'
<1>1. DataType /\ Progress /\ pc = "copy" /\ pc' = "copy" /\ Region' = Region
  BY LiveParts DEF Steady
<1>2. /\ tree'["src"] = tree["src"] /\ before' = before /\ dryRun' = dryRun
      /\ IF dryRun THEN dst' = dst ELSE dst' = [dirs |-> dirs, files |-> files]
  BY <1>1, WriteTypes
<1>3. CASE dryRun
  BY <1>1, <1>2, <1>3 DEF Progress
<1>4. CASE ~dryRun
  <2>1. dst'.dirs = dirs /\ dst'.files = files
    BY <1>2, <1>4
  <2>2. fresh' = ((fresh \union done) \ touched) \intersect (dirs \union files)
    BY <1>4 DEF Write
  <2>3. ASSUME NEW p \in Region PROVE p \in dirs <=> IF p \in DoneDirs \union Y THEN p \in tree["src"].dirs ELSE p \in before.dirs
    BY <2>3, <1>1, <1>4 DEF Progress, Fits
  <2>4. ASSUME NEW p \in Region PROVE p \in files <=> IF p \in DoneFiles \union Z THEN p \in tree["src"].files ELSE p \in before.files
    BY <2>4, <1>1, <1>4 DEF Progress, Fits
  <2>5. (ClosedDirs \union X) \intersect tree["src"].dirs \subseteq fresh'
    <3> SUFFICES ASSUME NEW p \in ClosedDirs \union X, p \in tree["src"].dirs PROVE p \in fresh'
      OBVIOUS
    <3>1. p \in DoneDirs \union Y /\ p \in Region
      BY <1>4, ClosedAreDone DEF Fits
    <3>2. p \in dirs
      BY <3>1, <2>3
    <3>3. p \in fresh \union done /\ p \notin touched
      BY <1>1, <1>4 DEF Progress, Fits
    <3>4. QED
      BY <3>2, <3>3, <2>2
  <2>6. (DoneFiles \union Z) \intersect tree["src"].files \subseteq fresh'
    <3> SUFFICES ASSUME NEW p \in DoneFiles \union Z, p \in tree["src"].files PROVE p \in fresh'
      OBVIOUS
    <3>1. p \in Region
      BY <1>4, ClosedAreDone DEF Fits
    <3>2. p \in files
      BY <3>1, <2>4
    <3>3. p \in fresh \union done /\ p \notin touched
      BY <1>1, <1>4 DEF Progress, Fits
    <3>4. QED
      BY <3>2, <3>3, <2>2
  <2>7. <<>> \in dirs
    BY <1>4 DEF Fits
  <2>8. ClosedDirs' = ClosedDirs \union X /\ DoneDirs' = DoneDirs \union Y /\ DoneFiles' = DoneFiles \union Z
    BY DEF Adds
  <2>9. QED
    BY <2>1, <2>3, <2>4, <2>5, <2>6, <2>7, <2>8, <1>1, <1>2, <1>4 DEF Progress
<1>5. QED
  BY <1>3, <1>4

Becomes(p, old, new) == IF p \notin old THEN "added" ELSE IF p \in new THEN "kept" ELSE "removed"

More(c, what) == [c EXCEPT ![what] = @ + 1]

\* One more is counted,
LEMMA CountsGrow ==
  ASSUME NEW done, IsFiniteSet(done), NEW p, p \notin done, NEW old, NEW new, p \in old \union new
  PROVE  /\ Counts(done \union {p}, old, new) = More(Counts(done, old, new), Becomes(p, old, new))
         /\ IsFiniteSet(done \union {p})
<1>1. IsFiniteSet(done \ old) /\ IsFiniteSet(done \intersect old \intersect new) /\ IsFiniteSet(done \ new)
  BY FS_Subset
<1>2. IsFiniteSet(done \union {p})
  BY FS_AddElement
<1>3. CASE p \notin old
  <2>1. /\ (done \union {p}) \ old = (done \ old) \union {p} /\ p \notin done \ old
        /\ (done \union {p}) \intersect old \intersect new = done \intersect old \intersect new
        /\ (done \union {p}) \ new = done \ new
    BY <1>3
  <2>2. Cardinality((done \ old) \union {p}) = Cardinality(done \ old) + 1
    BY <2>1, <1>1, FS_AddElement
  <2>3. Becomes(p, old, new) = "added"
    BY <1>3 DEF Becomes
  <2>4. QED
    BY <2>1, <2>2, <2>3, <1>2 DEF Counts, More
<1>4. CASE p \in old /\ p \in new
  <2>1. /\ (done \union {p}) \ old = done \ old /\ p \notin done \intersect old \intersect new
        /\ (done \union {p}) \intersect old \intersect new = (done \intersect old \intersect new) \union {p}
        /\ (done \union {p}) \ new = done \ new
    BY <1>4
  <2>2. Cardinality((done \intersect old \intersect new) \union {p}) = Cardinality(done \intersect old \intersect new) + 1
    BY <2>1, <1>1, FS_AddElement
  <2>3. Becomes(p, old, new) = "kept"
    BY <1>4 DEF Becomes
  <2>4. QED
    BY <2>1, <2>2, <2>3, <1>2 DEF Counts, More
<1>5. CASE p \in old /\ p \notin new
  <2>1. /\ (done \union {p}) \ old = done \ old
        /\ (done \union {p}) \intersect old \intersect new = done \intersect old \intersect new
        /\ (done \union {p}) \ new = (done \ new) \union {p} /\ p \notin done \ new
    BY <1>5
  <2>2. Cardinality((done \ new) \union {p}) = Cardinality(done \ new) + 1
    BY <2>1, <1>1, FS_AddElement
  <2>3. Becomes(p, old, new) = "removed"
    BY <1>5 DEF Becomes
  <2>4. QED
    BY <2>1, <2>2, <2>3, <1>2 DEF Counts, More
<1>6. QED
  BY <1>3, <1>4, <1>5

\* a directory
LEMMA TallyDir ==
  ASSUME Tally, NEW p \in AllDirs, p \notin DoneDirs, DoneDirs' = DoneDirs \union {p}, DoneFiles' = DoneFiles,
         before' = before, tree'["src"] = tree["src"],
         Event("dirs", Becomes(p, before.dirs, tree["src"].dirs))
  PROVE  Tally'
<1>1. IsFiniteSet(DoneDirs) /\ IsFiniteSet(DoneFiles)
  BY DEF Tally
<1>2. p \in before.dirs \union tree["src"].dirs
  BY DEF AllDirs
<1>3. /\ Counts(DoneDirs \union {p}, before.dirs, tree["src"].dirs) =
           More(Counts(DoneDirs, before.dirs, tree["src"].dirs), Becomes(p, before.dirs, tree["src"].dirs))
      /\ IsFiniteSet(DoneDirs \union {p})
  BY <1>1, <1>2, CountsGrow
<1> DEFINE what == Becomes(p, before.dirs, tree["src"].dirs)
           c == Counts(DoneDirs, before.dirs, tree["src"].dirs)
           d == Counts(DoneFiles, before.files, tree["src"].files)
<1>4. count = [dirs |-> c, files |-> d]
  BY DEF Tally
<1>5. count' = [count EXCEPT !["dirs"][what] = @ + 1]
  BY DEF Event
<1> HIDE DEF what, c, d
<1>6. count' = [dirs |-> More(c, what), files |-> d]
  BY <1>4, <1>5 DEF More
<1>7. count' = [dirs  |-> Counts(DoneDirs \union {p}, before.dirs, tree["src"].dirs),
                files |-> Counts(DoneFiles, before.files, tree["src"].files)]
  BY <1>3, <1>6 DEF what, c, d
<1>8. QED
  BY <1>1, <1>3, <1>7 DEF Tally

\* or a file.
LEMMA TallyFile ==
  ASSUME Tally, NEW p \in AllFiles, p \notin DoneFiles, DoneFiles' = DoneFiles \union {p}, DoneDirs' = DoneDirs,
         before' = before, tree'["src"] = tree["src"],
         Event("files", Becomes(p, before.files, tree["src"].files))
  PROVE  Tally'
<1>1. IsFiniteSet(DoneDirs) /\ IsFiniteSet(DoneFiles)
  BY DEF Tally
<1>2. p \in before.files \union tree["src"].files
  BY DEF AllFiles
<1>3. /\ Counts(DoneFiles \union {p}, before.files, tree["src"].files) =
           More(Counts(DoneFiles, before.files, tree["src"].files), Becomes(p, before.files, tree["src"].files))
      /\ IsFiniteSet(DoneFiles \union {p})
  BY <1>1, <1>2, CountsGrow
<1> DEFINE what == Becomes(p, before.files, tree["src"].files)
           c == Counts(DoneDirs, before.dirs, tree["src"].dirs)
           d == Counts(DoneFiles, before.files, tree["src"].files)
<1>4. count = [dirs |-> c, files |-> d]
  BY DEF Tally
<1>5. count' = [count EXCEPT !["files"][what] = @ + 1]
  BY DEF Event
<1> HIDE DEF what, c, d
<1>6. count' = [dirs |-> c, files |-> More(d, what)]
  BY <1>4, <1>5 DEF More
<1>7. count' = [dirs  |-> Counts(DoneDirs, before.dirs, tree["src"].dirs),
                files |-> Counts(DoneFiles \union {p}, before.files, tree["src"].files)]
  BY <1>3, <1>6 DEF what, c, d
<1>8. QED
  BY <1>1, <1>3, <1>7 DEF Tally

\* Nothing to be counted.
LEMMA TallySame ==
  ASSUME Tally, DoneFiles' = DoneFiles, DoneDirs' = DoneDirs, before' = before, tree'["src"] = tree["src"], count' = count
  PROVE  Tally'
BY DEF Tally

\* The file system's tree stays one.
LEMMA WriteSound ==
  ASSUME Live, stack # <<>>, f.pc \in Processing, scanner' = scanner, UNCHANGED backup, stack' # <<>>,
         NEW dirs \in SUBSET Path, NEW files \in SUBSET Path, NEW done, NEW touched,
         Write(dirs, files, done, touched),
         ~dryRun => WellFormed([dirs |-> dirs, files |-> files]),
         thrown' => f'.pc = "leave"
  PROVE  SoundInv'
<1>1. DataType /\ SoundInv /\ ScanInv /\ pc = "copy" /\ pc' = "copy"
  BY LiveParts DEF backup
<1>2. /\ tree'["src"] = tree["src"] /\ before' = before /\ dryRun' = dryRun
      /\ IF dryRun THEN dst' = dst ELSE dst' = [dirs |-> dirs, files |-> files]
  BY <1>1, WriteTypes
<1>3. \A s \in Scanner : scanner'[s].state # "running"
  BY <1>1, Quiet DEF Free
<1>4. WellFormed(dst')
  BY <1>1, <1>2 DEF SoundInv
<1>5. QED
  BY <1>1, <1>2, <1>3, <1>4 DEF SoundInv, WellFormed

\* The directory that is worked on, and the one it is in, are still open.
LEMMA Open ==
  ASSUME Live, stack # <<>>, f.pc \in Processing
  PROVE  /\ f.index \in 1 .. Len(f.dirs) /\ here = HereOf(f) /\ here = Dir(f, f.index) /\ here \in Path /\ here \in Region
         /\ here \in AllDirs /\ f \in Frame /\ f.path \in Path
         /\ match = f.dirs[f.index] /\ match.name \in Names /\ here = Append(f.path, match.name)
         /\ \A n : inner(n) = Append(HereOf(f), n)
         /\ here \notin ClosedDirs /\ f.path \notin ClosedDirs
         /\ "src" \in match.in <=> here \in tree["src"].dirs
         /\ "dst" \in match.in <=> here \in before.dirs
<1>1. /\ StackInv /\ KnowsInv /\ LinkInv /\ TodoInv /\ DataType /\ pc = "copy" /\ f \in Frame /\ CallOK(f) /\ Known(f, Base)
  BY LiveParts, Innermost, TopIsKnown DEF CallKnows
<1>2. f.index \in 1 .. Len(f.dirs) /\ match = f.dirs[f.index]
  BY <1>1, ReadIsCurrent
<1>3. /\ HereOf(f) = Dir(f, f.index) /\ Dir(f, f.index) \in Path /\ f.path \in Path /\ match.name \in Names
      /\ Dir(f, f.index) = Append(f.path, match.name)
  BY <1>1, <1>2, DirType DEF HereOf
<1>4. here = HereOf(f) /\ \A n : inner(n) = Append(HereOf(f), n)
  BY <1>3 DEF here, inner
<1>5. HereOf(f) \in Region /\ HereOf(f) \notin ClosedDirs
  BY <1>1, <1>2, HereStatus
<1>6. /\ "src" \in match.in <=> HereOf(f) \in Base["src"].dirs
      /\ "dst" \in match.in <=> HereOf(f) \in Base["dst"].dirs
      /\ HereOf(f) \in Base["src"].dirs \union Base["dst"].dirs
  BY <1>1, <1>2, <1>3 DEF Known
<1>7. HereOf(f) \in AllDirs
  BY <1>1, <1>5, <1>6, BaseType DEF AllDirs
<1>8. f.path \notin ClosedDirs
  <2>1. CASE f.path = <<>>
    BY <2>1 DEF ClosedDirs, AllDirs, Region
  <2>2. CASE f.path # <<>>
    <3>1. HereOf(f)[1] \in Pending /\ ~ClosedIn(HereOf(f))
      BY <1>5, <1>7 DEF ClosedDirs
    <3>2. HereOf(f)[1] = f.path[1] /\ Under(f.path, HereOf(f))
      BY <2>2, <1>3, FirstOfAppend, UnderAppend
    <3>3. ASSUME NEW g \in Frame, g.index \in Nat, NEW role, Closes(g, role, Base, f.path), g.index \in 1 .. Len(g.dirs) + 1,
                 Ready(g, role, Base) # {} => g.index \in 1 .. Len(g.dirs)
          PROVE  Closes(g, role, Base, HereOf(f))
      <4>1. ASSUME NEW j \in 1 .. Len(g.dirs), Under(Dir(g, j), f.path) PROVE Under(Dir(g, j), HereOf(f))
        BY <4>1, <3>2, <1>3, DirType, UnderTransitive
      <4>2. ASSUME NEW n \in Ready(g, role, Base), Under(Append(HereOf(g), n), f.path) PROVE Under(Append(HereOf(g), n), HereOf(f))
        <5>1. n \in Names /\ g.index \in 1 .. Len(g.dirs)
          BY <4>2, <3>3, ReadyNames
        <5>2. Append(HereOf(g), n) \in Path
          BY <5>1, DirType, AppendParts DEF HereOf
        <5>3. QED
          BY <5>2, <4>2, <3>2, <1>3, UnderTransitive
      <4>3. QED
        BY <4>1, <4>2, <3>3 DEF Closes
    <3>4. ASSUME NEW d \in 1 .. Len(stack), NEW role, Closes(stack[d], role, Base, f.path)
          PROVE  Closes(stack[d], role, Base, HereOf(f))
      <4>1. CallOK(stack[d]) /\ stack[d] \in Frame
        BY <1>1, Levels
      <4>2. stack[d].index \in Nat /\ Len(stack[d].dirs) \in Nat
        BY <4>1, FrameParts
      <4>3. CASE Ready(stack[d], role, Base) # {}
        <5>1. stack[d].pc \in Late \union {"directory"}
          BY <4>3, ReadyNames
        <5>2. stack[d].index \in 1 .. Len(stack[d].dirs)
          BY <4>1, <5>1, CallingIndex DEF Late, Processing
        <5>3. QED
          BY <4>1, <4>2, <5>2, <3>3, <3>4
      <4>4. CASE Ready(stack[d], role, Base) = {}
        <5>1. CASE stack[d].index = 0
          BY <5>1, <4>2, <4>4, <3>4 DEF Closes
        <5>2. CASE stack[d].index # 0
          <6>1. stack[d].index \in 1 .. Len(stack[d].dirs) + 1
            BY <4>1, <4>2, <5>2 DEF CallOK, IndexOK
          <6>2. QED
            BY <6>1, <4>1, <4>2, <4>4, <3>3, <3>4
        <5>3. QED
          BY <5>1, <5>2
      <4>5. QED
        BY <4>3, <4>4
    <3>5. ~ClosedIn(f.path)
      <4>1. /\ Len(stack) \in 1 .. Len(stack) /\ f = stack[Len(stack)]
            /\ \A d \in 1 .. Len(stack) - 1 : d \in 1 .. Len(stack)
        BY <1>1, Levels
      <4>2. QED
        BY <4>1, <3>1, <3>4 DEF ClosedIn
    <3>6. QED
      BY <3>1, <3>2, <3>5 DEF ClosedDirs
  <2>3. QED
    BY <2>1, <2>2
<1>9. QED
  BY <1>1, <1>2, <1>3, <1>4, <1>5, <1>6, <1>7, <1>8, BaseType

-----------------------------------------------------------------------------
(* A directory is dealt with. *)

\* A step that deals with nothing.
LEMMA PassLive ==
  ASSUME Live, ~thrown, stack # <<>>, f.pc \in Processing, UNCHANGED <<trees, count, scanner, backup, thrown>>, PipelineInv',
         NEW h, Advance(h), Shrinks(f, h), h.pc \in Processing, h.work.extraFiles = f.work.extraFiles,
         h.work.copyFiles = f.work.copyFiles, h.pc \in Late <=> f.pc \in Late,
         Ready(h, "inner", Base) = Ready(f, "inner", Base)
  PROVE  Live'
<1>1. /\ Steady /\ f.index \in 1 .. Len(f.dirs) /\ StackInv /\ KnowsInv /\ LinkInv /\ TodoInv /\ pc = "copy"
      /\ HereOf(f) \in Path /\ HereOf(f) \in AllDirs /\ SoundInv /\ DataType
  BY SteadyTrees, LiveParts, Open, CallingIndex, TopIsKnown, Levels
<1>2. f.pc \notin Reading \union {"leave"} /\ h.pc \notin Reading \union {"leave"}
  BY DEF Processing, Reading
<1>3. KnowsInv' /\ LinkInv'
  <2>1. Ended' = Ended
    BY DEF Ended
  <2>2. QED
    BY <2>1, <1>1, <1>2, AdvanceKnows
<1> DEFINE N == {}
<1>4. HereOf(h) = HereOf(f)
  BY DEF Advance, HereOf, Dir
<1>5. \A n \in Names : Synced(h, Base, n) <=> Synced(f, Base, n)
  BY <1>4 DEF Synced
<1>6. N \in SUBSET Names /\ \A n : n \notin N
  OBVIOUS
<1> HIDE DEF N
<1>7. /\ ClosedDirs' = ClosedDirs
      /\ DoneDirs' = DoneDirs \union (IF h.pc \in Late THEN {HereOf(f)} \intersect AllDirs ELSE {})
      /\ DoneFiles' = DoneFiles \union {Append(HereOf(f), n) : n \in N}
  <2>1. \A n \in Names : Append(HereOf(f), n) \in AllFiles =>
           ((h.pc \in Processing /\ Synced(h, Base, n)) <=> (f.pc \in Processing /\ Synced(f, Base, n)) \/ n \in N)
    BY <1>5, <1>6
  <2>2. f.pc \in Processing \union {"waitDst"} /\ (f.pc \in Late => h.pc \in Late) /\ \A n \in N : Append(HereOf(f), n) \in AllFiles
    BY <1>6
  <2>3. QED
    BY <2>1, <2>2, <1>1, <1>6, AdvanceDone
<1>8. DoneDirs' = DoneDirs /\ DoneFiles' = DoneFiles
  <2>1. h.pc \in Late => HereOf(f) \in DoneDirs
    BY <1>1, HereStatus
  <2>2. QED
    BY <2>1, <1>6, <1>7
<1>9. Progress' /\ Tally'
  BY <1>1, <1>7, <1>8, NothingDone
<1>10. SoundInv'
  <2>1. \A s \in Scanner : scanner'[s].state = "running" => scanner'[s].path \in tree[s].dirs
    BY <1>1 DEF SoundInv
  <2>2. QED
    BY <2>1, SoundStays
<1>11. QED
  BY <1>1, <1>3, <1>9, <1>10 DEF Live, ProgressInv, Steady

\* What the call f does next, when only its pc changes.
LEMMA Passes ==
  ASSUME Live, stack # <<>>, NEW p \in Processing, Goto(p)
  PROVE  LET h == [f EXCEPT !.pc = p]
         IN  Advance(h) /\ h.pc = p /\ h.work = f.work /\ HereOf(h) = HereOf(f)
<1> DEFINE h == [f EXCEPT !.pc = p]
<1>1. p \in FramePc /\ f \in Frame
  BY LiveParts, Innermost DEF Processing, FramePc
<1>2. stack' = [stack EXCEPT ![Len(stack)] = h]
  BY DEF Goto, Top
<1>3. /\ h \in Frame /\ h.pc = p /\ h.path = f.path
      /\ h.dirs = f.dirs /\ h.index = f.index /\ h.slot = f.slot /\ h.work = f.work
  BY <1>1, GotoFrame
<1> HIDE DEF h
<1>4. Advance(h) /\ HereOf(h) = HereOf(f)
  BY <1>2, <1>3 DEF Advance, HereOf, Dir
<1>5. QED
  BY <1>3, <1>4 DEF h

\* What is left to do in the current directory.
LEMMA FilesAndDirs ==
  ASSUME Live, stack # <<>>, f.pc \notin Reading \union {"leave"}, f.index \in 1 .. Len(f.dirs)
  PROVE  /\ FilesKnown(f, Base, Here(before, HereOf(f)), Here(tree["src"], HereOf(f)))
         /\ DirsKnown(f, Base, Here(before, HereOf(f)), Here(tree["src"], HereOf(f)))
BY LiveParts, TopIsKnown, BaseType DEF CallKnows, WorkKnown

\* Steps to the next part of the work, when there is nothing left of one.
LEMMA ExtraFilesDoneLive ==
  ASSUME Live, ~thrown, ExtraFilesDone, PipelineInv'
  PROVE  Live'
<1>1. /\ stack # <<>> /\ f.pc = "extraFiles" /\ f.work.extraFiles = {} /\ Goto("extraDirs")
      /\ UNCHANGED <<trees, count, scanner, backup, thrown>>
  BY DEF ExtraFilesDone, at, UnchangedAround
<1>2. PICK h : Advance(h) /\ h.pc = "extraDirs" /\ h.work = f.work
  BY <1>1, Passes DEF Processing
<1>3. Shrinks(f, h) /\ f.pc \in Processing /\ h.pc \in Processing /\ f.pc \notin Late \union {"directory"} /\ h.pc \notin Late \union {"directory"}
  BY <1>1, <1>2 DEF Shrinks, Processing, Late, Waits
<1>4. Ready(h, "inner", Base) = Ready(f, "inner", Base)
  BY <1>3, ReadyNames
<1>5. QED
  BY <1>1, <1>2, <1>3, <1>4, PassLive

LEMMA FilesDoneLive ==
  ASSUME Live, ~thrown, FilesDone, PipelineInv'
  PROVE  Live'
<1>1. /\ stack # <<>> /\ f.pc = "files" /\ f.work.copyFiles = {} /\ Goto("subdirs")
      /\ UNCHANGED <<trees, count, scanner, backup, thrown>>
  BY DEF FilesDone, at, UnchangedAround
<1>2. PICK h : Advance(h) /\ h.pc = "subdirs" /\ h.work = f.work /\ HereOf(h) = HereOf(f)
  BY <1>1, Passes DEF Processing
<1>3. f.pc \in Processing /\ h.pc \in Processing /\ f.pc \in Late /\ h.pc \in Late /\ f.pc \notin Reading \union {"leave"}
  BY <1>1, <1>2 DEF Processing, Late, Reading
<1>4. f.work.extraFiles = {}
  BY <1>1, <1>3, FilesAndDirs, Open DEF FilesKnown
<1>5. Shrinks(f, h)
  BY <1>1, <1>2, <1>3, <1>4 DEF Shrinks, Processing, Late, Waits
<1>6. Ready(h, "inner", Base) = Ready(f, "inner", Base)
  BY <1>1, <1>2 DEF Ready, ExtraNames, Late
<1>7. QED
  BY <1>1, <1>2, <1>3, <1>5, <1>6, PassLive

LEMMA NoExtraDirectoriesLive ==
  ASSUME Live, ~thrown, CopyExtraDirectories, f.work.extraDirs = {}, PipelineInv'
  PROVE  Live'
<1>1. /\ stack # <<>> /\ f.pc = "extraDirs" /\ Goto("directory") /\ UNCHANGED <<trees, count, scanner, backup, thrown>>
  BY DEF CopyExtraDirectories, at, UnchangedAround
<1>2. PICK h : Advance(h) /\ h.pc = "directory" /\ h.work = f.work /\ HereOf(h) = HereOf(f)
  BY <1>1, Passes DEF Processing
<1>3. /\ f.pc \in Processing /\ h.pc \in Processing /\ f.pc \notin Late \union {"directory"} /\ h.pc \notin Late
      /\ f.pc \notin Reading \union {"leave"}
  BY <1>1, <1>2 DEF Processing, Late, Reading
<1>4. /\ f.work.extraFiles = {}
      /\ \A n \in Here(before, HereOf(f)).dirs \ Here(tree["src"], HereOf(f)).dirs : \E m \in f.work.extraDirs : m.name = n
  BY <1>1, <1>3, FilesAndDirs, Open DEF FilesKnown, DirsKnown, Processing
<1>5. Shrinks(f, h)
  BY <1>1, <1>2, <1>3, <1>4 DEF Shrinks, Processing, Late, Waits
<1>6. ExtraNames(h, Base) = {}
  BY <1>2, <1>4, BaseType, LiveParts DEF ExtraNames
<1>7. Ready(h, "inner", Base) = Ready(f, "inner", Base)
  BY <1>1, <1>2, <1>6 DEF Ready, Late
<1>8. QED
  BY <1>1, <1>2, <1>3, <1>5, <1>7, PassLive

LEMMA NoSubdirectoriesLive ==
  ASSUME Live, ~thrown, CopySubdirectories, f.work.copyDirs = {} \/ "src" \notin match.in, PipelineInv'
  PROVE  Live'
<1>1. /\ stack # <<>> /\ f.pc = "subdirs" /\ Goto("attributes") /\ UNCHANGED <<trees, count, scanner, backup, thrown>>
  BY DEF CopySubdirectories, at, UnchangedAround
<1>2. PICK h : Advance(h) /\ h.pc = "attributes" /\ h.work = f.work /\ HereOf(h) = HereOf(f)
  BY <1>1, Passes DEF Processing
<1>3. f.pc \in Processing /\ h.pc \in Processing /\ f.pc \in Late /\ h.pc \in Late /\ f.pc \notin Reading \union {"leave"}
  BY <1>1, <1>2 DEF Processing, Late, Reading
<1>4. /\ f.work.extraFiles = {} /\ f.work.copyFiles = {}
      /\ \A n \in Here(tree["src"], HereOf(f)).dirs : \E m \in f.work.copyDirs : m.name = n
  BY <1>1, <1>3, FilesAndDirs, Open DEF FilesKnown, DirsKnown
<1>5. Shrinks(f, h)
  BY <1>1, <1>2, <1>3, <1>4 DEF Shrinks, Processing, Late, Waits
<1>6. Here(tree["src"], HereOf(f)).dirs = {}
  <2>1. CASE f.work.copyDirs = {}
    BY <2>1, <1>4
  <2>2. CASE "src" \notin match.in
    <3>1. here \notin tree["src"].dirs /\ here = HereOf(f) /\ here \in Path
      BY <2>2, <1>1, <1>3, Open
    <3>2. PipelineInv /\ SoundInv /\ pc # "idle"
      BY <1>1, LiveParts
    <3>3. Here(tree["src"], HereOf(f)) = NoLists
      BY <3>1, <3>2, NothingHere, TreesSound
    <3>4. QED
      BY <3>3 DEF NoLists
  <2>3. QED
    BY <2>1, <2>2
<1>7. SubNames(h, Base) = {}
  BY <1>2, <1>6, BaseType, LiveParts DEF SubNames
<1>8. Ready(h, "inner", Base) = Ready(f, "inner", Base)
  BY <1>1, <1>2, <1>7 DEF Ready, Late, ExtraNames
<1>9. QED
  BY <1>1, <1>2, <1>3, <1>5, <1>8, PassLive

-----------------------------------------------------------------------------
(* Steps that write. *)

\* What has been done is there, as a file or as a directory.
LEMMA DoneIsThere ==
  ASSUME Live, stack # <<>>, ~dryRun
  PROVE  /\ \A p \in DoneFiles \intersect tree["src"].files : p \in dst.files /\ p \notin dst.dirs
         /\ <<>> \in dst.dirs
<1>1. Progress /\ SoundInv /\ pc = "copy" /\ PipelineInv
  BY LiveParts
<1>2. WellFormed(dst) /\ dst.dirs \intersect dst.files = {}
  BY <1>1, TreesSound DEF WellFormed
<1>3. QED
  BY <1>1, <1>2, ClosedAreDone DEF Progress

\* A step that writes and counts what it deals with.
LEMMA WriteLive ==
  ASSUME Live, ~thrown, stack # <<>>, f.pc \in Processing, UNCHANGED <<scanner, backup, thrown>>, PipelineInv', stack' # <<>>,
         KnowsInv', LinkInv', Tally',
         NEW dirs \in SUBSET Path, NEW files \in SUBSET Path, NEW done, NEW touched,
         Write(dirs, files, done, touched), ~dryRun => WellFormed([dirs |-> dirs, files |-> files]),
         NEW X, NEW Y, NEW Z, Adds(X, Y, Z), ~dryRun => Fits(dirs, files, done, touched, X, Y, Z)
  PROVE  Live'
<1>1. DataType
  BY LiveParts
<1>2. /\ tree' \in [Scanner -> Tree] /\ tree'["src"] = tree["src"] /\ tree'["ref"] = tree["ref"] /\ before' = before
  BY <1>1, WriteTypes
<1>3. Steady
  BY <1>2, SteadyStep
<1>4. Progress'
  BY <1>3, WriteProgress
<1>5. SoundInv'
  BY WriteSound
<1>6. QED
  BY <1>3, <1>4, <1>5 DEF Live, ProgressInv, Steady

\* The innermost call goes on with its work, and writes.
LEMMA WriteSteady ==
  ASSUME Live, stack # <<>>, UNCHANGED <<scanner, backup>>,
         NEW dirs \in SUBSET Path, NEW files \in SUBSET Path, NEW done, NEW touched,
         Write(dirs, files, done, touched)
  PROVE  Steady /\ Ended' = Ended /\ before' = before /\ tree'["src"] = tree["src"]
<1>1. DataType
  BY LiveParts
<1>2. /\ tree' \in [Scanner -> Tree] /\ tree'["src"] = tree["src"] /\ tree'["ref"] = tree["ref"] /\ before' = before
  BY <1>1, WriteTypes
<1>3. Steady
  BY <1>2, SteadyStep
<1>4. QED
  BY <1>2, <1>3 DEF Ended

\* Lines 505-513.
LEMMA RemoveExtraFileLive ==
  ASSUME Live, ~thrown, RemoveExtraFile, PipelineInv'
  PROVE  Live'
<1>1. /\ stack # <<>> /\ f.pc = "extraFiles" /\ UNCHANGED <<scanner, backup, thrown>> /\ Event("files", "removed")
  BY DEF RemoveExtraFile, at, Unscanned
<1>2. PICK n \in f.work.extraFiles :
        /\ Write(dst.dirs, dst.files \ {inner(n)}, {}, {here})
        /\ Top([f EXCEPT !.work.extraFiles = @ \ {n}])
  BY DEF RemoveExtraFile
<1> DEFINE h == [f EXCEPT !.work.extraFiles = @ \ {n}]
           p == Append(HereOf(f), n)
<1>3. /\ f.pc \in Processing /\ f.pc \notin Late \union {"directory"} /\ f.pc \notin Reading \union {"leave"} /\ f.pc \notin Waits
  BY <1>1 DEF Processing, Late, Reading, Waits
<1>4. /\ DataType /\ SoundInv /\ StackInv /\ KnowsInv /\ LinkInv /\ TodoInv /\ Tally /\ Progress /\ pc = "copy" /\ PipelineInv
      /\ f \in Frame /\ f.index \in 1 .. Len(f.dirs) /\ here = HereOf(f) /\ here \in Path /\ inner(n) = p
      /\ here \notin ClosedDirs /\ HereOf(f) \in Path
  BY <1>1, <1>3, LiveParts, Open
<1>5. /\ h \in Frame /\ h.pc = f.pc /\ h.path = f.path
      /\ h.dirs = f.dirs /\ h.index = f.index /\ h.slot = f.slot
      /\ h.work.extraDirs = f.work.extraDirs /\ h.work.copyFiles = f.work.copyFiles
      /\ h.work.copyDirs = f.work.copyDirs /\ h.work.extraFiles = f.work.extraFiles \ {n}
  BY <1>4 DEF Frame
<1>6. stack' = [stack EXCEPT ![Len(stack)] = h]
  BY <1>2 DEF Top
<1> HIDE DEF h
<1>7. Advance(h) /\ HereOf(h) = HereOf(f)
  BY <1>5, <1>6 DEF Advance, HereOf, Dir
<1>8. Shrinks(f, h)
  BY <1>1, <1>3, <1>5 DEF Shrinks
<1>9. n \in Names /\ p \in before.files /\ p \notin tree["src"].files
  <2>1. f.work.extraFiles \subseteq Here(before, HereOf(f)).files \ Here(tree["src"], HereOf(f)).files
    BY <1>1, <1>3, <1>4, FilesAndDirs DEF FilesKnown
  <2>2. QED
    BY <2>1 DEF Here
<1>10. dst.dirs \in SUBSET Path /\ dst.files \in SUBSET Path /\ dst.files \ {p} \in SUBSET Path
  BY <1>4, TreeParts
<1>11. Write(dst.dirs, dst.files \ {p}, {}, {here})
  BY <1>2, <1>4
<1>12. Steady /\ Ended' = Ended /\ before' = before /\ tree'["src"] = tree["src"]
  BY <1>1, <1>10, <1>11, WriteSteady
<1>13. KnowsInv' /\ LinkInv'
  BY <1>1, <1>3, <1>5, <1>7, <1>8, <1>12, AdvanceKnows
<1>14. p \in Region /\ p \in AllFiles /\ p \in Path
  <2>1. p \in Region
    BY <1>1, <1>4, <1>9, HereStatus
  <2>2. QED
    BY <2>1, <1>9 DEF AllFiles, Region
<1> HIDE DEF p
<1>15. p \notin DoneFiles
  <2>1. ASSUME Syncs(f, Base, p) PROVE FALSE
    <3>1. PICK m \in Names : p = Append(HereOf(f), m) /\ Synced(f, Base, m)
      BY <2>1 DEF Syncs
    <3>2. m = n
      BY <3>1, <1>4, <1>9, SameEntry DEF p
    <3>3. QED
      BY <3>1, <3>2, <1>4, <1>9, BaseType DEF Synced
  <2>2. QED
    BY <2>1, <1>1, <1>4, <1>9, HereStatus DEF p
<1> DEFINE N == {n}
<1>16. /\ ClosedDirs' = ClosedDirs
       /\ DoneDirs' = DoneDirs \union (IF h.pc \in Late THEN {HereOf(f)} \intersect AllDirs ELSE {})
       /\ DoneFiles' = DoneFiles \union {Append(HereOf(f), m) : m \in N}
  <2>1. ASSUME NEW m \in Names, Append(HereOf(f), m) \in AllFiles
        PROVE  (h.pc \in Processing /\ Synced(h, Base, m)) <=> (f.pc \in Processing /\ Synced(f, Base, m)) \/ m \in N
    <3>1. CASE Append(HereOf(f), m) \in Base["src"].files
      <4>1. m # n
        BY <3>1, <1>4, <1>9, BaseType DEF p
      <4>2. QED
        BY <3>1, <4>1, <1>3, <1>5, <1>7 DEF Synced
    <3>2. CASE Append(HereOf(f), m) \notin Base["src"].files
      BY <3>2, <1>3, <1>5, <1>7 DEF Synced
    <3>3. QED
      BY <3>1, <3>2
  <2>2. N \in SUBSET Names /\ \A m \in N : Append(HereOf(f), m) \in AllFiles
    BY <1>9, <1>14 DEF p
  <2>3. Ready(h, "inner", Base) = Ready(f, "inner", Base)
    BY <1>3, <1>5, ReadyNames
  <2> HIDE DEF N
  <2>4. QED
    BY <2>1, <2>2, <2>3, <1>1, <1>3, <1>4, <1>5, <1>7, <1>12, AdvanceDone
<1>17. ClosedDirs' = ClosedDirs /\ DoneDirs' = DoneDirs /\ DoneFiles' = DoneFiles \union {p}
  BY <1>3, <1>5, <1>16 DEF p
<1>18. Tally'
  <2>1. Becomes(p, before.files, tree["src"].files) = "removed"
    BY <1>9 DEF Becomes
  <2>2. QED
    BY <2>1, <1>1, <1>4, <1>12, <1>14, <1>15, <1>17, TallyFile
<1>19. Adds({}, {}, {p})
  BY <1>17 DEF Adds
<1>20. ASSUME ~dryRun PROVE WellFormed([dirs |-> dst.dirs, files |-> dst.files \ {p}])
  <2>1. WellFormed(dst)
    BY <1>4, TreesSound
  <2>2. QED
    BY <2>1 DEF WellFormed
<1>21. ASSUME ~dryRun PROVE Fits(dst.dirs, dst.files \ {p}, {}, {here}, {}, {}, {p})
  <2>1. p \in dst.files
    BY <1>4, <1>9, <1>14, <1>15, <1>21 DEF Progress
  <2>2. here \in dst.dirs
    <3>1. WellFormed(dst)
      BY <1>4, TreesSound
    <3>2. Under(HereOf(f), p) /\ HereOf(f) # p /\ dst \in Tree
      <4>1. Under(HereOf(f), p) /\ Under(p, p)
        BY <1>4, <1>9, <1>14, UnderAppend, UnderSelf DEF p
      <4>2. QED
        BY <4>1, <1>4, <1>9, <1>14, UnderParent, TreesSound DEF p
    <3>3. QED
      BY <3>1, <3>2, <2>1, <1>4, Ancestors
  <2>3. here \notin DoneFiles \intersect tree["src"].files /\ <<>> \in dst.dirs
    BY <2>2, <1>1, <1>21, DoneIsThere
  <2>4. here # p
    BY <2>1, <2>2, <1>4, TreesSound DEF WellFormed
  <2>5. QED
    BY <2>3, <2>4, <1>4, <1>9, <1>14 DEF Fits
<1>22. stack' # <<>>
  BY <1>4, <1>1, <1>5, <1>6, TopParts
<1>23. QED
  BY <1>1, <1>3, <1>10, <1>11, <1>13, <1>18, <1>19, <1>20, <1>21, <1>22, WriteLive

-----------------------------------------------------------------------------
(* The directory that a directory is in. *)

\* The caller is in the directory that the call is for;
LEMMA CallerKnown ==
  ASSUME Live, stack # <<>>, Len(stack) # 1
  PROVE  \E g : /\ g.pc \in Calling /\ CallOK(g) /\ CallKnows(g, Base) /\ f.path = HereOf(g) /\ For(f, Handed(g, Base))
                /\ g.index \in 1 .. Len(g.dirs) /\ HereOf(g) \in Path
                /\ \A q \in AllDirs : ClosesDir(g, "caller", Base, q) => q \in DoneDirs
                /\ \A q \in AllFiles : ClosesFile(g, "caller", Base, q) => q \in DoneFiles
<1>1. StackInv /\ KnowsInv /\ LinkInv
  BY LiveParts
<1> DEFINE e == Len(stack) - 1
           g == stack[e]
<1>2. e \in 1 .. Len(stack) - 1 /\ e \in 1 .. Len(stack) /\ stack[e + 1] = f
  <2>1. Len(stack) \in Nat /\ Len(stack) > 0 /\ f = stack[Len(stack)]
    BY <1>1, Innermost, Levels
  <2> DEFINE k == Len(stack)
  <2>2. k \in Nat /\ k > 0 /\ k # 1
    BY <2>1
  <2> HIDE DEF k
  <2>3. k - 1 \in 1 .. k - 1 /\ k - 1 \in 1 .. k /\ k - 1 + 1 = k
    BY <2>2
  <2>4. QED
    BY <2>1, <2>3 DEF k
<1>3. g.pc \in Calling /\ CallOK(g) /\ CallKnows(g, Base)
  BY <1>1, <1>2, Levels DEF KnowsInv
<1>4. f.path = HereOf(g) /\ For(f, Handed(g, Base))
  BY <1>1, <1>2 DEF LinkInv
<1>5. g.index \in 1 .. Len(g.dirs) /\ HereOf(g) \in Path
  BY <1>3, CallingIndex
<1>6. ASSUME NEW q \in AllDirs, ClosesDir(g, "caller", Base, q) PROVE q \in DoneDirs
  <2>1. DirDone(q)
    BY <1>2, <1>6 DEF DirDone
  <2>2. QED
    BY <2>1 DEF DoneDirs
<1>7. ASSUME NEW q \in AllFiles, ClosesFile(g, "caller", Base, q) PROVE q \in DoneFiles
  <2>1. FileDone(q)
    BY <1>2, <1>7 DEF FileDone
  <2>2. QED
    BY <2>1 DEF DoneFiles
<1>8. QED
  BY <1>3, <1>4, <1>5, <1>6, <1>7

\* the outermost call is for the directories of the group.
LEMMA OutermostKnown ==
  ASSUME Live, stack # <<>>, Len(stack) = 1
  PROVE  /\ f.path = <<>>
         /\ \A i \in 1 .. Len(f.dirs) : f.dirs[i].name \in group /\ Append(f.path, f.dirs[i].name) \notin before.files
<1>1. f.path = <<>> /\ For(f, group)
  BY LiveParts, Levels DEF LinkInv
<1>2. RootTrue("dst") /\ root["dst"].files = {}
  BY LiveParts DEF RootsKnown, First
<1>3. Here(Base["dst"], <<>>).files \intersect Asked = {}
  BY <1>2 DEF RootTrue
<1>4. \A n \in Asked : Append(<<>>, n) \notin before.files
  BY <1>3, LiveParts, BaseType DEF Here, Asked
<1>5. group \subseteq Asked
  BY LiveParts DEF AskedInv
<1>6. QED
  BY <1>1, <1>4, <1>5 DEF For

\* A directory of the source can be made, if it is not there.
LEMMA PlaceFree ==
  ASSUME Live, stack # <<>>, f.pc \in Processing, ~dryRun, here \in tree["src"].dirs
  PROVE  f.path \in dst.dirs /\ here \notin dst.files /\ f.path \in tree["src"].dirs
<1>1. /\ Progress /\ SoundInv /\ DataType /\ pc = "copy" /\ PipelineInv /\ AskedInv
      /\ f.index \in 1 .. Len(f.dirs) /\ here = Append(f.path, match.name) /\ here \in Path /\ here \in Region
      /\ match = f.dirs[f.index] /\ match.name \in Names /\ f.path \in Path
  BY LiveParts, Open
<1>2. f.path \in tree["src"].dirs /\ here \notin tree["src"].files
  BY <1>1, ParentInSource, TreesSound DEF WellFormed
<1>3. CASE Len(stack) = 1
  <2>1. f.path = <<>> /\ here \notin before.files
    BY <1>1, <1>3, OutermostKnown
  <2>2. here \notin dst.files
    BY <2>1, <1>1, <1>2 DEF Progress
  <2>3. QED
    BY <2>1, <2>2, <1>2, DoneIsThere
<1>4. CASE Len(stack) # 1
  <2>1. PICK g : /\ g.pc \in Calling /\ CallOK(g) /\ CallKnows(g, Base) /\ f.path = HereOf(g) /\ For(f, Handed(g, Base))
                 /\ g.index \in 1 .. Len(g.dirs) /\ HereOf(g) \in Path
                 /\ \A q \in AllDirs : ClosesDir(g, "caller", Base, q) => q \in DoneDirs
                 /\ \A q \in AllFiles : ClosesFile(g, "caller", Base, q) => q \in DoneFiles
    BY <1>4, CallerKnown
  <2>2. g.pc = "attributes"
    <3>1. CASE g.pc = "directory"
      <4>1. match.name \in ExtraNames(g, Base)
        BY <2>1, <3>1, <1>1 DEF For, Handed
      <4>2. here \notin tree["src"].dirs
        BY <4>1, <2>1, <1>1, BaseType DEF ExtraNames, Here
      <4>3. QED
        BY <4>2
    <3>2. QED
      BY <2>1, <3>1 DEF Calling
  <2>3. f.path \in dst.dirs
    <3>1. CASE f.path = <<>>
      BY <3>1, DoneIsThere
    <3>2. CASE f.path # <<>>
      <4>1. f.path \in Region
        BY <1>1, <3>2, FirstOfAppend DEF Region
      <4>2. f.path \in AllDirs
        BY <4>1, <1>2 DEF AllDirs
      <4>3. ClosesDir(g, "caller", Base, f.path)
        BY <2>1, <2>2 DEF ClosesDir, Late
      <4>4. QED
        BY <2>1, <4>1, <4>2, <4>3, <1>1, <1>2 DEF Progress
    <3>3. QED
      BY <3>1, <3>2
  <2>4. ASSUME here \in before.files PROVE here \in DoneFiles
    <3>1. here \in AllFiles
      BY <2>4, <1>1 DEF AllFiles
    <3>2. g.work.extraFiles = {}
      BY <2>1, <2>2 DEF CallKnows, WorkKnown, FilesKnown, Reading, Processing
    <3>3. Synced(g, Base, match.name)
      BY <3>2, <2>1, <1>1, <1>2, BaseType DEF Synced
    <3>4. Syncs(g, Base, here)
      BY <3>3, <2>1, <2>2, <1>1 DEF Syncs, Processing
    <3>5. QED
      BY <3>1, <3>4, <2>1 DEF ClosesFile
  <2>5. here \notin dst.files
    BY <2>4, <1>1, <1>2 DEF Progress
  <2>6. QED
    BY <2>3, <2>5, <1>2
<1>5. QED
  BY <1>3, <1>4

\* The directory itself is dealt with: it is now as in the source.
LEMMA DirectoryDone ==
  ASSUME Live, ~thrown, stack # <<>>, f.pc = "directory", UNCHANGED <<scanner, backup, thrown>>, Goto("files"), PipelineInv',
         NEW dirs \in SUBSET Path, NEW touched, Write(dirs, dst.files, {}, touched), touched \subseteq {f.path},
         Event("dirs", Becomes(here, before.dirs, tree["src"].dirs)),
         ~dryRun => /\ WellFormed([dirs |-> dirs, files |-> dst.files])
                    /\ \A p : p \in dirs <=> IF p = here THEN p \in tree["src"].dirs ELSE p \in dst.dirs
  PROVE  Live'
<1>1. /\ f.pc \in Processing /\ f.pc \notin Late /\ f.pc \notin Reading \union {"leave"} /\ f.pc \notin Waits
  BY DEF Processing, Late, Reading, Waits
<1>2. /\ DataType /\ SoundInv /\ StackInv /\ KnowsInv /\ LinkInv /\ TodoInv /\ Tally /\ Progress /\ pc = "copy" /\ PipelineInv
      /\ f \in Frame /\ f.index \in 1 .. Len(f.dirs) /\ here = HereOf(f) /\ here \in Path /\ here = Append(f.path, match.name)
      /\ here \in Region /\ here \in AllDirs /\ here \notin ClosedDirs /\ f.path \notin ClosedDirs
      /\ f.path \in Path /\ match.name \in Names
  BY <1>1, LiveParts, Open
<1>3. PICK h : Advance(h) /\ h.pc = "files" /\ h.work = f.work /\ HereOf(h) = HereOf(f)
  BY <1>1, Passes DEF Processing
<1>4. h.pc \in Processing /\ h.pc \in Late /\ h.pc \notin Reading \union {"leave"} /\ h.pc \notin Waits
      /\ stack' = [stack EXCEPT ![Len(stack)] = h] /\ h \in Frame
  BY <1>3 DEF Processing, Late, Reading, Waits, Advance
<1>5. /\ f.work.extraFiles = {}
      /\ \A n \in Here(tree["src"], HereOf(f)).files : \E m \in f.work.copyFiles : m.name = n
  BY <1>1, <1>2, FilesAndDirs DEF FilesKnown
<1>6. Shrinks(f, h)
  BY <1>1, <1>3, <1>4, <1>5 DEF Shrinks
<1>7. dst.dirs \in SUBSET Path /\ dst.files \in SUBSET Path
  BY <1>2, TreeParts
<1>8. Steady /\ Ended' = Ended /\ before' = before /\ tree'["src"] = tree["src"]
  BY <1>7, WriteSteady
<1>9. KnowsInv' /\ LinkInv'
  BY <1>1, <1>3, <1>4, <1>6, <1>8, AdvanceKnows
<1> DEFINE N == {}
<1>10. N \in SUBSET Names /\ \A n : n \notin N
  OBVIOUS
<1> HIDE DEF N
<1>11. /\ ClosedDirs' = ClosedDirs
       /\ DoneDirs' = DoneDirs \union (IF h.pc \in Late THEN {HereOf(f)} \intersect AllDirs ELSE {})
       /\ DoneFiles' = DoneFiles \union {Append(HereOf(f), m) : m \in N}
  <2>1. ASSUME NEW n \in Names, Append(HereOf(f), n) \in AllFiles
        PROVE  (h.pc \in Processing /\ Synced(h, Base, n)) <=> (f.pc \in Processing /\ Synced(f, Base, n)) \/ n \in N
    <3>1. CASE Append(HereOf(f), n) \in Base["src"].files
      <4>1. \E m \in f.work.copyFiles : m.name = n
        BY <3>1, <1>2, <1>5, BaseType DEF Here
      <4>2. QED
        BY <3>1, <4>1, <1>1, <1>3, <1>10 DEF Synced
    <3>2. CASE Append(HereOf(f), n) \notin Base["src"].files
      BY <3>2, <1>1, <1>3, <1>4, <1>10 DEF Synced
    <3>3. QED
      BY <3>1, <3>2
  <2>2. Ready(h, "inner", Base) = Ready(f, "inner", Base)
    BY <1>3 DEF Ready, Late, ExtraNames
  <2>3. QED
    BY <2>1, <2>2, <1>1, <1>2, <1>3, <1>4, <1>8, <1>10, AdvanceDone
<1>12. ClosedDirs' = ClosedDirs /\ DoneDirs' = DoneDirs \union {here} /\ DoneFiles' = DoneFiles
  BY <1>2, <1>4, <1>10, <1>11
<1>13. here \notin DoneDirs
  BY <1>1, <1>2, HereStatus
<1>14. Tally'
  BY <1>2, <1>8, <1>12, <1>13, TallyDir
<1>15. Adds({}, {here}, {})
  BY <1>12 DEF Adds
<1>16. ASSUME ~dryRun PROVE Fits(dirs, dst.files, {}, touched, {}, {here}, {})
  <2>1. f.path \notin DoneFiles \intersect tree["src"].files
    <3>1. CASE here \in tree["src"].dirs
      BY <3>1, <1>1, <1>2, <1>16, PlaceFree, TreesSound DEF WellFormed
    <3>2. CASE here \notin tree["src"].dirs
      <4>1. here \in dst.dirs
        BY <3>2, <1>2, <1>13, <1>16 DEF AllDirs, Progress
      <4>2. WellFormed(dst) /\ dst \in Tree
        BY <1>2, TreesSound
      <4>3. here # <<>> /\ Parent(here) = f.path
        BY <1>2, FirstOfAppend
      <4>4. f.path \in dst.dirs
        BY <4>1, <4>2, <4>3 DEF WellFormed
      <4>5. QED
        BY <4>4, <1>16, DoneIsThere
    <3>3. QED
      BY <3>1, <3>2
  <2>2. <<>> \in dirs
    <3>1. <<>> \in dst.dirs /\ here # <<>>
      BY <1>2, <1>16, DoneIsThere DEF Region
    <3>2. QED
      BY <3>1, <1>16
  <2>3. QED
    BY <2>1, <2>2, <1>2, <1>16 DEF Fits
<1>17. stack' # <<>>
  BY <1>2, <1>4, TopParts
<1>18. QED
  BY <1>1, <1>7, <1>9, <1>14, <1>15, <1>16, <1>17, WriteLive

\* Lines 521-526: the directory is empty.
LEMMA RemoveDirectoryLive ==
  ASSUME Live, ~thrown, RemoveDirectory, PipelineInv'
  PROVE  Live'
<1>1. /\ stack # <<>> /\ f.pc = "directory" /\ "src" \notin match.in /\ Possible(Here(dst, here) = NoLists)
      /\ Event("dirs", "removed") /\ Write(dst.dirs \ {here}, dst.files, {}, {f.path})
      /\ Goto("files") /\ UNCHANGED <<scanner, backup, thrown>>
  BY DEF RemoveDirectory, at, Unscanned
<1>2. /\ PipelineInv /\ DataType /\ SoundInv /\ pc = "copy" /\ here \notin tree["src"].dirs /\ here \in before.dirs
      /\ here \in Path /\ here # <<>>
  BY <1>1, LiveParts, Open DEF Processing, AllDirs, Region
<1>3. dst.dirs \ {here} \in SUBSET Path
  BY <1>2, TreeParts
<1>4. Becomes(here, before.dirs, tree["src"].dirs) = "removed"
  BY <1>2 DEF Becomes
<1>5. ASSUME ~dryRun PROVE WellFormed([dirs |-> dst.dirs \ {here}, files |-> dst.files])
  <2>1. WellFormed(dst) /\ dst.dirs \union dst.files \subseteq Path
    BY <1>2, TreesSound
  <2>2. ASSUME NEW p \in dst.dirs \union dst.files, p # <<>> PROVE Parent(p) # here
    <3>1. p[Len(p)] \in Names /\ p = Append(Parent(p), p[Len(p)])
      BY <2>1, <2>2, Split
    <3>2. Here(dst, here) = NoLists
      BY <1>1, <1>5 DEF Possible
    <3>3. \A n \in Names : Append(here, n) \notin dst.dirs \union dst.files
      BY <3>2 DEF Here, NoLists
    <3>4. QED
      BY <3>1, <3>3, <2>2
  <2>3. QED
    BY <2>1, <2>2 DEF WellFormed
<1>6. \A p : p \in dst.dirs \ {here} <=> IF p = here THEN p \in tree["src"].dirs ELSE p \in dst.dirs
  BY <1>2
<1>7. QED
  BY <1>1, <1>3, <1>4, <1>5, <1>6, DirectoryDone

\* Lines 535-539: its place is free.
LEMMA CreateDirectoryLive ==
  ASSUME Live, ~thrown, CreateDirectory, PipelineInv'
  PROVE  Live'
<1>1. /\ stack # <<>> /\ f.pc = "directory" /\ "src" \in match.in /\ "dst" \notin match.in
      /\ Possible(here \notin dst.dirs \union dst.files)
      /\ Event("dirs", "added") /\ Write(dst.dirs \union {here}, dst.files, {}, {f.path})
      /\ Goto("files") /\ UNCHANGED <<scanner, backup, thrown>>
  BY DEF CreateDirectory, at, Unscanned
<1>2. /\ PipelineInv /\ DataType /\ SoundInv /\ pc = "copy" /\ here \in tree["src"].dirs /\ here \notin before.dirs
      /\ here \in Path /\ here # <<>> /\ here = Append(f.path, match.name) /\ f.path \in Path /\ match.name \in Names
      /\ f.pc \in Processing
  BY <1>1, LiveParts, Open DEF Processing, Region
<1>3. dst.dirs \union {here} \in SUBSET Path
  BY <1>2, TreeParts
<1>4. Becomes(here, before.dirs, tree["src"].dirs) = "added"
  BY <1>2 DEF Becomes
<1>5. ASSUME ~dryRun PROVE WellFormed([dirs |-> dst.dirs \union {here}, files |-> dst.files])
  <2>1. WellFormed(dst)
    BY <1>2, TreesSound
  <2>2. f.path \in dst.dirs /\ here \notin dst.files
    BY <1>1, <1>2, <1>5, PlaceFree
  <2>3. Parent(here) = f.path
    BY <1>2, FirstOfAppend
  <2>4. QED
    BY <2>1, <2>2, <2>3, <1>2 DEF WellFormed
<1>6. \A p : p \in dst.dirs \union {here} <=> IF p = here THEN p \in tree["src"].dirs ELSE p \in dst.dirs
  BY <1>2
<1>7. QED
  BY <1>1, <1>3, <1>4, <1>5, <1>6, DirectoryDone

\* Lines 540-560: it is still there.
LEMMA UpdateDirectoryLive ==
  ASSUME Live, ~thrown, UpdateDirectory, PipelineInv'
  PROVE  Live'
<1>1. /\ stack # <<>> /\ f.pc = "directory" /\ "src" \in match.in /\ "dst" \in match.in
      /\ Event("dirs", "kept") /\ Goto("files") /\ UNCHANGED <<scanner, backup, thrown>>
  BY DEF UpdateDirectory, at, Unscanned
<1>2. PICK renamed \in BOOLEAN : Write(dst.dirs, dst.files, {}, IF renamed THEN {f.path} ELSE {})
  BY DEF UpdateDirectory
<1>3. /\ PipelineInv /\ DataType /\ SoundInv /\ pc = "copy" /\ here \in tree["src"].dirs /\ here \in before.dirs
      /\ f.pc \in Processing /\ f.pc \notin Late /\ here = HereOf(f) /\ f.index \in 1 .. Len(f.dirs) /\ here \in Region
      /\ StackInv /\ KnowsInv /\ LinkInv /\ TodoInv /\ Progress
  BY <1>1, LiveParts, Open DEF Processing, Late
<1>4. dst.dirs \in SUBSET Path
  BY <1>3, TreeParts
<1>5. Becomes(here, before.dirs, tree["src"].dirs) = "kept"
  BY <1>3 DEF Becomes
<1>6. ASSUME ~dryRun
      PROVE  /\ WellFormed([dirs |-> dst.dirs, files |-> dst.files])
             /\ \A p : p \in dst.dirs <=> IF p = here THEN p \in tree["src"].dirs ELSE p \in dst.dirs
  <2>1. WellFormed(dst)
    BY <1>3, TreesSound
  <2>2. here \notin DoneDirs
    BY <1>1, <1>3, HereStatus
  <2>3. here \in dst.dirs
    BY <2>2, <1>3, <1>6 DEF Progress
  <2>4. QED
    BY <2>1, <2>3, <1>3 DEF WellFormed
<1> DEFINE touched == IF renamed THEN {f.path} ELSE {}
<1>7. touched \subseteq {f.path} /\ Write(dst.dirs, dst.files, {}, touched)
  BY <1>2
<1> HIDE DEF touched
<1>8. QED
  BY <1>1, <1>4, <1>5, <1>6, <1>7, DirectoryDone

\* A file is brought up to date.
LEMMA SyncFileLive ==
  ASSUME Live, ~thrown, SyncFile, PipelineInv'
  PROVE  Live'
<1>1. /\ stack # <<>> /\ f.pc = "files" /\ UNCHANGED <<scanner, backup, thrown>>
  BY DEF SyncFile, at, Unscanned
<1>2. PICK m \in f.work.copyFiles, written \in BOOLEAN :
        /\ Possible(inner(m.name) \notin dst.dirs)
        /\ Write(dst.dirs, dst.files \union {inner(m.name)}, {inner(m.name)},
                 IF written THEN {here} ELSE {})
        /\ Event("files", IF "dst" \in m.in THEN "kept" ELSE "added")
        /\ Top([f EXCEPT !.work.copyFiles = @ \ {m}])
  BY DEF SyncFile
<1> DEFINE h == [f EXCEPT !.work.copyFiles = @ \ {m}]
           p == Append(HereOf(f), m.name)
           touched == IF written THEN {here} ELSE {}
<1>3. /\ f.pc \in Processing /\ f.pc \in Late /\ f.pc \notin Reading \union {"leave"} /\ f.pc \notin Waits
  BY <1>1 DEF Processing, Late, Reading, Waits
<1>4. /\ DataType /\ SoundInv /\ StackInv /\ KnowsInv /\ LinkInv /\ TodoInv /\ Tally /\ Progress /\ pc = "copy" /\ PipelineInv
      /\ f \in Frame /\ f.index \in 1 .. Len(f.dirs) /\ here = HereOf(f) /\ here \in Path /\ inner(m.name) = p
      /\ here \notin ClosedDirs /\ HereOf(f) \in Path /\ here \in Region /\ here \in AllDirs
  BY <1>1, <1>3, LiveParts, Open
<1>5. /\ h \in Frame /\ h.pc = f.pc /\ h.path = f.path
      /\ h.dirs = f.dirs /\ h.index = f.index /\ h.slot = f.slot
      /\ h.work.extraDirs = f.work.extraDirs /\ h.work.copyFiles = f.work.copyFiles \ {m}
      /\ h.work.copyDirs = f.work.copyDirs /\ h.work.extraFiles = f.work.extraFiles
  BY <1>4 DEF Frame
<1>6. stack' = [stack EXCEPT ![Len(stack)] = h]
  BY <1>2 DEF Top
<1> HIDE DEF h
<1>7. Advance(h) /\ HereOf(h) = HereOf(f)
  BY <1>5, <1>6 DEF Advance, HereOf, Dir
<1>8. /\ f.work.extraFiles = {} /\ Distinct(f.work.copyFiles)
      /\ m.name \in Here(tree["src"], HereOf(f)).files
      /\ "dst" \in m.in <=> m.name \in Here(before, HereOf(f)).files
  BY <1>1, <1>2, <1>3, <1>4, FilesAndDirs DEF FilesKnown
<1>9. Shrinks(f, h)
  BY <1>1, <1>3, <1>5, <1>8 DEF Shrinks
<1>10. m.name \in Names /\ p \in tree["src"].files /\ ("dst" \in m.in <=> p \in before.files)
  BY <1>8 DEF Here
<1>11. p \in Region /\ p \in AllFiles /\ p \in Path /\ p # <<>> /\ Parent(p) = HereOf(f)
  <2>1. p \in Region
    BY <1>1, <1>4, <1>10, HereStatus
  <2>2. p # <<>> /\ Parent(p) = HereOf(f)
    BY <1>4, <1>10, FirstOfAppend
  <2>3. QED
    BY <2>1, <2>2, <1>10 DEF AllFiles, Region
<1>12. dst.dirs \in SUBSET Path /\ dst.files \in SUBSET Path /\ dst.files \union {p} \in SUBSET Path
  BY <1>4, <1>11, TreeParts
<1>13. Write(dst.dirs, dst.files \union {p}, {p}, touched)
  BY <1>2, <1>4
<1>14. touched \subseteq {here}
  OBVIOUS
<1> HIDE DEF p, touched
<1>15. Steady /\ Ended' = Ended /\ before' = before /\ tree'["src"] = tree["src"]
  BY <1>1, <1>12, <1>13, WriteSteady
<1>16. KnowsInv' /\ LinkInv'
  BY <1>1, <1>3, <1>5, <1>7, <1>9, <1>15, AdvanceKnows
<1>17. p \notin DoneFiles
  <2>1. ASSUME Syncs(f, Base, p) PROVE FALSE
    <3>1. PICK n \in Names : p = Append(HereOf(f), n) /\ Synced(f, Base, n)
      BY <2>1 DEF Syncs
    <3>2. n = m.name
      BY <3>1, <1>4, <1>10, SameEntry DEF p
    <3>3. QED
      BY <3>1, <3>2, <1>2, <1>4, <1>10, BaseType DEF Synced
  <2>2. QED
    BY <2>1, <1>1, <1>4, <1>10, HereStatus DEF p
<1> DEFINE N == {m.name}
<1>18. /\ ClosedDirs' = ClosedDirs
       /\ DoneDirs' = DoneDirs \union (IF h.pc \in Late THEN {HereOf(f)} \intersect AllDirs ELSE {})
       /\ DoneFiles' = DoneFiles \union {Append(HereOf(f), n) : n \in N}
  <2>1. ASSUME NEW n \in Names, Append(HereOf(f), n) \in AllFiles
        PROVE  (h.pc \in Processing /\ Synced(h, Base, n)) <=> (f.pc \in Processing /\ Synced(f, Base, n)) \/ n \in N
    <3>1. CASE Append(HereOf(f), n) \in Base["src"].files
      <4>1. (\A k \in h.work.copyFiles : k.name # n) <=> (\A k \in f.work.copyFiles : k.name # n) \/ n = m.name
        BY <1>2, <1>5, <1>8 DEF Distinct
      <4>2. QED
        BY <3>1, <4>1, <1>3, <1>5, <1>7 DEF Synced
    <3>2. CASE Append(HereOf(f), n) \notin Base["src"].files
      <4>1. n # m.name
        BY <3>2, <1>4, <1>10, BaseType DEF p
      <4>2. QED
        BY <3>2, <4>1, <1>3, <1>5, <1>7 DEF Synced
    <3>3. QED
      BY <3>1, <3>2
  <2>2. N \in SUBSET Names /\ \A n \in N : Append(HereOf(f), n) \in AllFiles
    BY <1>10, <1>11 DEF p
  <2>3. Ready(h, "inner", Base) = Ready(f, "inner", Base)
    BY <1>5, <1>7 DEF Ready, ExtraNames, SubNames
  <2> HIDE DEF N
  <2>4. QED
    BY <2>1, <2>2, <2>3, <1>1, <1>3, <1>4, <1>5, <1>7, <1>15, AdvanceDone
<1>19. HereOf(f) \in DoneDirs
  BY <1>1, <1>3, <1>4, HereStatus
<1>20. ClosedDirs' = ClosedDirs /\ DoneDirs' = DoneDirs /\ DoneFiles' = DoneFiles \union {p}
  BY <1>18, <1>19 DEF p
<1>21. Tally'
  <2>1. Becomes(p, before.files, tree["src"].files) = (IF "dst" \in m.in THEN "kept" ELSE "added")
    BY <1>10 DEF Becomes
  <2>2. Event("files", Becomes(p, before.files, tree["src"].files))
    BY <2>1, <1>2
  <2>3. QED
    BY <2>2, <1>4, <1>11, <1>15, <1>17, <1>20, TallyFile
<1>22. Adds({}, {}, {p})
  BY <1>20 DEF Adds
<1>23. here \in tree["src"].dirs /\ here \notin tree["src"].files
  <2>1. WellFormed(tree["src"])
    BY <1>4, TreesSound
  <2>2. QED
    BY <2>1, <1>4, <1>10, <1>11 DEF WellFormed
<1>24. ASSUME ~dryRun PROVE WellFormed([dirs |-> dst.dirs, files |-> dst.files \union {p}])
  <2>1. WellFormed(dst)
    BY <1>4, TreesSound
  <2>2. here \in dst.dirs
    BY <1>4, <1>19, <1>23, <1>24 DEF Progress
  <2>3. p \notin dst.dirs
    BY <1>2, <1>4, <1>24 DEF Possible
  <2>4. QED
    BY <2>1, <2>2, <2>3, <1>4, <1>11 DEF WellFormed
<1>25. ASSUME ~dryRun PROVE Fits(dst.dirs, dst.files \union {p}, {p}, touched, {}, {}, {p})
  <2>1. <<>> \in dst.dirs
    BY <1>1, <1>25, DoneIsThere
  <2>2. QED
    BY <2>1, <1>4, <1>10, <1>11, <1>14, <1>23 DEF Fits
<1>26. stack' # <<>>
  BY <1>4, <1>1, <1>5, <1>6, TopParts
<1>27. QED
  BY <1>1, <1>3, <1>12, <1>13, <1>16, <1>21, <1>22, <1>24, <1>25, <1>26, WriteLive

\* At last, all that was or is to be below a directory has been dealt with.
LEMMA BelowHere ==
  ASSUME Live, stack # <<>>, f.pc = "attributes"
  PROVE  /\ \A p \in AllDirs : Under(HereOf(f), p) /\ p # HereOf(f)
                                 <=> \E n \in Ready(f, "inner", Base) : Under(Append(HereOf(f), n), p)
         /\ \A n \in Names : Append(HereOf(f), n) \in AllFiles => Synced(f, Base, n)
<1>1. /\ f.pc \in Processing /\ f.pc \in Late /\ f.pc \notin Reading \union {"leave"}
  BY DEF Processing, Late, Reading
<1>2. /\ DataType /\ SoundInv /\ pc = "copy" /\ PipelineInv /\ f.index \in 1 .. Len(f.dirs) /\ HereOf(f) \in Path
  BY <1>1, LiveParts, Open
<1>3. Ready(f, "inner", Base) = ExtraNames(f, Base) \union SubNames(f, Base) /\ Ready(f, "inner", Base) \subseteq Names
  BY <1>1, ReadyNames DEF Ready
<1>4. ASSUME NEW p \in AllDirs, Under(HereOf(f), p), p # HereOf(f)
      PROVE  \E n \in Ready(f, "inner", Base) : Under(Append(HereOf(f), n), p)
  <2>1. p \in Path
    BY DEF AllDirs, Region
  <2>2. PICK n \in Names : Under(Append(HereOf(f), n), p)
    BY <2>1, <1>2, <1>4, UnderEntry
  <2> DEFINE q == Append(HereOf(f), n)
  <2>3. q \in Path
    BY <1>2, AppendParts
  <2>4. Under(q, p)
    BY <2>2
  <2> HIDE DEF q
  <2>5. ASSUME NEW t \in Tree, WellFormed(t), p \in t.dirs PROVE q \in t.dirs
    BY <2>1, <2>3, <2>4, <2>5, Ancestors
  <2>6. q \in before.dirs \union tree["src"].dirs
    BY <2>5, <1>2, TreesSound DEF AllDirs
  <2>7. n \in ExtraNames(f, Base) \union SubNames(f, Base)
    BY <2>6, <1>2, BaseType DEF ExtraNames, SubNames, Here, q
  <2>8. QED
    BY <2>2, <2>7, <1>3
<1>5. ASSUME NEW p \in AllDirs, NEW n \in Ready(f, "inner", Base), Under(Append(HereOf(f), n), p)
      PROVE  Under(HereOf(f), p) /\ p # HereOf(f)
  <2>1. p \in Path /\ n \in Names
    BY <1>3 DEF AllDirs, Region
  <2>2. QED
    BY <2>1, <1>2, <1>5, UnderParent
<1>6. f.work.extraFiles = {} /\ f.work.copyFiles = {}
  BY <1>1, <1>2, FilesAndDirs DEF FilesKnown
<1>7. ASSUME NEW n \in Names, Append(HereOf(f), n) \in AllFiles PROVE Synced(f, Base, n)
  BY <1>1, <1>6 DEF Synced
<1>8. QED
  BY <1>4, <1>5, <1>7

\* The next directory is turned to.
Swaps(h) ==
  /\ h \in Frame /\ stack' = [stack EXCEPT ![Len(stack)] = h]
  /\ h.path = f.path /\ h.dirs = f.dirs /\ h.index = f.index + 1 /\ h.pc = "turn"
  /\ ReadSlot(h) = ScanSlot(f) /\ ScanSlot(h).path = {}

\* Lines 679-688: the next directory becomes the current one,
LEMMA SetAttributesFrame ==
  ASSUME PipelineInv, SetAttributes
  PROVE  \E h : Swaps(h)
<1>1. StackInv /\ ScanInv /\ DataType /\ stack # <<>> /\ f.pc = "attributes"
  BY DEF PipelineInv, SetAttributes, at
<1>2. /\ f \in Frame /\ CallOK(f) /\ ScanIndex \in {0, 1} /\ ReadIndex \in {0, 1} /\ ScanIndex # ReadIndex
      /\ ScanSlot(f) = f.slot[ScanIndex] /\ ReadSlot(f) = f.slot[ReadIndex]
      /\ f.index \in Nat /\ Len(f.dirs) \in Nat /\ f.slot \in [{0, 1} -> Slot]
  BY <1>1, Innermost, FrameParts DEF read
<1> DEFINE slot == [f.slot EXCEPT ![ReadIndex] = EmptySlot]
           next == f.index + 1
           h == [f EXCEPT !.slot = slot, !.index = next, !.pc = "turn", !.work = NoWork]
<1>3. stack' = [stack EXCEPT ![Len(stack)] = h]
  BY DEF SetAttributes, Top
<1>4. f \in Frame /\ EmptySlot \in Slot /\ "turn" \in FramePc
  BY <1>2, SlotType DEF FramePc
<1>5. NoWork \in [extraFiles : SUBSET Names, extraDirs : SUBSET Match,
                  copyFiles : SUBSET Match, copyDirs : SUBSET Match]
  BY DEF NoWork
<1>6. slot \in [{0, 1} -> Slot] /\ next \in Nat /\ slot[ReadIndex] = EmptySlot /\ slot[ScanIndex] = f.slot[ScanIndex]
  BY <1>2, <1>4
<1> HIDE DEF slot, next
<1>7. h \in Frame /\ h.pc = "turn" /\ h.index = next /\ h.dirs = f.dirs /\ h.path = f.path /\ h.slot = slot
  BY <1>4, <1>5, <1>6 DEF Frame
<1> HIDE DEF h
<1>8. h.index % 2 = ReadIndex /\ (h.index + 1) % 2 = ScanIndex
  BY <1>2, <1>7, Parity DEF ReadIndex, ScanIndex, next
<1>9. ReadSlot(h) = ScanSlot(f) /\ ScanSlot(h) = EmptySlot
  BY <1>2, <1>6, <1>7, <1>8 DEF ScanSlot, ReadSlot
<1>10. Swaps(h)
  BY <1>3, <1>7, <1>9 DEF Swaps, EmptySlot, next
<1>11. QED
  BY <1>10

\* and what is below the one before has been dealt with as well.
LEMMA SwapDone ==
  ASSUME Live, stack # <<>>, Steady, f.pc = "attributes", NEW h, Swaps(h)
  PROVE  ClosedDirs' = ClosedDirs \union {HereOf(f)} /\ DoneDirs' = DoneDirs /\ DoneFiles' = DoneFiles
<1>1. /\ f.pc \in Processing /\ f.pc \in Late /\ h.pc \notin Late \union {"directory"} /\ h.pc \notin Processing
  BY DEF Processing, Late, Swaps
<1>2. /\ DataType /\ SoundInv /\ StackInv /\ pc = "copy" /\ PipelineInv /\ f \in Frame /\ f.index \in 1 .. Len(f.dirs)
      /\ HereOf(f) \in Path /\ HereOf(f) = Dir(f, f.index) /\ HereOf(f) \in AllDirs /\ f.index \in Nat
      /\ HereOf(f) = Append(f.path, match.name) /\ f.path \in Path /\ match.name \in Names
  BY <1>1, LiveParts, Open, FrameParts
<1>3. \A i : Dir(h, i) = Dir(f, i)
  BY DEF Swaps, Dir
<1>4. ASSUME NEW p \in AllDirs
      PROVE  Closes(h, "inner", Base, p) <=> Closes(f, "inner", Base, p) \/ p \in {HereOf(f)}
  <2>1. Ready(h, "inner", Base) = {}
    BY <1>1, ReadyNames
  <2>2. Closes(h, "inner", Base, p) <=> \E j \in 1 .. Len(f.dirs) : j < f.index + 1 /\ Under(Dir(f, j), p)
    BY <2>1, <1>3 DEF Closes, Swaps
  <2>3. \A j \in 1 .. Len(f.dirs) : j < f.index + 1 <=> j < f.index \/ j = f.index
    BY <1>2
  <2>4. Closes(h, "inner", Base, p)
          <=> (\E j \in 1 .. Len(f.dirs) : j < f.index /\ Under(Dir(f, j), p)) \/ Under(HereOf(f), p)
    BY <2>2, <2>3, <1>2
  <2>5. Under(HereOf(f), p) /\ p # HereOf(f) <=> \E n \in Ready(f, "inner", Base) : Under(Append(HereOf(f), n), p)
    BY BelowHere
  <2>6. Under(HereOf(f), HereOf(f))
    BY <1>2, UnderSelf
  <2>7. QED
    BY <2>4, <2>5, <2>6 DEF Closes
<1>5. /\ Base' = Base /\ AllDirs' = AllDirs /\ AllFiles' = AllFiles /\ Pending' = Pending /\ h \in Frame
      /\ stack' = [stack EXCEPT ![Len(stack)] = h]
  BY DEF Steady, Swaps
<1>6. ClosedDirs' = ClosedDirs \union {HereOf(f)}
  BY <1>2, <1>4, <1>5, ClosedGrow
<1>7. DoneDirs' = DoneDirs \union {}
  <2>1. \A p \in AllDirs : ClosesDir(h, "inner", Base, p) <=> ClosesDir(f, "inner", Base, p) \/ p \in {}
    BY <1>1, <1>4 DEF ClosesDir
  <2>2. QED
    BY <2>1, <1>2, <1>5, DirsGrow
<1>8. DoneFiles' = DoneFiles \union {}
  <2>1. ASSUME NEW p \in AllFiles PROVE ClosesFile(h, "inner", Base, p) <=> ClosesFile(f, "inner", Base, p)
    <3>1. p \in Path /\ p # <<>> /\ Parent(p) \in Path /\ p[Len(p)] \in Names /\ p = Append(Parent(p), p[Len(p)])
      BY Split DEF AllFiles, Region
    <3>2. ~Syncs(h, Base, p)
      BY <1>1 DEF Syncs
    <3>3. Syncs(f, Base, p) <=> Parent(p) = HereOf(f)
      <4>1. ASSUME Syncs(f, Base, p) PROVE Parent(p) = HereOf(f)
        <5>1. PICK n \in Names : p = Append(HereOf(f), n)
          BY <4>1 DEF Syncs
        <5>2. QED
          BY <5>1, <1>2, FirstOfAppend
      <4>2. ASSUME Parent(p) = HereOf(f) PROVE Syncs(f, Base, p)
        <5>1. Synced(f, Base, p[Len(p)])
          BY <3>1, <4>2, BelowHere
        <5>2. QED
          BY <5>1, <3>1, <4>2, <1>1 DEF Syncs
      <4>3. QED
        BY <4>1, <4>2
    <3>4. CASE Parent(p) = <<>>
      <4>1. ASSUME NEW g \in {f, h} PROVE ~Closes(g, "inner", Base, <<>>)
        <5>1. g \in Frame
          BY <1>2, <1>5
        <5>2. \A j \in 1 .. Len(g.dirs) : ~Under(Dir(g, j), <<>>)
          <6>1. ASSUME NEW j \in 1 .. Len(g.dirs) PROVE Len(Dir(g, j)) > Len(<<>>)
            BY <5>1, <6>1, DirType, AppendParts
          <6>2. QED
            BY <6>1 DEF Under
        <5>3. \A n \in Ready(g, "inner", Base) : ~Under(Append(HereOf(g), n), <<>>)
          <6>1. g = f \/ Ready(g, "inner", Base) = {}
            BY <1>1, ReadyNames
          <6>2. <<>> \in Path /\ Ready(g, "inner", Base) \subseteq Names
            BY <3>1, <3>4, ReadyNames
          <6>3. QED
            BY <6>1, <6>2, <1>2, UnderParent
        <5>4. QED
          BY <5>2, <5>3 DEF Closes
      <4>2. HereOf(f) # <<>>
        BY <1>2, FirstOfAppend
      <4>3. QED
        BY <3>2, <3>3, <3>4, <4>1, <4>2 DEF ClosesFile
    <3>5. CASE Parent(p) # <<>>
      <4>1. Parent(p) \in AllDirs
        <5>1. Parent(p) \in before.dirs \union tree["src"].dirs
          BY <3>1, <1>2, TreesSound DEF AllFiles, WellFormed
        <5>2. Parent(p) \in Region
          <6>1. Parent(p)[1] = p[1]
            BY <3>1, <3>5, FirstOfAppend
          <6>2. QED
            BY <6>1, <3>1, <3>5 DEF AllFiles, Region
        <5>3. QED
          BY <5>1, <5>2 DEF AllDirs
      <4>2. QED
        BY <4>1, <3>2, <3>3, <1>4 DEF ClosesFile
    <3>6. QED
      BY <3>4, <3>5
  <2>2. \A p \in AllFiles : ClosesFile(h, "inner", Base, p) <=> ClosesFile(f, "inner", Base, p) \/ p \in {}
    BY <2>1
  <2>3. QED
    BY <2>2, <1>2, <1>5, FilesGrow
<1>9. QED
  BY <1>6, <1>7, <1>8

LEMMA SetAttributesLive ==
  ASSUME Live, ~thrown, SetAttributes, PipelineInv'
  PROVE  Live'
<1>1. /\ stack # <<>> /\ f.pc = "attributes" /\ UNCHANGED <<count, scanner, backup, thrown>>
      /\ IF "src" \in match.in THEN Write(dst.dirs, dst.files, {here}, {}) ELSE UNCHANGED trees
  BY DEF SetAttributes, at, Unscanned
<1>2. /\ f.pc \in Processing /\ f.pc \in Late
  BY <1>1 DEF Processing, Late
<1>3. /\ DataType /\ SoundInv /\ StackInv /\ KnowsInv /\ LinkInv /\ TodoInv /\ Tally /\ Progress /\ pc = "copy" /\ PipelineInv
      /\ f \in Frame /\ f.index \in 1 .. Len(f.dirs) /\ f.index \in Nat /\ here = HereOf(f) /\ here \in Path
      /\ here \in AllDirs /\ here \in Region /\ ("src" \in match.in <=> here \in tree["src"].dirs) /\ ScanInv
      /\ Len(f.dirs) \in Nat
  BY <1>1, <1>2, LiveParts, Open, FrameParts
<1>4. dst.dirs \in SUBSET Path /\ dst.files \in SUBSET Path
  BY <1>3, TreeParts
<1>5. Steady /\ Ended' = Ended /\ before' = before /\ tree'["src"] = tree["src"]
  <2>1. CASE "src" \in match.in
    BY <2>1, <1>1, <1>4, WriteSteady
  <2>2. CASE "src" \notin match.in
    BY <2>2, <1>1, SteadyTrees DEF Ended, trees
  <2>3. QED
    BY <2>1, <2>2
<1>6. PICK h : Swaps(h)
  BY <1>1, <1>3, SetAttributesFrame
<1>7. /\ h \in Frame /\ stack' = [stack EXCEPT ![Len(stack)] = h] /\ h.path = f.path /\ h.dirs = f.dirs
      /\ h.pc # "leave" /\ h.index = f.index + 1 /\ h.pc = "turn"
      /\ ReadSlot(h) = ScanSlot(f) /\ ScanSlot(h).path = {}
  BY <1>6 DEF Swaps
<1>8. KnowsInv' /\ LinkInv'
  <2>1. Ended = Scanner
    BY <1>1, <1>2, <1>3, Quiet DEF Free, Ended
  <2>2. Known(f, Base) /\ ScanKnown(f, Base, Scanner)
    BY <2>1, <1>1, <1>3, TopIsKnown DEF CallKnows
  <2>3. f.index <= Len(f.dirs) /\ f.pc # "leave"
    BY <1>1, <1>3
  <2>4. CallKnows(h, Base) /\ \A S : ScanKnown(h, Base, S)
    BY <2>2, <2>3, <1>3, <1>7, SwapKnows
  <2>5. KnowsInv'
    BY <2>4, <1>1, <1>3, <1>5, <1>7, TopKnows DEF Steady
  <2>6. LinkInv'
    BY <1>1, <1>3, <1>5, <1>7, TopLinks DEF Steady
  <2>7. QED
    BY <2>5, <2>6
<1>9. ClosedDirs' = ClosedDirs \union {here} /\ DoneDirs' = DoneDirs /\ DoneFiles' = DoneFiles
  BY <1>1, <1>3, <1>5, <1>6, SwapDone
<1>10. Tally'
  BY <1>1, <1>3, <1>5, <1>9, TallySame
<1>11. stack' # <<>>
  BY <1>1, <1>3, <1>7, TopParts
<1>12. here \in DoneDirs
  BY <1>1, <1>2, <1>3, HereStatus
<1>13. CASE "src" \in match.in
  <2>1. Adds({here}, {}, {})
    BY <1>9 DEF Adds
  <2>2. ASSUME ~dryRun PROVE WellFormed([dirs |-> dst.dirs, files |-> dst.files])
    BY <1>3, TreesSound DEF WellFormed
  <2>3. ASSUME ~dryRun PROVE Fits(dst.dirs, dst.files, {here}, {}, {here}, {}, {})
    BY <2>3, <1>1, <1>3, <1>12, DoneIsThere DEF Fits
  <2>4. Write(dst.dirs, dst.files, {here}, {})
    BY <1>1, <1>13
  <2>5. QED
    BY <2>1, <2>2, <2>3, <2>4, <1>1, <1>2, <1>4, <1>8, <1>10, <1>11, WriteLive
<1>14. CASE "src" \notin match.in
  <2>1. UNCHANGED trees /\ dst' = dst /\ pc' = pc /\ Region' = Region /\ group' = group
    BY <1>1, <1>5, <1>14 DEF trees, dst, backup, Steady
  <2>2. ClosedDirs' \intersect tree["src"].dirs = ClosedDirs \intersect tree["src"].dirs
    BY <1>3, <1>9, <1>14
  <2>3. Progress'
    BY <2>1, <2>2, <1>3, <1>5, <1>9 DEF Progress, trees
  <2>4. SoundInv'
    <3>1. \A s \in Scanner : scanner'[s].state = "running" => scanner'[s].path \in tree[s].dirs
      BY <1>1, <1>3 DEF SoundInv
    <3>2. UNCHANGED <<trees, backup, thrown>>
      BY <2>1, <1>1
    <3>3. QED
      BY <3>1, <3>2, <1>1, SoundStays
  <2>5. QED
    BY <2>3, <2>4, <1>5, <1>8, <1>10 DEF Live, ProgressInv, Steady
<1>15. QED
  BY <1>13, <1>14

-----------------------------------------------------------------------------
(* A call for the subdirectories. *)

\* A call has each of the matches it was given, once.
LEMMA InOrderNames ==
  ASSUME NEW M \in SUBSET Match, Distinct(M)
  PROVE  /\ \A i \in 1 .. Len(InOrder(M)) : InOrder(M)[i] \in M
         /\ \A m \in M : \E i \in 1 .. Len(InOrder(M)) : InOrder(M)[i] = m
         /\ \A i, j \in 1 .. Len(InOrder(M)) : InOrder(M)[i].name = InOrder(M)[j].name => i = j
<1>1. IsFiniteSet(M) /\ Cardinality(M) \in Nat /\ Len(InOrder(M)) = Cardinality(M) /\ \A m \in M : m.name \in Nat
  BY DistinctFinite, FS_CardinalityType, InOrderType, ConstantsAssumption DEF Match
<1>2. InOrder(M) = [i \in 1 .. Cardinality(M) |-> CHOOSE m \in M : Cardinality(Smaller(M, m)) = i - 1]
  BY DEF InOrder, Smaller
<1>3. ASSUME NEW i \in 1 .. Cardinality(M)
      PROVE  InOrder(M)[i] \in M /\ Cardinality(Smaller(M, InOrder(M)[i])) = i - 1
  <2>1. i - 1 \in Nat /\ i - 1 < Cardinality(M)
    BY <1>1
  <2>2. \E m \in M : Cardinality(Smaller(M, m)) = i - 1
    BY <2>1, RankExists
  <2>3. InOrder(M)[i] = CHOOSE m \in M : Cardinality(Smaller(M, m)) = i - 1
    BY <1>2
  <2>4. QED
    BY <2>2, <2>3
<1>4. ASSUME NEW m \in M PROVE Cardinality(Smaller(M, m)) \in Nat /\ IsFiniteSet(Smaller(M, m))
  <2>1. Smaller(M, m) \in SUBSET M
    BY DEF Smaller
  <2>2. QED
    BY <2>1, <1>1, FS_Subset, FS_CardinalityType
<1>5. ASSUME NEW m \in M, NEW n \in M, m.name < n.name PROVE Cardinality(Smaller(M, m)) < Cardinality(Smaller(M, n))
  <2>1. m \notin Smaller(M, m) /\ Smaller(M, m) \union {m} \subseteq Smaller(M, n)
    BY <1>1, <1>5 DEF Smaller
  <2>2. Cardinality(Smaller(M, m) \union {m}) = Cardinality(Smaller(M, m)) + 1
    BY <2>1, <1>4, FS_AddElement
  <2>3. Cardinality(Smaller(M, m) \union {m}) <= Cardinality(Smaller(M, n))
    BY <2>1, <1>4, FS_Subset
  <2>4. QED
    BY <2>2, <2>3, <1>4
<1>6. ASSUME NEW m \in M PROVE Cardinality(Smaller(M, m)) < Cardinality(M)
  <2>1. m \notin Smaller(M, m) /\ Smaller(M, m) \union {m} \subseteq M
    BY <1>1 DEF Smaller
  <2>2. Cardinality(Smaller(M, m) \union {m}) = Cardinality(Smaller(M, m)) + 1
    BY <2>1, <1>4, FS_AddElement
  <2>3. Cardinality(Smaller(M, m) \union {m}) <= Cardinality(M)
    BY <2>1, <1>1, FS_Subset
  <2>4. QED
    BY <2>2, <2>3, <1>1, <1>4
<1>7. ASSUME NEW m \in M PROVE \E i \in 1 .. Len(InOrder(M)) : InOrder(M)[i] = m
  <2> DEFINE i == Cardinality(Smaller(M, m)) + 1
             n == InOrder(M)[i]
  <2>1. i \in 1 .. Cardinality(M) /\ i - 1 = Cardinality(Smaller(M, m))
    BY <1>1, <1>4, <1>6
  <2>2. n \in M /\ Cardinality(Smaller(M, n)) = Cardinality(Smaller(M, m))
    BY <2>1, <1>3
  <2>3. ~(n.name < m.name) /\ ~(m.name < n.name)
    BY <2>2, <1>4, <1>5
  <2>4. n = m
    BY <2>2, <2>3, <1>1 DEF Distinct
  <2>5. QED
    BY <2>1, <2>4, <1>1
<1>8. ASSUME NEW i \in 1 .. Len(InOrder(M)), NEW j \in 1 .. Len(InOrder(M)), InOrder(M)[i].name = InOrder(M)[j].name
      PROVE  i = j
  <2>1. InOrder(M)[i] = InOrder(M)[j]
    BY <1>1, <1>3, <1>8 DEF Distinct
  <2>2. i - 1 = j - 1 /\ i \in Nat /\ j \in Nat
    BY <2>1, <1>1, <1>3
  <2>3. QED
    BY <2>2
<1>9. QED
  BY <1>1, <1>3, <1>7, <1>8

\* g, which f becomes, calls k.
Begins(g, k) ==
  /\ g \in Frame /\ k \in Frame /\ g.pc \in Calling /\ stack' = Append([stack EXCEPT ![Len(stack)] = g], k)
  /\ g.path = f.path /\ g.dirs = f.dirs /\ g.index = f.index /\ g.slot = f.slot
  /\ g.work.extraFiles = f.work.extraFiles /\ g.work.copyFiles = f.work.copyFiles
  /\ (g.pc \in Late <=> f.pc \in Late) /\ Ready(g, "caller", Base) = Ready(f, "inner", Base) /\ WorkKnown(g, Base)
  /\ k.path = HereOf(f) /\ k.index = 0 /\ k.pc = "turn" /\ \A i \in {0, 1} : k.slot[i] = EmptySlot
  /\ Known(k, Base) /\ For(k, Handed(g, Base))

\* The stack with one more frame.
LEMMA Pushed ==
  ASSUME StackInv, stack # <<>>, NEW g, NEW k, Begins(g, k)
  PROVE  /\ Len(stack) \in Nat /\ Len(stack) > 0 /\ Len(stack') = Len(stack) + 1 /\ stack' # <<>>
         /\ f' = k /\ stack'[Len(stack) + 1] = k /\ stack'[Len(stack)] = g
         /\ \A d \in 1 .. Len(stack) - 1 : stack'[d] = stack[d]
<1> DEFINE old == [stack EXCEPT ![Len(stack)] = g]
<1>1. Len(stack) \in 1 .. Len(stack) /\ g \in Frame /\ k \in Frame /\ stack \in Seq(Frame) /\ Len(stack) \in Nat
  BY Innermost DEF StackInv, Begins
<1>2. /\ old \in Seq(Frame) /\ Len(old) = Len(stack)
      /\ \A d \in 1 .. Len(stack) : old[d] = IF d = Len(stack) THEN g ELSE stack[d]
  BY <1>1, ExceptSeq
<1> HIDE DEF old
<1>3. stack' = Append(old, k)
  BY DEF old, Begins
<1>4. /\ stack' \in Seq(Frame) /\ Len(stack') = Len(stack) + 1 /\ stack' # <<>>
      /\ stack'[Len(stack) + 1] = k
      /\ \A d \in 1 .. Len(stack) : stack'[d] = old[d]
  BY <1>1, <1>2, <1>3, AppendProperties
<1>5. f' = k
  BY <1>4 DEF f
<1>6. ASSUME NEW d \in 1 .. Len(stack) - 1 PROVE stack'[d] = stack[d]
  <2>1. d \in 1 .. Len(stack) /\ d # Len(stack)
    BY <1>1
  <2>2. QED
    BY <2>1, <1>2, <1>4
<1>7. Len(stack) > 0 /\ stack'[Len(stack)] = g
  BY <1>1, <1>2, <1>4
<1>8. QED
  BY <1>1, <1>4, <1>5, <1>6, <1>7

\* The callers know what they knew.
LEMMA CallKept ==
  ASSUME Live, stack # <<>>, f.pc \in Processing, Steady, NEW g, NEW k, Begins(g, k)
  PROVE  KnowsInv'
<1>1. /\ StackInv /\ KnowsInv /\ ScanInv /\ f \in Frame /\ f.pc # "leave" /\ Base' = Base
      /\ Known(f, Base) /\ ReadKnown(f, Base) /\ ScanKnown(f, Base, Ended)
  BY LiveParts, TopIsKnown, Innermost DEF CallKnows, Processing, Steady
<1>2. /\ Len(stack) \in Nat /\ Len(stack) > 0 /\ Len(stack') = Len(stack) + 1
      /\ f' = k /\ stack'[Len(stack) + 1] = k /\ stack'[Len(stack)] = g
      /\ \A d \in 1 .. Len(stack) - 1 : stack'[d] = stack[d]
  BY <1>1, Pushed
<1>3. /\ g.path = f.path /\ g.dirs = f.dirs /\ g.index = f.index /\ g.slot = f.slot
      /\ g.pc \notin Reading /\ g.pc # "leave" /\ WorkKnown(g, Base)
      /\ k.index = 0 /\ k.pc = "turn" /\ Known(k, Base) /\ \A i \in {0, 1} : k.slot[i] = EmptySlot
  BY DEF Begins, Calling, Reading
<1>4. Ended = Scanner
  BY <1>1, Quiet DEF Free, Ended
<1>5. CallKnows(g, Base) /\ ScanKnown(g, Base, Scanner)
  BY <1>1, <1>3, <1>4, SlotsKnown DEF CallKnows
<1>6. CallKnows(k, Base)
  <2>1. ReadKnown(k, Base)
    BY <1>3 DEF ReadKnown
  <2>2. WorkKnown(k, Base)
    BY <1>3 DEF WorkKnown, Reading
  <2>3. QED
    BY <2>1, <2>2, <1>3 DEF CallKnows
<1>7. \A S : ScanKnown(k, Base, S)
  <2>1. ScanSlot(k) = EmptySlot
    BY <1>3 DEF ScanSlot
  <2>2. QED
    BY <2>1 DEF ScanKnown, ListsTrue, EmptySlot
<1>8. ASSUME NEW d \in 1 .. Len(stack') PROVE CallKnows(stack'[d], Base)
  <2>1. d \in 1 .. Len(stack) - 1 \/ d = Len(stack) \/ d = Len(stack) + 1
    BY <1>2
  <2>2. CASE d \in 1 .. Len(stack) - 1
    BY <2>2, <1>1, <1>2, Levels DEF KnowsInv
  <2>3. CASE d = Len(stack) \/ d = Len(stack) + 1
    BY <2>3, <1>2, <1>5, <1>6
  <2>4. QED
    BY <2>1, <2>2, <2>3
<1>9. ASSUME NEW d \in 1 .. Len(stack') - 1 PROVE ScanKnown(stack'[d], Base, Scanner)
  <2>1. d \in 1 .. Len(stack) - 1 \/ d = Len(stack)
    BY <1>2
  <2>2. CASE d \in 1 .. Len(stack) - 1
    BY <2>2, <1>1, <1>2 DEF KnowsInv
  <2>3. CASE d = Len(stack)
    BY <2>3, <1>2, <1>5
  <2>4. QED
    BY <2>1, <2>2, <2>3
<1>10. ScanKnown(f', Base, Ended') /\ f'.pc # "leave"
  BY <1>2, <1>3, <1>7
<1>11. QED
  BY <1>1, <1>8, <1>9, <1>10 DEF KnowsInv

\* The new call is for what the caller has handed on.
LEMMA CallLinked ==
  ASSUME Live, stack # <<>>, f.pc \in Processing, Steady, NEW g, NEW k, Begins(g, k)
  PROVE  LinkInv'
<1>1. /\ StackInv /\ LinkInv /\ f \in Frame /\ Base' = Base /\ group' = group /\ f = stack[Len(stack)]
      /\ f.index \in 1 .. Len(f.dirs) /\ HereOf(f) \in Path /\ HereOf(f) = Dir(f, f.index)
  BY LiveParts, Open, Levels DEF Steady
<1>2. /\ Len(stack) \in Nat /\ Len(stack) > 0 /\ Len(stack') = Len(stack) + 1
      /\ stack'[Len(stack) + 1] = k /\ stack'[Len(stack)] = g
      /\ \A d \in 1 .. Len(stack) - 1 : stack'[d] = stack[d]
  BY <1>1, Pushed
<1>3. /\ g.path = f.path /\ g.dirs = f.dirs /\ g.index = f.index /\ k \in Frame
      /\ k.path = HereOf(f) /\ For(k, Handed(g, Base))
  BY DEF Begins
<1>4. HereOf(g) = HereOf(f) /\ \A i : Dir(g, i) = Dir(f, i)
  BY <1>3 DEF HereOf, Dir
<1>5. stack'[1].path = <<>> /\ For(stack'[1], group)
  <2>1. stack[1].path = <<>> /\ For(stack[1], group)
    BY <1>1 DEF LinkInv
  <2>2. CASE Len(stack) = 1
    BY <2>1, <2>2, <1>1, <1>2, <1>3 DEF For
  <2>3. CASE Len(stack) # 1
    <3> DEFINE K == Len(stack)
    <3>1. K \in Nat /\ K > 0 /\ K # 1
      BY <2>3, <1>2
    <3> HIDE DEF K
    <3>2. 1 \in 1 .. K - 1
      BY <3>1
    <3>3. QED
      BY <2>1, <3>2, <1>2 DEF K
  <2>4. QED
    BY <2>2, <2>3
<1>6. ASSUME NEW d \in 1 .. Len(stack') - 1
      PROVE  stack'[d + 1].path = HereOf(stack'[d]) /\ For(stack'[d + 1], Handed(stack'[d], Base))
  <2>1. d = Len(stack) \/ (d \in 1 .. Len(stack) - 1 /\ d + 1 = Len(stack)) \/ (d \in 1 .. Len(stack) - 1 /\ d + 1 \in 1 .. Len(stack) - 1)
    BY <1>2
  <2>2. CASE d = Len(stack)
    BY <2>2, <1>2, <1>3, <1>4
  <2>3. CASE d \in 1 .. Len(stack) - 1 /\ d + 1 = Len(stack)
    <3>1. stack[d + 1].path = HereOf(stack[d]) /\ For(stack[d + 1], Handed(stack[d], Base))
      BY <2>3, <1>1 DEF LinkInv
    <3>2. stack'[d] = stack[d] /\ stack'[d + 1] = g /\ stack[d + 1] = f
      BY <2>3, <1>1, <1>2
    <3>3. \A S : For(f, S) => For(g, S)
      BY <1>3 DEF For
    <3>4. QED
      BY <3>1, <3>2, <3>3, <1>3
  <2>4. CASE d \in 1 .. Len(stack) - 1 /\ d + 1 \in 1 .. Len(stack) - 1
    BY <2>4, <1>1, <1>2 DEF LinkInv
  <2>5. QED
    BY <2>1, <2>2, <2>3, <2>4
<1>7. ASSUME NEW i \in 1 .. Len(k.dirs)
      PROVE  /\ Dir(k, i) \in Path /\ Under(HereOf(f), Dir(k, i))
             /\ \E n \in Handed(g, Base) : Under(Append(HereOf(g), n), Dir(k, i))
  <2>1. Dir(k, i) \in Path /\ Dir(k, i) = Append(HereOf(f), k.dirs[i].name) /\ k.dirs[i].name \in Names
    BY <1>3, DirType
  <2>2. k.dirs[i].name \in Handed(g, Base)
    BY <1>3 DEF For
  <2>3. QED
    BY <2>1, <2>2, <1>1, <1>4, UnderSelf, UnderAppend
<1>8. ASSUME NEW d \in 1 .. Len(stack'), NEW e \in 1 .. Len(stack'), d < e PROVE Within(stack'[d], stack'[e], Base)
  <2>1. /\ d = Len(stack) \/ d \in 1 .. Len(stack) - 1
        /\ d = Len(stack) => e = Len(stack) + 1
        /\ e = Len(stack) + 1 \/ e = Len(stack) \/ e \in 1 .. Len(stack) - 1
    BY <1>2, <1>8
  <2>2. CASE d = Len(stack)
    BY <2>1, <2>2, <1>2, <1>7 DEF Within
  <2>3. ASSUME d \in 1 .. Len(stack) - 1 PROVE Within(stack[d], f, Base)
    <3>1. d \in 1 .. Len(stack) /\ Len(stack) \in 1 .. Len(stack) /\ d < Len(stack)
      BY <2>3, <1>2
    <3>2. QED
      BY <3>1, <1>1 DEF LinkInv
  <2>4. CASE d \in 1 .. Len(stack) - 1 /\ e = Len(stack)
    BY <2>3, <2>4, <1>2, <1>3, <1>4 DEF Within
  <2>5. CASE d \in 1 .. Len(stack) - 1 /\ e \in 1 .. Len(stack) - 1
    <3>1. d \in 1 .. Len(stack) /\ e \in 1 .. Len(stack)
      BY <2>5, <1>2
    <3>2. QED
      BY <3>1, <2>5, <1>1, <1>2, <1>8 DEF LinkInv
  <2>6. CASE d \in 1 .. Len(stack) - 1 /\ e = Len(stack) + 1
    <3>1. CallOK(stack[d]) /\ stack[d].pc \in Calling
      BY <2>6, <1>1, Levels
    <3>2. HereOf(stack[d]) \in Path
      BY <3>1, CallingIndex
    <3>3. PICK n \in Handed(stack[d], Base) : Under(Append(HereOf(stack[d]), n), HereOf(f))
      BY <2>3, <2>6, <1>1 DEF Within
    <3>4. Append(HereOf(stack[d]), n) \in Path
      BY <3>2, <3>3, ReadyNames, AppendParts
    <3>5. \A i \in 1 .. Len(k.dirs) : Under(Append(HereOf(stack[d]), n), Dir(k, i))
      BY <3>3, <3>4, <1>1, <1>7, UnderTransitive
    <3>6. QED
      BY <3>3, <3>5, <2>6, <1>2 DEF Within
  <2>7. QED
    BY <2>1, <2>2, <2>4, <2>5, <2>6
<1>9. QED
  BY <1>1, <1>5, <1>6, <1>8 DEF LinkInv

\* A new call has dealt with nothing.
LEMMA CallDone ==
  ASSUME Live, stack # <<>>, f.pc \in Processing, Steady, NEW g, NEW k, Begins(g, k)
  PROVE  ClosedDirs' = ClosedDirs /\ DoneDirs' = DoneDirs /\ DoneFiles' = DoneFiles
<1>1. /\ StackInv /\ Base' = Base /\ AllDirs' = AllDirs /\ AllFiles' = AllFiles /\ Pending' = Pending
  BY LiveParts DEF Steady
<1>2. /\ Len(stack) \in Nat /\ Len(stack) > 0 /\ Len(stack') = Len(stack) + 1 /\ stack' # <<>>
      /\ f' = k /\ stack'[Len(stack)] = g
      /\ \A d \in 1 .. Len(stack) - 1 : stack'[d] = stack[d]
  BY <1>1, Pushed
<1>3. /\ g.path = f.path /\ g.dirs = f.dirs /\ g.index = f.index /\ g.pc \in Processing
      /\ g.work.extraFiles = f.work.extraFiles /\ g.work.copyFiles = f.work.copyFiles
      /\ (g.pc \in Late <=> f.pc \in Late) /\ Ready(g, "caller", Base) = Ready(f, "inner", Base)
      /\ k.index = 0 /\ k.pc = "turn" /\ k.pc \notin Late \union {"directory"} /\ k.pc \notin Processing
  BY DEF Begins, Calling, Processing, Late
<1>4. HereOf(g) = HereOf(f)
  BY <1>3 DEF HereOf, Dir
<1>5. \A p : Closes(g, "caller", Base, p) <=> Closes(f, "inner", Base, p)
  BY <1>3, SameCloses
<1>6. \A p : ~Closes(k, "inner", Base, p)
  <2>1. Ready(k, "inner", Base) = {}
    BY <1>3, ReadyNames
  <2>2. QED
    BY <2>1, <1>3 DEF Closes
<1>7. \A p : ClosesDir(g, "caller", Base, p) <=> ClosesDir(f, "inner", Base, p)
  BY <1>3, <1>4, <1>5 DEF ClosesDir
<1>8. \A p : ~ClosesDir(k, "inner", Base, p)
  BY <1>3, <1>6 DEF ClosesDir
<1>9. \A p : Syncs(g, Base, p) <=> Syncs(f, Base, p)
  BY <1>3, <1>4 DEF Syncs, Synced
<1>10. \A p : ClosesFile(g, "caller", Base, p) <=> ClosesFile(f, "inner", Base, p)
  BY <1>5, <1>9 DEF ClosesFile
<1>11. \A p : ~ClosesFile(k, "inner", Base, p)
  BY <1>3, <1>6 DEF ClosesFile, Syncs
<1>12. \A d : d \in 1 .. Len(stack') - 1 <=> d \in 1 .. Len(stack) - 1 \/ d = Len(stack)
  BY <1>2
<1>13. ASSUME NEW p PROVE ClosedIn(p)' <=> ClosedIn(p)
  BY <1>1, <1>2, <1>5, <1>6, <1>12 DEF ClosedIn
<1>14. ASSUME NEW p PROVE DirDone(p)' <=> DirDone(p)
  BY <1>1, <1>2, <1>7, <1>8, <1>12 DEF DirDone
<1>15. ASSUME NEW p PROVE FileDone(p)' <=> FileDone(p)
  BY <1>1, <1>2, <1>10, <1>11, <1>12 DEF FileDone
<1>16. QED
  BY <1>1, <1>13, <1>14, <1>15 DEF ClosedDirs, DoneDirs, DoneFiles

\* The matches M are those of the directories names below path.
Found(M, path, names, base) ==
  /\ \A m \in M : /\ m.name \in names /\ m.in \intersect {"src", "dst"} # {}
                  /\ \A s \in m.in : Append(path, m.name) \in base[s].dirs
                  /\ \A s \in {"src", "dst"} : Append(path, m.name) \in base[s].dirs => s \in m.in
  /\ \A n \in names : \E m \in M : m.name = n

\* It is for the names that have been matched.
LEMMA CallFor ==
  ASSUME NEW M \in SUBSET Match, Distinct(M), NEW optional, NEW path, NEW names, NEW base, Found(M, path, names, base)
  PROVE  LET k == Call(optional, path, M)
         IN  /\ Known(k, base) /\ For(k, names)
             /\ k.path = path /\ k.index = 0 /\ k.pc = "turn" /\ \A i \in {0, 1} : k.slot[i] = EmptySlot
<1> DEFINE k == Call(optional, path, M)
<1>1. k.dirs = InOrder(M) /\ k.path = path /\ k.index = 0 /\ k.pc = "turn" /\ \A i \in {0, 1} : k.slot[i] = EmptySlot
  BY DEF Call
<1>2. /\ \A i \in 1 .. Len(k.dirs) : k.dirs[i] \in M
      /\ \A m \in M : \E i \in 1 .. Len(k.dirs) : k.dirs[i] = m
      /\ \A i, j \in 1 .. Len(k.dirs) : k.dirs[i].name = k.dirs[j].name => i = j
  BY <1>1, InOrderNames
<1> HIDE DEF k
<1>3. \A i : Dir(k, i) = Append(path, k.dirs[i].name)
  BY <1>1 DEF Dir
<1>4. Known(k, base)
  <2>1. ASSUME NEW i \in 1 .. Len(k.dirs)
        PROVE  /\ k.dirs[i].in \intersect {"src", "dst"} # {}
               /\ \A s \in k.dirs[i].in : Dir(k, i) \in base[s].dirs
               /\ \A s \in {"src", "dst"} : Dir(k, i) \in base[s].dirs => s \in k.dirs[i].in
    <3> DEFINE m == k.dirs[i]
    <3>1. m \in M /\ Dir(k, i) = Append(path, m.name)
      BY <1>2, <1>3
    <3>2. /\ m.in \intersect {"src", "dst"} # {} /\ \A s \in m.in : Append(path, m.name) \in base[s].dirs
          /\ \A s \in {"src", "dst"} : Append(path, m.name) \in base[s].dirs => s \in m.in
      <4> HIDE DEF m
      <4>1. QED
        BY <3>1 DEF Found
    <3>3. QED
      BY <3>1, <3>2
  <2>2. QED
    BY <2>1, <1>2 DEF Known
<1>5. For(k, names)
  <2>1. \A i \in 1 .. Len(k.dirs) : k.dirs[i].name \in names
    BY <1>2 DEF Found
  <2>2. ASSUME NEW n \in names PROVE \E i \in 1 .. Len(k.dirs) : k.dirs[i].name = n
    <3>1. PICK m \in M : m.name = n
      BY DEF Found
    <3>2. QED
      BY <3>1, <1>2
  <2>3. QED
    BY <2>1, <2>2 DEF For
<1>6. QED
  BY <1>1, <1>4, <1>5 DEF k

LEMMA CallLive ==
  ASSUME Live, ~thrown, stack # <<>>, f.pc \in Processing, UNCHANGED <<trees, count, scanner, backup, thrown>>, PipelineInv',
         NEW g, NEW k, Begins(g, k)
  PROVE  Live'
<1>1. Steady /\ SoundInv
  BY SteadyTrees, LiveParts
<1>2. KnowsInv' /\ LinkInv'
  BY <1>1, CallKept, CallLinked
<1>3. Progress' /\ Tally'
  BY <1>1, CallDone, NothingDone
<1>4. SoundInv'
  <2>1. \A s \in Scanner : scanner'[s].state = "running" => scanner'[s].path \in tree[s].dirs
    BY <1>1 DEF SoundInv
  <2>2. QED
    BY <2>1, SoundStays
<1>5. QED
  BY <1>1, <1>2, <1>3, <1>4 DEF Live, ProgressInv, Steady

\* Lines 515-519: a call for what only the destination has.
LEMMA ExtraDirectoriesLive ==
  ASSUME Live, ~thrown, CopyExtraDirectories, f.work.extraDirs # {}, PipelineInv'
  PROVE  Live'
<1>1. /\ stack # <<>> /\ f.pc = "extraDirs" /\ UNCHANGED <<trees, count, scanner, backup, thrown>>
  BY DEF CopyExtraDirectories, at, UnchangedAround
<1>2. f.pc \in Processing /\ f.pc \notin Late \union {"directory"} /\ f.pc \notin Reading \union {"leave"} /\ f.pc \notin Waits
  BY <1>1 DEF Processing, Late, Reading, Waits
<1>3. /\ StackInv /\ KnowsInv /\ f \in Frame /\ f.index \in 1 .. Len(f.dirs) /\ here = HereOf(f) /\ here \in Path /\ CallOK(f)
      /\ WorkKnown(f, Base) /\ DataType
  BY <1>1, <1>2, LiveParts, Open, TopIsKnown, Innermost DEF CallKnows
<1> DEFINE g == [f EXCEPT !.pc = "directory", !.work.extraDirs = {}]
           M == f.work.extraDirs
           k == Call({}, here, M)
<1>4. /\ g \in Frame /\ g.pc = "directory" /\ g.path = f.path /\ g.dirs = f.dirs
      /\ g.index = f.index /\ g.slot = f.slot /\ g.work.extraDirs = {} /\ g.work.extraFiles = f.work.extraFiles
      /\ g.work.copyFiles = f.work.copyFiles /\ g.work.copyDirs = f.work.copyDirs
  <2>1. "directory" \in FramePc
    BY DEF FramePc
  <2>2. QED
    BY <2>1, <1>3 DEF Frame
<1>5. stack' = Append([stack EXCEPT ![Len(stack)] = g], k)
  BY <1>1 DEF CopyExtraDirectories, f
<1> HIDE DEF g
<1>6. /\ f.work.extraFiles = {}
      /\ \A m \in M : m.in = {"dst"} /\ m.name \in Here(before, HereOf(f)).dirs \ Here(tree["src"], HereOf(f)).dirs
      /\ \A n \in Here(before, HereOf(f)).dirs \ Here(tree["src"], HereOf(f)).dirs : \E m \in M : m.name = n
  BY <1>1, <1>2, <1>3, FilesAndDirs DEF FilesKnown, DirsKnown, Processing
<1>7. M \in SUBSET Match /\ Distinct(M)
  BY <1>3, FrameParts DEF CallOK, WorkOK
<1>8. HereOf(g) = HereOf(f)
  BY <1>4 DEF HereOf, Dir
<1>9. Handed(g, Base) = Here(before, HereOf(f)).dirs \ Here(tree["src"], HereOf(f)).dirs
  BY <1>3, <1>4, <1>8, BaseType DEF Handed, ExtraNames
<1>10. Found(M, here, Handed(g, Base), Base)
  <2>1. ASSUME NEW m \in M
        PROVE  Append(here, m.name) \in Base["dst"].dirs /\ Append(here, m.name) \notin Base["src"].dirs
    BY <1>3, <1>6, BaseType DEF Here
  <2>2. QED
    BY <2>1, <1>6, <1>9 DEF Found
<1>11. /\ Known(k, Base) /\ For(k, Handed(g, Base))
       /\ k.path = here /\ k.index = 0 /\ k.pc = "turn" /\ \A i \in {0, 1} : k.slot[i] = EmptySlot
  BY <1>7, <1>10, CallFor
<1>12. k \in Frame
  <2>1. {} \in SUBSET {"src", "ref"} /\ M # {} /\ \A m \in M : m.in \subseteq {} \union {"dst"}
    BY <1>6
  <2>2. CallOK(Call({}, here, M))
    BY <2>1, <1>3, <1>7, CallStarts
  <2>3. QED
    BY <2>2 DEF CallOK
<1> HIDE DEF k, M
<1>13. WorkKnown(g, Base)
  <2>1. g.pc \notin Waits /\ g.pc \notin Late /\ g.pc \notin {"subdirs", "attributes"}
    BY <1>4 DEF Waits, Late
  <2>2. QED
    BY <2>1, <1>2, <1>3, <1>4, <1>6, WorkShrinks
<1>14. /\ (g.pc \in Late <=> f.pc \in Late) /\ Ready(g, "caller", Base) = Ready(f, "inner", Base) /\ g.pc \in Calling
  <2>1. Ready(f, "inner", Base) = {} /\ g.pc \notin Late
    BY <1>2, <1>4, ReadyNames DEF Late
  <2>2. Ready(g, "caller", Base) = {}
    BY <2>1, <1>4 DEF Ready
  <2>3. QED
    BY <2>1, <2>2, <1>2, <1>4 DEF Calling
<1>15. Begins(g, k)
  BY <1>3, <1>4, <1>5, <1>11, <1>12, <1>13, <1>14 DEF Begins
<1>16. QED
  BY <1>1, <1>2, <1>15, CallLive

\* Lines 674-677: a call for what the source has.
LEMMA SubdirectoriesLive ==
  ASSUME Live, ~thrown, CopySubdirectories, ~(f.work.copyDirs = {} \/ "src" \notin match.in), PipelineInv'
  PROVE  Live'
<1>1. /\ stack # <<>> /\ f.pc = "subdirs" /\ UNCHANGED <<trees, count, scanner, backup, thrown>>
  BY DEF CopySubdirectories, at, UnchangedAround
<1>2. f.pc \in Processing /\ f.pc \in Late /\ f.pc \notin Reading \union {"leave"} /\ f.pc \notin Waits
  BY <1>1 DEF Processing, Late, Reading, Waits
<1>3. /\ StackInv /\ KnowsInv /\ f \in Frame /\ f.index \in 1 .. Len(f.dirs) /\ here = HereOf(f) /\ here \in Path /\ CallOK(f)
      /\ WorkKnown(f, Base) /\ DataType /\ ReadSlot(f) = read
  BY <1>1, <1>2, LiveParts, Open, TopIsKnown, Innermost DEF CallKnows
<1> DEFINE g == [f EXCEPT !.pc = "attributes"]
           M == f.work.copyDirs
           optional == read.path \intersect {"src", "ref"}
           k == Call(optional, here, M)
<1>4. /\ g \in Frame /\ g.pc = "attributes" /\ g.path = f.path /\ g.dirs = f.dirs
      /\ g.index = f.index /\ g.slot = f.slot /\ g.work = f.work
  <2>1. f \in Frame /\ "attributes" \in FramePc
    BY <1>3 DEF FramePc
  <2>2. QED
    BY <2>1 DEF Frame
<1>5. stack' = Append([stack EXCEPT ![Len(stack)] = g], k)
  BY <1>1 DEF CopySubdirectories, f
<1>6. /\ M \in SUBSET Match /\ Distinct(M) /\ M # {}
      /\ \A m \in M : m.in \subseteq read.path /\ "src" \in m.in
  BY <1>1, <1>3, FrameParts DEF CallOK, WorkOK
<1>7. read.path \subseteq {"src", "ref", "dst"}
  BY <1>1, <1>2, <1>3, ReadIsCurrent DEF Match, Scanner
<1>8. optional \in SUBSET {"src", "ref"} /\ \A m \in M : m.in \subseteq optional \union {"dst"}
  BY <1>6, <1>7
<1> HIDE DEF g, optional
<1>9. /\ f.work.extraFiles = {} /\ f.work.copyFiles = {}
      /\ \A m \in M : /\ m.name \in Here(tree["src"], HereOf(f)).dirs
                      /\ m.name \in Here(before, HereOf(f)).dirs => "dst" \in m.in
                      /\ \A s \in m.in : Append(HereOf(f), m.name) \in Base[s].dirs
      /\ \A n \in Here(tree["src"], HereOf(f)).dirs : \E m \in M : m.name = n
  BY <1>1, <1>2, <1>3, FilesAndDirs DEF FilesKnown, DirsKnown
<1>10. HereOf(g) = HereOf(f)
  BY <1>4 DEF HereOf, Dir
<1>11. Handed(g, Base) = Here(tree["src"], HereOf(f)).dirs
  BY <1>3, <1>4, <1>10, BaseType DEF Handed, SubNames
<1>12. Found(M, here, Handed(g, Base), Base)
  <2>1. ASSUME NEW m \in M, Append(here, m.name) \in Base["dst"].dirs PROVE "dst" \in m.in
    <3>1. m.name \in Names
      BY <1>9 DEF Here
    <3>2. m.name \in Here(before, HereOf(f)).dirs
      BY <2>1, <3>1, <1>3, BaseType DEF Here
    <3>3. QED
      BY <3>2, <1>9
  <2>2. \A m \in M : m.in \intersect {"src", "dst"} # {} /\ "src" \in m.in
    BY <1>6
  <2>3. QED
    BY <2>1, <2>2, <1>3, <1>9, <1>11 DEF Found
<1>13. /\ Known(k, Base) /\ For(k, Handed(g, Base))
       /\ k.path = here /\ k.index = 0 /\ k.pc = "turn" /\ \A i \in {0, 1} : k.slot[i] = EmptySlot
  BY <1>6, <1>12, CallFor
<1>14. k \in Frame
  BY <1>3, <1>6, <1>8, CallStarts DEF CallOK
<1> HIDE DEF k, M
<1>15. WorkKnown(g, Base)
  <2>1. g.pc \notin Waits /\ g.pc \in Late /\ g.pc \in Processing
    BY <1>4 DEF Waits, Late, Processing
  <2>2. QED
    BY <2>1, <1>2, <1>3, <1>4, <1>9, WorkShrinks
<1>16. /\ (g.pc \in Late <=> f.pc \in Late) /\ Ready(g, "caller", Base) = Ready(f, "inner", Base) /\ g.pc \in Calling
  BY <1>1, <1>2, <1>4, <1>10 DEF Calling, Late, Ready, ExtraNames
<1>17. Begins(g, k)
  BY <1>3, <1>4, <1>5, <1>13, <1>14, <1>15, <1>16 DEF Begins
<1>18. QED
  BY <1>1, <1>2, <1>17, CallLive

-----------------------------------------------------------------------------
(* A call returns. *)

\* The calls but the innermost one.
LEMMA Callers ==
  ASSUME StackInv, stack # <<>>
  PROVE  LET rest == SubSeq(stack, 1, Len(stack) - 1)
         IN  rest \in Seq(Frame) /\ Len(rest) = Len(stack) - 1 /\ \A d \in 1 .. Len(rest) : rest[d] = stack[d]
<1> DEFINE n == Len(stack) - 1
           rest == SubSeq(stack, 1, n)
<1>1. Len(stack) \in Nat /\ Len(stack) > 0 /\ stack \in Seq(Frame)
  BY Innermost DEF StackInv
<1>2. \A d \in 1 .. n : stack[d] \in Frame
  BY <1>1, ElementOfSeq
<1>3. n \in Int /\ n >= 0 /\ 1 \in Int /\ n - 1 + 1 = n
  BY <1>1
<1> HIDE DEF n
<1>4. /\ rest \in Seq(Frame) /\ Len(rest) = IF 1 <= n THEN n - 1 + 1 ELSE 0
      /\ \A d \in 1 .. n - 1 + 1 : rest[d] = stack[1 + d - 1]
  BY <1>2, <1>3, SubSeqProperties
<1>5. Len(rest) = n
  BY <1>3, <1>4
<1>6. \A d \in 1 .. n : rest[d] = stack[d]
  BY <1>3, <1>4
<1>7. QED
  BY <1>4, <1>5, <1>6 DEF n

\* The stack with one frame less.
LEMMA Popped ==
  ASSUME StackInv, stack # <<>>, ~thrown, Return
  PROVE  /\ Len(stack) \in Nat /\ Len(stack') \in Nat /\ Len(stack') = Len(stack) - 1
         /\ \A d \in 1 .. Len(stack') : d \in 1 .. Len(stack) - 1 /\ d \in 1 .. Len(stack) /\ stack'[d] = stack[d]
         /\ stack' = <<>> <=> Len(stack) = 1
         /\ stack' # <<>> => f' = stack[Len(stack) - 1] /\ Len(stack) - 1 \in 1 .. Len(stack) - 1
<1> DEFINE rest == SubSeq(stack, 1, Len(stack) - 1)
<1>1. Len(stack) \in Nat /\ Len(stack) > 0
  BY Innermost
<1>2. /\ rest \in Seq(Frame) /\ Len(rest) = Len(stack) - 1
      /\ \A d \in 1 .. Len(rest) : rest[d] = stack[d]
  BY Callers
<1> HIDE DEF rest
<1>3. stack' = rest
  BY DEF Return, rest
<1> DEFINE K == Len(stack)
<1>4. K \in Nat /\ K > 0 /\ K = Len(stack)
  BY <1>1
<1> HIDE DEF K
<1>5. K - 1 \in Nat /\ (\A d \in 1 .. K - 1 : d \in 1 .. K) /\ (K # 1 => K - 1 \in 1 .. K - 1 /\ K - 1 # 0)
  BY <1>4
<1>6. Len(stack') = K - 1 /\ stack' \in Seq(Frame) /\ (stack' = <<>> <=> K = 1)
  BY <1>2, <1>3, <1>4, EmptySeq
<1>7. stack' # <<>> => f' = stack[K - 1]
  BY <1>2, <1>3, <1>5, <1>6 DEF f
<1>8. QED
  BY <1>2, <1>3, <1>4, <1>5, <1>6, <1>7

\* A call that returns has dealt with all it was for.
LEMMA AllClosed ==
  ASSUME NEW g, NEW base, NEW names, g.pc = "leave", Len(g.dirs) \in Nat, g.index = Len(g.dirs) + 1, For(g, names)
  PROVE  /\ \A p : Closes(g, "inner", base, p) <=> \E n \in names : Under(Append(g.path, n), p)
         /\ \A p : ClosesDir(g, "inner", base, p) <=> Closes(g, "inner", base, p)
         /\ \A p : ClosesFile(g, "inner", base, p) <=> Closes(g, "inner", base, Parent(p))
<1>1. g.pc \notin Late \union {"directory"} /\ g.pc \notin Processing
  BY DEF Late, Processing
<1>2. Ready(g, "inner", base) = {}
  BY <1>1, ReadyNames
<1>3. \A j \in 1 .. Len(g.dirs) : j < g.index
  OBVIOUS
<1>4. ASSUME NEW p PROVE Closes(g, "inner", base, p) <=> \E n \in names : Under(Append(g.path, n), p)
  <2>1. Closes(g, "inner", base, p) <=> \E j \in 1 .. Len(g.dirs) : Under(Dir(g, j), p)
    BY <1>2, <1>3 DEF Closes
  <2>2. QED
    BY <2>1 DEF For, Dir
<1>5. QED
  BY <1>1, <1>4 DEF ClosesDir, ClosesFile, Syncs

\* So the caller has dealt with what it handed on.
LEMMA CallerCloses ==
  ASSUME NEW g, NEW h, NEW base, g.pc \in Calling, h.path = HereOf(g), For(h, Handed(g, base)),
         h.pc = "leave", Len(h.dirs) \in Nat, h.index = Len(h.dirs) + 1
  PROVE  /\ \A p : Closes(g, "inner", base, p) <=> Closes(g, "caller", base, p) \/ Closes(h, "inner", base, p)
         /\ \A p : ClosesDir(g, "inner", base, p) <=> ClosesDir(g, "caller", base, p) \/ ClosesDir(h, "inner", base, p)
         /\ \A p : ClosesFile(g, "inner", base, p) <=> ClosesFile(g, "caller", base, p) \/ ClosesFile(h, "inner", base, p)
<1>1. Ready(g, "inner", base) = Ready(g, "caller", base) \union Handed(g, base)
  BY DEF Ready, Handed, Calling, Late
<1>2. \A p : Closes(h, "inner", base, p) <=> \E n \in Handed(g, base) : Under(Append(HereOf(g), n), p)
  <2> DEFINE names == Handed(g, base)
  <2>1. For(h, names)
    OBVIOUS
  <2> HIDE DEF names
  <2>2. \A p : Closes(h, "inner", base, p) <=> \E n \in names : Under(Append(h.path, n), p)
    BY <2>1, AllClosed
  <2>3. QED
    BY <2>2 DEF names
<1>3. /\ \A p : ClosesDir(h, "inner", base, p) <=> Closes(h, "inner", base, p)
      /\ \A p : ClosesFile(h, "inner", base, p) <=> Closes(h, "inner", base, Parent(p))
  BY AllClosed
<1>4. \A p : Closes(g, "inner", base, p) <=> Closes(g, "caller", base, p) \/ Closes(h, "inner", base, p)
  BY <1>1, <1>2 DEF Closes
<1>5. QED
  BY <1>3, <1>4 DEF ClosesDir, ClosesFile

\* Lines 370-374: no scanner is at work after that.
LEMMA AllFree ==
  ASSUME DataType, AllFinished, Forget(Scanner)
  PROVE  Ended' = Scanner /\ \A s \in Scanner : scanner'[s].state = "idle"
<1>1. \A s \in Scanner : Finished(s)
  BY DEF AllFinished
<1>2. Scanner \in SUBSET Scanner
  OBVIOUS
<1>3. \A s \in Scanner : scanner'[s] = Idle
  BY <1>1, <1>2, Forgotten
<1>4. QED
  BY <1>3 DEF Ended, Idle

\* It returns to its caller.
LEMMA ReturnToCallLive ==
  ASSUME Live, ~thrown, Return, Len(stack) # 1, PipelineInv'
  PROVE  Live'
<1>1. /\ StackInv /\ KnowsInv /\ LinkInv /\ DataType /\ stack # <<>> /\ f.pc = "leave" /\ f \in Frame /\ Len(stack) \in Nat
      /\ f.index = Len(f.dirs) + 1 /\ Len(f.dirs) \in Nat /\ f = stack[Len(stack)] /\ Len(stack) > 0
  <2>1. StackInv /\ KnowsInv /\ LinkInv /\ DataType /\ stack # <<>> /\ f.pc = "leave"
    BY LiveParts DEF Return, at
  <2>2. f \in Frame
    BY <2>1, Innermost
  <2>3. QED
    BY <2>1, <2>2, FrameParts, Levels, Innermost DEF KnowsInv
<1>2. UNCHANGED <<trees, count, backup, thrown>> /\ Forget(Scanner) /\ AllFinished
  <2> DEFINE K == Len(stack)
  <2>1. K \in Nat /\ K > 0 /\ K # 1
    BY <1>1
  <2> HIDE DEF K
  <2>2. K > 1
    BY <2>1
  <2>3. QED
    BY <2>2 DEF Return, backup, K
<1>3. Steady
  BY <1>1, <1>2, SteadyTrees
<1> DEFINE e == Len(stack) - 1
           g == stack[e]
<1>4. /\ Len(stack') \in Nat /\ Len(stack') = e /\ stack' # <<>> /\ f' = g /\ e \in 1 .. e
      /\ \A d \in 1 .. e : d \in 1 .. Len(stack) - 1 /\ d \in 1 .. Len(stack) /\ stack'[d] = stack[d]
      /\ \A d \in 1 .. e - 1 : d \in 1 .. e
      /\ \A d \in 1 .. e : d = e \/ d \in 1 .. e - 1
      /\ e + 1 = Len(stack)
  <2>1. /\ Len(stack') \in Nat /\ Len(stack') = Len(stack) - 1 /\ stack' # <<>> /\ f' = stack[Len(stack) - 1]
        /\ Len(stack) - 1 \in 1 .. Len(stack) - 1
        /\ \A d \in 1 .. Len(stack') : d \in 1 .. Len(stack) - 1 /\ d \in 1 .. Len(stack) /\ stack'[d] = stack[d]
    BY <1>1, Popped
  <2> DEFINE n == Len(stack) - 1
  <2>2. n \in Nat
    BY <2>1
  <2> HIDE DEF n
  <2>3. (\A d \in 1 .. n - 1 : d \in 1 .. n) /\ (\A d \in 1 .. n : d = n \/ d \in 1 .. n - 1)
    BY <2>2
  <2>4. QED
    BY <2>1, <2>3, <1>1 DEF n
<1>5. g.pc \in Calling /\ CallOK(g) /\ CallKnows(g, Base) /\ ScanKnown(g, Base, Scanner)
      /\ f.path = HereOf(g) /\ For(f, Handed(g, Base))
  <2>1. e \in 1 .. Len(stack) - 1 /\ e \in 1 .. Len(stack) /\ stack[e + 1] = f
    BY <1>1, <1>4
  <2>2. QED
    BY <2>1, <1>1, Levels DEF KnowsInv, LinkInv
<1>6. /\ \A p : Closes(g, "inner", Base, p) <=> Closes(g, "caller", Base, p) \/ Closes(f, "inner", Base, p)
      /\ \A p : ClosesDir(g, "inner", Base, p) <=> ClosesDir(g, "caller", Base, p) \/ ClosesDir(f, "inner", Base, p)
      /\ \A p : ClosesFile(g, "inner", Base, p) <=> ClosesFile(g, "caller", Base, p) \/ ClosesFile(f, "inner", Base, p)
  <2> HIDE DEF g
  <2>1. QED
    BY <1>1, <1>5, CallerCloses
<1>7. Base' = Base /\ AllDirs' = AllDirs /\ AllFiles' = AllFiles /\ Pending' = Pending /\ group' = group
  BY <1>3 DEF Steady
<1>8. g = stack[e]
  OBVIOUS
<1>9. Len(stack) - 1 = e
  OBVIOUS
<1> HIDE DEF e, g
<1>10. ASSUME NEW p PROVE ClosedIn(p)' <=> ClosedIn(p)
  BY <1>1, <1>4, <1>6, <1>7, <1>8, <1>9 DEF ClosedIn
<1>11. ASSUME NEW p PROVE DirDone(p)' <=> DirDone(p)
  BY <1>1, <1>4, <1>6, <1>7, <1>8, <1>9 DEF DirDone
<1>12. ASSUME NEW p PROVE FileDone(p)' <=> FileDone(p)
  BY <1>1, <1>4, <1>6, <1>7, <1>8, <1>9 DEF FileDone
<1>13. ClosedDirs' = ClosedDirs /\ DoneDirs' = DoneDirs /\ DoneFiles' = DoneFiles
  BY <1>7, <1>10, <1>11, <1>12 DEF ClosedDirs, DoneDirs, DoneFiles
<1>14. Progress' /\ Tally'
  BY <1>1, <1>2, <1>3, <1>13, NothingDone
<1>15. Ended' = Scanner /\ \A s \in Scanner : scanner'[s].state = "idle"
  BY <1>1, <1>2, AllFree
<1>16. KnowsInv'
  <2>1. \A d \in 1 .. Len(stack') : CallKnows(stack'[d], Base')
    BY <1>1, <1>4, <1>7 DEF KnowsInv
  <2>2. \A d \in 1 .. Len(stack') - 1 : ScanKnown(stack'[d], Base', Scanner)
    BY <1>1, <1>4, <1>7 DEF KnowsInv
  <2>3. ScanKnown(f', Base', Ended') /\ f'.pc # "leave"
    BY <1>4, <1>5, <1>7, <1>15 DEF Calling
  <2>4. QED
    BY <2>1, <2>2, <2>3 DEF KnowsInv
<1>17. LinkInv'
  <2>1. stack'[1].path = <<>> /\ For(stack'[1], group')
    <3>1. 1 \in 1 .. e
      BY <1>4
    <3>2. stack'[1] = stack[1]
      BY <3>1, <1>4
    <3>3. QED
      BY <3>2, <1>1, <1>7 DEF LinkInv
  <2>2. ASSUME NEW d \in 1 .. Len(stack') - 1
        PROVE  stack'[d + 1].path = HereOf(stack'[d]) /\ For(stack'[d + 1], Handed(stack'[d], Base'))
    <3>1. d \in 1 .. e /\ d + 1 \in 1 .. e
      BY <1>4
    <3>2. stack'[d] = stack[d] /\ stack'[d + 1] = stack[d + 1] /\ d \in 1 .. Len(stack) - 1
      BY <3>1, <1>4
    <3>3. QED
      BY <3>2, <1>1, <1>7 DEF LinkInv
  <2>3. ASSUME NEW d \in 1 .. Len(stack'), NEW i \in 1 .. Len(stack'), d < i PROVE Within(stack'[d], stack'[i], Base')
    <3>1. stack'[d] = stack[d] /\ stack'[i] = stack[i] /\ d \in 1 .. Len(stack) /\ i \in 1 .. Len(stack)
      BY <1>4
    <3>2. QED
      BY <3>1, <2>3, <1>1, <1>7 DEF LinkInv
  <2>4. QED
    BY <2>1, <2>2, <2>3 DEF LinkInv
<1>18. SoundInv'
  <2>1. \A s \in Scanner : scanner'[s].state = "running" => scanner'[s].path \in tree[s].dirs
    BY <1>15
  <2>2. QED
    BY <2>1, <1>1, <1>2, SoundStays
<1>19. QED
  BY <1>3, <1>14, <1>16, <1>17, <1>18 DEF Live, ProgressInv, Steady

\* A path is below its root,
LEMMA FirstUnder ==
  ASSUME NEW p \in Path, p # <<>>, NEW n \in Names
  PROVE  Under(Append(<<>>, n), p) <=> p[1] = n
<1>1. <<>> \in Path /\ Len(<<>>) = 0 /\ Len(p) \in Nat /\ Len(p) # 0
  BY EmptySeq, LenProperties DEF Path
<1>2. Len(Append(<<>>, n)) = 1 /\ Append(<<>>, n)[1] = n
  BY <1>1, AppendParts
<1>3. QED
  BY <1>1, <1>2 DEF Under

\* as is its parent.
LEMMA ParentFirst ==
  ASSUME NEW p \in Path, p # <<>>
  PROVE  Parent(p) \in Path /\ (Parent(p) # <<>> => Parent(p)[1] = p[1]) /\ (Parent(p) = <<>> => p = Append(<<>>, p[1]))
<1> DEFINE r == Parent(p)
           n == p[Len(p)]
<1>1. r \in Path /\ n \in Names /\ p = Append(r, n)
  BY Split
<1> HIDE DEF r, n
<1>2. p[1] = IF r = <<>> THEN n ELSE r[1]
  BY <1>1, FirstOfAppend
<1>3. QED
  BY <1>1, <1>2 DEF r

\* The outermost call has dealt with its group.
LEMMA OutermostDone ==
  ASSUME Live, stack # <<>>, Len(stack) = 1, f.pc = "leave"
  PROVE  /\ group # {}
         /\ DoneDirs = {p \in AllDirs : p[1] \notin UNION todo} /\ ClosedDirs = {p \in AllDirs : p[1] \notin UNION todo}
         /\ DoneFiles = {p \in AllFiles : p[1] \notin UNION todo}
<1>1. /\ StackInv /\ KnowsInv /\ TodoInv /\ DataType /\ PipelineInv /\ SoundInv /\ pc = "copy" /\ f \in Frame /\ CallOK(f)
      /\ f.index = Len(f.dirs) + 1 /\ Len(f.dirs) \in Nat /\ f.path = <<>> /\ For(f, group) /\ group \subseteq Names
  <2>1. StackInv /\ KnowsInv /\ TodoInv /\ DataType /\ PipelineInv /\ SoundInv /\ pc = "copy" /\ f \in Frame /\ CallOK(f)
    BY LiveParts, Innermost
  <2>2. f.path = <<>> /\ For(f, group)
    BY LiveParts, Levels DEF LinkInv
  <2>3. QED
    BY <2>1, <2>2, FrameParts DEF KnowsInv, DataType
<1>2. group # {}
  BY <1>1 DEF CallOK, For
<1>3. /\ \A p : Closes(f, "inner", Base, p) <=> \E n \in group : Under(Append(f.path, n), p)
      /\ \A p : ClosesDir(f, "inner", Base, p) <=> Closes(f, "inner", Base, p)
      /\ \A p : ClosesFile(f, "inner", Base, p) <=> Closes(f, "inner", Base, Parent(p))
  BY <1>1, AllClosed
<1>4. ASSUME NEW p \in Path, p # <<>> PROVE Closes(f, "inner", Base, p) <=> p[1] \in group
  BY <1>1, <1>3, <1>4, FirstUnder
<1>5. ~Closes(f, "inner", Base, <<>>)
  <2>1. ASSUME NEW n \in group, Under(Append(<<>>, n), <<>>) PROVE FALSE
    <3>1. <<>> \in Path /\ n \in Names
      BY <1>1, EmptySeq DEF Path
    <3>2. QED
      BY <3>1, <2>1, UnderParent
  <2>2. QED
    BY <2>1, <1>1, <1>3
<1>6. ASSUME NEW p \in AllFiles PROVE Closes(f, "inner", Base, Parent(p)) <=> p[1] \in group
  <2>1. p \in Path /\ p # <<>> /\ p \in before.files \union tree["src"].files
    BY DEF AllFiles, Region
  <2>2. CASE Parent(p) # <<>>
    BY <2>1, <2>2, <1>4, ParentFirst
  <2>3. CASE Parent(p) = <<>>
    <3>1. p = Append(<<>>, p[1])
      BY <2>1, <2>3, ParentFirst
    <3>2. ASSUME p[1] \in group PROVE FALSE
      <4>1. p \in tree["src"].dirs
        BY <3>1, <3>2, <1>1 DEF TodoInv, Asked, Here
      <4>2. p \notin tree["src"].files
        BY <4>1, <1>1, TreesSound DEF WellFormed
      <4>3. p \notin before.files
        BY <3>1, <3>2, <1>1, OutermostKnown DEF For
      <4>4. QED
        BY <4>2, <4>3, <2>1
    <3>3. QED
      BY <3>2, <2>3, <1>5
  <2>4. QED
    BY <2>2, <2>3
<1>7. Pending = (UNION todo) \union group /\ group \intersect (UNION todo) = {}
  BY <1>1 DEF Pending, TodoInv
<1>8. \A d : d \notin 1 .. Len(stack) - 1
  OBVIOUS
<1>9. /\ \A p : DirDone(p) <=> ClosesDir(f, "inner", Base, p)
      /\ \A p : ClosedIn(p) <=> Closes(f, "inner", Base, p)
      /\ \A p : FileDone(p) <=> ClosesFile(f, "inner", Base, p)
  BY <1>8 DEF DirDone, ClosedIn, FileDone
<1>10. \A p \in AllDirs : (DirDone(p) <=> p[1] \in group) /\ (ClosedIn(p) <=> p[1] \in group)
  BY <1>3, <1>4, <1>9 DEF AllDirs, Region
<1>11. \A p \in AllFiles : FileDone(p) <=> p[1] \in group
  BY <1>3, <1>6, <1>9
<1>12. QED
  BY <1>2, <1>7, <1>10, <1>11 DEF DoneDirs, ClosedDirs, DoneFiles

\* The next group is on its turn.
LEMMA ReturnToBackupLive ==
  ASSUME Live, ~thrown, Return, Len(stack) = 1, PipelineInv'
  PROVE  Live'
<1>1. /\ StackInv /\ DataType /\ stack # <<>> /\ f.pc = "leave" /\ SoundInv /\ TodoInv /\ RootsKnown /\ Progress /\ Tally
      /\ pc = "copy"
  BY LiveParts DEF Return, at
<1>2. /\ UNCHANGED <<trees, count, todo, group, root, thrown>> /\ pc' = "group" /\ Forget(Scanner) /\ AllFinished
      /\ UNCHANGED <<tree, fresh, before, dryRun>> /\ dst' = dst
  BY DEF Return, trees, dst
<1>3. stack' = <<>> /\ Len(stack') = 0
  BY <1>1, Popped
<1>4. Base' = Base /\ Region' = Region /\ AllDirs' = AllDirs /\ AllFiles' = AllFiles /\ Asked' = Asked
  BY <1>1, <1>2, BaseStays DEF DataType
<1>5. /\ group # {}
      /\ DoneDirs = {p \in AllDirs : p[1] \notin UNION todo} /\ ClosedDirs = {p \in AllDirs : p[1] \notin UNION todo}
      /\ DoneFiles = {p \in AllFiles : p[1] \notin UNION todo}
  BY <1>1, OutermostDone
<1>6. Pending' = UNION todo
  BY <1>2 DEF Pending
<1>7. /\ DoneDirs' = {p \in AllDirs' : p[1] \notin Pending'} /\ ClosedDirs' = {p \in AllDirs' : p[1] \notin Pending'}
      /\ DoneFiles' = {p \in AllFiles' : p[1] \notin Pending'}
      /\ KnowsInv' /\ LinkInv'
  <2>1. KnowsInv' /\ LinkInv'
    BY <1>3 DEF KnowsInv, LinkInv
  <2>2. QED
    BY <2>1, <1>3 DEF DoneDirs, ClosedDirs, DoneFiles, DirDone, ClosedIn, FileDone
<1>8. DoneDirs' = DoneDirs /\ ClosedDirs' = ClosedDirs /\ DoneFiles' = DoneFiles
  BY <1>4, <1>5, <1>6, <1>7
<1>9. Progress'
  BY <1>1, <1>2, <1>4, <1>8 DEF Progress
<1>10. Tally'
  BY <1>1, <1>2, <1>8 DEF Tally
<1>11. RootsKnown'
  <2>1. ASSUME NEW s \in {"ref", "dst"} PROVE ~First(s)' /\ RootTrue(s) /\ (s = "dst" => root[s].files = {})
    <3>1. ~First(s)'
      BY <1>2, <1>5 DEF First
    <3>2. ~First(s)
      BY <1>1 DEF First
    <3>3. QED
      BY <3>1, <3>2, <1>1 DEF RootsKnown
  <2>2. \A s \in {"ref", "dst"} : RootTrue(s)'
    BY <2>1, <1>2, <1>4, RootStays
  <2>3. QED
    BY <2>1, <2>2, <1>2 DEF RootsKnown
<1>12. TodoInv'
  <2>1. group # {} /\ pc' = "group" /\ group' = group /\ todo' = todo /\ Asked' = Asked /\ pc # "idle"
    BY <1>1, <1>2, <1>4, <1>5
  <2>2. QED
    BY <2>1, <1>1 DEF TodoInv
<1>13. SoundInv'
  <2>1. \A s \in Scanner : scanner'[s].state = "idle"
    BY <1>1, <1>2, AllFree
  <2>2. QED
    BY <2>1, <1>1, <1>2 DEF SoundInv
<1>14. QED
  BY <1>7, <1>9, <1>10, <1>11, <1>12, <1>13 DEF Live, ProgressInv

-----------------------------------------------------------------------------
(* Steps of CreateBackup. *)

\* A root that is not there has nothing that is asked for, and never had.
LEMMA NoRoot ==
  ASSUME Live, stack = <<>>, pc # "idle", NEW s \in {"ref", "dst"}, First(s) \/ pc = "roots", ~Exists(s)
  PROVE  s = "dst" => /\ Here(Base[s], <<>>).dirs \intersect Asked = {}
                      /\ Here(Base[s], <<>>).files \intersect Asked = {}
<1> SUFFICES ASSUME s = "dst" PROVE /\ Here(Base[s], <<>>).dirs \intersect Asked = {}
                                    /\ Here(Base[s], <<>>).files \intersect Asked = {}
  OBVIOUS
<1>1. <<>> \in Path /\ <<>> \notin dst.dirs /\ WellFormed(dst) /\ tree[s] = dst
  BY LiveParts, TreesSound, EmptySeq DEF Exists, dst, Path
<1>2. Here(tree[s], <<>>) = NoLists
  BY <1>1, NothingHere
<1>3. \A n \in Asked : /\ n \in Here(tree[s], <<>>).dirs <=> n \in Here(Base[s], <<>>).dirs
                       /\ n \in Here(tree[s], <<>>).files <=> n \in Here(Base[s], <<>>).files
  BY RootsAreOld
<1>4. \A n \in Asked : n \notin Here(Base[s], <<>>).dirs /\ n \notin Here(Base[s], <<>>).files
  BY <1>2, <1>3 DEF NoLists
<1>5. QED
  BY <1>4

\* Lines 275-282.
LEMMA OrderRootsLive ==
  ASSUME Live, ~thrown, OrderRoots, PipelineInv'
  PROVE  Live'
<1>1. /\ pc = "roots" /\ pc' = "group" /\ stack = <<>> /\ stack' = <<>> /\ group = {} /\ group' = group /\ todo' = todo
      /\ UNCHANGED <<trees, count, thrown>> /\ root' = root /\ \A s \in Scanner : Free(s) /\ root[s] = NoLists
      /\ DataType /\ SoundInv /\ TodoInv
  BY LiveParts DEF OrderRoots, RootInv
<1>2. Base' = Base /\ Asked' = Asked /\ tree' = tree
  BY <1>1 DEF Base, Asked, trees
<1>3. Pending' = Pending
  BY <1>1 DEF Pending
<1>4. TodoInv'
  BY <1>1, <1>2, <1>3 DEF TodoInv
<1>5. \A s \in Scanner : scanner'[s] = IF s # "src" /\ Exists(s) THEN [Idle EXCEPT !.state = "running"] ELSE scanner[s]
  BY DEF OrderRoots
<1>6. [Idle EXCEPT !.state = "running"].state = "running" /\ [Idle EXCEPT !.state = "running"].path = <<>>
  BY DEF Idle
<1>7. RootsKnown'
  <2> SUFFICES ASSUME NEW s \in {"ref", "dst"}
               PROVE  /\ Free(s)' => ~Exists(s)'
                      /\ scanner'[s].state \in {"idle", "lists"} => RootTrue(s)'
    BY <1>1 DEF RootsKnown, First
  <2>1. s \in Scanner /\ s # "src" /\ (Exists(s)' <=> Exists(s))
    BY <1>2 DEF Scanner, Exists
  <2>2. Exists(s) => scanner'[s].state = "running"
    BY <2>1, <1>5, <1>6
  <2>3. ASSUME ~Exists(s) PROVE RootTrue(s)'
    <3>1. s = "dst" => /\ Here(Base[s], <<>>).dirs \intersect Asked = {}
                       /\ Here(Base[s], <<>>).files \intersect Asked = {}
      BY <2>3, <1>1, NoRoot
    <3>2. root'[s].dirs = {} /\ root'[s].files = {}
      BY <2>1, <1>1 DEF NoLists
    <3>3. QED
      BY <3>1, <3>2, <1>2 DEF RootTrue
  <2>4. QED
    BY <2>1, <2>2, <2>3 DEF Free
<1>8. ASSUME NEW s \in Scanner, scanner'[s].state = "running" PROVE scanner'[s].path \in tree[s].dirs
  <2>1. CASE s # "src" /\ Exists(s)
    BY <2>1, <1>5, <1>6 DEF Exists
  <2>2. CASE ~(s # "src" /\ Exists(s))
    BY <2>2, <1>1, <1>5, <1>8 DEF Free
  <2>3. QED
    BY <2>1, <2>2
<1>9. QED
  BY <1>1, <1>3, <1>4, <1>7, <1>8, BetweenLive

\* Lines 284-300: there is no group left;
LEMMA LastGroupLive ==
  ASSUME Live, ~thrown, NextGroup, todo = {}, pc' = "leave", UNCHANGED <<todo, group, root, scanner>>, PipelineInv'
  PROVE  Live'
<1>1. /\ pc = "group" /\ stack = <<>> /\ stack' = <<>> /\ UNCHANGED <<trees, count, thrown>>
      /\ SoundInv /\ TodoInv
  BY LiveParts DEF NextGroup, RootInv
<1>2. Base' = Base /\ Asked' = Asked /\ Pending' = Pending
  BY <1>1 DEF Base, Asked, trees, Pending
<1>3. TodoInv'
  BY <1>1, <1>2 DEF TodoInv
<1>4. RootsKnown'
  BY DEF RootsKnown, First
<1>5. \A s \in Scanner : scanner'[s].state = "running" => scanner'[s].path \in tree[s].dirs
  BY <1>1 DEF SoundInv
<1>6. QED
  BY <1>1, <1>2, <1>3, <1>4, <1>5, BetweenLive

\* what is known of a root that has not been waited for;
LEMMA FirstAgain ==
  ASSUME NEW s \in {"ref", "dst"}, RootsKnown, First(s), First(s)', scanner'[s] = scanner[s], root'[s] = root[s],
         Base' = Base, Asked' = Asked, tree' = tree
  PROVE  /\ First(s)' /\ Free(s)' => ~Exists(s)'
         /\ First(s)' /\ scanner'[s].state \in {"idle", "lists"} => RootTrue(s)'
         /\ ~First(s)' /\ (pc' \in {"waitDst", "waitSrc", "copy"} \/ (pc' = "group" /\ group' # {})) =>
              RootTrue(s)' /\ (s = "dst" => root'[s].files = {})
<1>1. RootTrue(s) => RootTrue(s)'
  BY RootStays
<1>2. QED
  BY <1>1 DEF RootsKnown, Free, Exists

\* the next group.
LEMMA OneGroupLive ==
  ASSUME Live, ~thrown, NextGroup, NEW g \in todo, group' = g, todo' = todo \ {g}, root' = [root EXCEPT !["src"] = NoLists],
         scanner' = Order("src", 0, 0, <<>>), pc' = IF group = {} THEN "waitRef" ELSE "waitSrc", PipelineInv'
  PROVE  Live'
<1>1. /\ pc = "group" /\ stack = <<>> /\ stack' = <<>> /\ UNCHANGED <<trees, count, thrown>>
      /\ SoundInv /\ TodoInv /\ DataType /\ Progress /\ AskedInv /\ RootsKnown /\ PipelineInv
  BY LiveParts DEF NextGroup, RootInv
<1>2. Base' = Base /\ Asked' = Asked /\ tree' = tree
  BY <1>1 DEF Base, Asked, trees
<1>3. /\ (UNION todo') \union g = UNION todo /\ g # {} /\ g \subseteq Asked
      /\ g \intersect (UNION todo') = {}
  <2>1. \A h \in todo : g = h \/ g \intersect h = {}
    BY <1>1 DEF TodoInv
  <2>2. g # {} /\ g \subseteq Asked
    BY <1>1 DEF AskedInv
  <2>3. \A h : h \in todo <=> h \in todo' \/ h = g
    OBVIOUS
  <2>4. (UNION todo') \union g = UNION todo
    BY <2>3
  <2>5. \A h \in todo' : g \intersect h = {}
    BY <2>1
  <2>6. g \intersect (UNION todo') = {}
    BY <2>5
  <2>7. QED
    BY <2>2, <2>4, <2>6
<1>4. Pending' = Pending
  <2>1. Pending' = (UNION todo') \union g
    BY DEF Pending
  <2>2. Pending = UNION todo
    BY <1>1 DEF Pending
  <2>3. \A n : n \in (UNION todo') \union g <=> n \in UNION todo
    OBVIOUS
  <2>4. QED
    BY <2>1, <2>2, <2>3
<1>5. TodoInv'
  <2>1. pc' = "waitRef" => Pending = Asked
    BY <1>1 DEF TodoInv
  <2>2. pc' \in {"waitRef", "waitSrc"}
    OBVIOUS
  <2>3. \A h, i \in todo' : h = i \/ h \intersect i = {}
    BY <1>1 DEF TodoInv
  <2>4. (UNION todo') \subseteq Asked
    BY <1>1 DEF TodoInv
  <2>5. QED
    BY <2>1, <2>2, <2>3, <2>4, <1>2, <1>3, <1>4 DEF TodoInv
<1>6. \A s \in {"ref", "dst"} : s \in Scanner /\ scanner'[s] = scanner[s] /\ root'[s] = root[s]
  BY <1>1 DEF Order, Scanner, DataType
<1>7. RootsKnown'
  <2>1. CASE group = {}
    <3>1. \A s \in {"ref", "dst"} : First(s) /\ First(s)'
      BY <2>1, <1>1 DEF First
    <3>2. QED
      BY <3>1, <1>1, <1>2, <1>6, FirstAgain DEF RootsKnown
  <2>2. CASE group # {}
    <3>1. \A s \in {"ref", "dst"} : ~First(s) /\ ~First(s)'
      BY <2>2, <1>1 DEF First
    <3>2. \A s \in {"ref", "dst"} : RootTrue(s) /\ (s = "dst" => root[s].files = {})
      BY <3>1, <2>2, <1>1 DEF RootsKnown
    <3>3. \A s \in {"ref", "dst"} : RootTrue(s)'
      BY <3>2, <1>2, <1>6, RootStays
    <3>4. QED
      BY <3>1, <3>2, <3>3, <1>6 DEF RootsKnown
  <2>3. QED
    BY <2>1, <2>2
<1>8. <<>> \in tree["src"].dirs
  <2>1. PICK n \in g : TRUE
    BY <1>3
  <2>2. n \in Names /\ Append(<<>>, n) \in tree["src"].dirs /\ <<>> \in Path
    BY <2>1, <1>3, EmptySeq DEF Asked, Here, Path
  <2>3. WellFormed(tree["src"])
    BY <1>1, TreesSound
  <2>4. Here(tree["src"], <<>>) # NoLists
    BY <2>2 DEF Here, NoLists
  <2>5. QED
    BY <2>2, <2>3, <2>4, NothingHere
<1>9. ASSUME NEW s \in Scanner, scanner'[s].state = "running" PROVE scanner'[s].path \in tree[s].dirs
  <2>1. CASE s = "src"
    <3>1. scanner'[s].path = <<>>
      BY <2>1, <1>1 DEF Order, DataType
    <3>2. QED
      BY <3>1, <2>1, <1>8
  <2>2. CASE s # "src"
    BY <2>2, <1>1, <1>6, <1>9 DEF SoundInv, Scanner
  <2>3. QED
    BY <2>1, <2>2
<1>10. ~dryRun => (pc' \in {"waitSrc", "copy"} \/ (pc' = "group" /\ group' # {}) => <<>> \in dst.dirs)
  BY <1>1 DEF Progress
<1>11. QED
  BY <1>1, <1>4, <1>5, <1>7, <1>9, <1>10, BetweenLive

LEMMA NextGroupLive ==
  ASSUME Live, ~thrown, NextGroup, PipelineInv'
  PROVE  Live'
<1>1. CASE todo = {} /\ pc' = "leave" /\ UNCHANGED <<todo, group, root, scanner>>
  BY <1>1, LastGroupLive
<1>2. CASE \E g \in todo :
             /\ group' = g /\ todo' = todo \ {g}
             /\ root' = [root EXCEPT !["src"] = NoLists]
             /\ scanner' = Order("src", 0, 0, <<>>)
             /\ pc' = IF group = {} THEN "waitRef" ELSE "waitSrc"
  BY <1>2, OneGroupLive
<1>3. QED
  BY <1>1, <1>2 DEF NextGroup

\* Lines 302-312: the roots of ref and dst are known from then on.
LEMMA WaitForReferenceLive ==
  ASSUME Live, ~thrown, WaitForRoot("ref", "dst"), scanner["ref"].state # "exception", root["ref"].files = {}, PipelineInv'
  PROVE  Live'
<1>1. /\ pc = "waitRef" /\ pc' = "waitDst" /\ UNCHANGED <<trees, count, todo, group, root, stack, thrown>>
      /\ Finished("ref") /\ Forget({"ref"})
  BY DEF WaitForRoot, Waiting
<1>2. /\ stack = <<>> /\ stack' = <<>> /\ DataType /\ SoundInv /\ TodoInv /\ RootsKnown /\ RootInv
  BY <1>1, LiveParts
<1>3. Base' = Base /\ Asked' = Asked /\ tree' = tree /\ Pending' = Pending
  BY <1>1 DEF Base, Asked, trees, Pending
<1>4. TodoInv'
  BY <1>1, <1>2, <1>3 DEF TodoInv
<1>5. \A s \in Scanner : scanner'[s] = IF s = "ref" THEN Idle ELSE scanner[s]
  <2>1. {"ref"} \in SUBSET Scanner /\ \A s \in {"ref"} : Finished(s)
    BY <1>1 DEF Scanner
  <2>2. QED
    BY <2>1, <1>1, <1>2, Forgotten
<1>6. RootTrue("ref")'
  <2>1. scanner["ref"].state \in {"idle", "lists"}
    BY <1>1, <1>2 DEF Finished, DataType, Scan, Scanner
  <2>2. RootTrue("ref")
    BY <2>1, <1>1, <1>2 DEF RootsKnown, First
  <2>3. QED
    BY <2>2, <1>1, <1>3, RootStays
<1>7. RootsKnown'
  <2>1. ~First("ref")' /\ First("dst") /\ First("dst")'
    BY <1>1 DEF First
  <2>2. scanner'["dst"] = scanner["dst"] /\ root'["dst"] = root["dst"]
    BY <1>1, <1>5 DEF Scanner
  <2>3. QED
    BY <2>1, <2>2, <1>2, <1>3, <1>6, FirstAgain DEF RootsKnown
<1>8. \A s \in Scanner : scanner'[s].state = "running" => scanner'[s].path \in tree[s].dirs
  BY <1>2, <1>5 DEF SoundInv, Idle
<1>9. QED
  BY <1>1, <1>2, <1>3, <1>4, <1>7, <1>8, BetweenLive

LEMMA WaitForDestinationLive ==
  ASSUME Live, ~thrown, WaitForRoot("dst", "src"), scanner["dst"].state # "exception", root["dst"].files = {}, PipelineInv'
  PROVE  Live'
<1>1. /\ pc = "waitDst" /\ pc' = "waitSrc" /\ UNCHANGED <<trees, count, todo, group, root, stack, thrown>>
      /\ Finished("dst") /\ Forget({"dst"}) /\ Exists("dst")
  BY DEF WaitForRoot, Waiting
<1>2. /\ stack = <<>> /\ stack' = <<>> /\ DataType /\ SoundInv /\ TodoInv /\ RootsKnown /\ RootInv
  BY <1>1, LiveParts
<1>3. Base' = Base /\ Asked' = Asked /\ tree' = tree /\ Pending' = Pending
  BY <1>1 DEF Base, Asked, trees, Pending
<1>4. TodoInv'
  BY <1>1, <1>2, <1>3 DEF TodoInv
<1>5. \A s \in Scanner : scanner'[s] = IF s = "dst" THEN Idle ELSE scanner[s]
  <2>1. {"dst"} \in SUBSET Scanner /\ \A s \in {"dst"} : Finished(s)
    BY <1>1 DEF Scanner
  <2>2. QED
    BY <2>1, <1>1, <1>2, Forgotten
<1>6. RootTrue("ref") /\ RootTrue("dst")
  <2>1. scanner["dst"].state \in {"idle", "lists"}
    BY <1>1, <1>2 DEF Finished, DataType, Scan, Scanner
  <2>2. QED
    BY <2>1, <1>1, <1>2 DEF RootsKnown, First
<1>7. RootsKnown'
  <2>1. RootTrue("ref")' /\ RootTrue("dst")'
    BY <1>1, <1>3, <1>6, RootStays
  <2>2. ~First("ref")' /\ ~First("dst")'
    BY <1>1 DEF First
  <2>3. QED
    BY <2>1, <2>2, <1>1 DEF RootsKnown
<1>8. \A s \in Scanner : scanner'[s].state = "running" => scanner'[s].path \in tree[s].dirs
  BY <1>2, <1>5 DEF SoundInv, Idle
<1>9. <<>> \in dst.dirs
  BY <1>1 DEF Exists, dst
<1>10. QED
  BY <1>1, <1>2, <1>3, <1>4, <1>7, <1>8, <1>9, BetweenLive

\* There is no ref,
LEMMA NoReferenceLive ==
  ASSUME Live, ~thrown, NoReference, PipelineInv'
  PROVE  Live'
<1>1. /\ pc = "waitRef" /\ pc' = "waitDst" /\ UNCHANGED <<trees, count, scanner, todo, group, root, stack, thrown>>
      /\ ~Exists("ref")
  BY DEF NoReference
<1>2. /\ stack = <<>> /\ stack' = <<>> /\ DataType /\ SoundInv /\ TodoInv /\ RootsKnown /\ RootInv
  BY <1>1, LiveParts
<1>3. Base' = Base /\ Asked' = Asked /\ tree' = tree /\ Pending' = Pending
  BY <1>1 DEF Base, Asked, trees, Pending
<1>4. TodoInv'
  BY <1>1, <1>2, <1>3 DEF TodoInv
<1>5. RootTrue("ref")'
  <2>1. scanner["ref"].state = "idle"
    BY <1>1, <1>2 DEF RootInv, Scanner
  <2>2. RootTrue("ref")
    BY <2>1, <1>1, <1>2 DEF RootsKnown, First
  <2>3. QED
    BY <2>2, <1>1, <1>3, RootStays
<1>6. RootsKnown'
  <2>1. ~First("ref")' /\ First("dst") /\ First("dst")'
    BY <1>1 DEF First
  <2>2. scanner'["dst"] = scanner["dst"] /\ root'["dst"] = root["dst"]
    BY <1>1
  <2>3. QED
    BY <2>1, <2>2, <1>2, <1>3, <1>5, FirstAgain DEF RootsKnown
<1>7. \A s \in Scanner : scanner'[s].state = "running" => scanner'[s].path \in tree[s].dirs
  BY <1>1, <1>2 DEF SoundInv
<1>8. QED
  BY <1>1, <1>2, <1>3, <1>4, <1>6, <1>7, BetweenLive

\* Before the first group, nothing has been done.
LEMMA NothingYet ==
  ASSUME stack' = <<>>, Pending' = Asked'
  PROVE  DoneDirs' = {} /\ ClosedDirs' = {} /\ DoneFiles' = {} /\ KnowsInv' /\ LinkInv'
<1>1. Len(stack') = 0
  OBVIOUS
<1>2. KnowsInv' /\ LinkInv'
  BY <1>1 DEF KnowsInv, LinkInv
<1>3. \A p : ~DirDone(p)' /\ ~ClosedIn(p)' /\ ~FileDone(p)'
  BY DEF DirDone, ClosedIn, FileDone
<1>4. QED
  BY <1>2, <1>3 DEF DoneDirs, ClosedDirs, DoneFiles, AllDirs, AllFiles, Region

\* or no dst, lines 313-317.
LEMMA CreateDestinationLive ==
  ASSUME Live, ~thrown, CreateDestination, PipelineInv'
  PROVE  Live'
<1>1. /\ pc = "waitDst" /\ pc' = "waitSrc" /\ UNCHANGED <<count, scanner, todo, group, root, stack, thrown>>
      /\ ~Exists("dst") /\ Write(dst.dirs \union {<<>>}, dst.files, {}, {})
  BY DEF CreateDestination
<1>2. /\ stack = <<>> /\ stack' = <<>> /\ DataType /\ SoundInv /\ TodoInv /\ RootsKnown /\ RootInv /\ PipelineInv /\ Progress
      /\ Tally
  BY <1>1, LiveParts
<1> DEFINE dirs == dst.dirs \union {<<>>}
           files == dst.files
<1>3. dirs \in SUBSET Path /\ files \in SUBSET Path /\ WellFormed(dst) /\ <<>> \in Path
  BY <1>1, <1>2, TreesSound, EmptySeq DEF Path
<1>4. WellFormed([dirs |-> dirs, files |-> files])
  BY <1>3 DEF WellFormed
<1>5. Write(dirs, files, {}, {}) /\ <<>> \in dirs /\ \A p \in Region : p \in dirs <=> p \in dst.dirs
  BY <1>1 DEF Region
<1>6. files = dst.files
  OBVIOUS
<1> HIDE DEF dirs, files
<1>7. /\ tree' \in [Scanner -> Tree] /\ tree'["src"] = tree["src"] /\ tree'["ref"] = tree["ref"]
      /\ before' = before /\ dryRun' = dryRun
      /\ IF dryRun THEN dst' = dst ELSE dst' = [dirs |-> dirs, files |-> files]
  BY <1>2, <1>3, <1>5, WriteTypes
<1>8. Base' = Base /\ Asked' = Asked /\ Region' = Region /\ AllDirs' = AllDirs /\ AllFiles' = AllFiles
  BY <1>2, <1>7, BaseStays
<1>9. Pending' = Pending /\ Pending = Asked
  BY <1>1, <1>2 DEF Pending, TodoInv
<1>10. DoneDirs' = {} /\ ClosedDirs' = {} /\ DoneFiles' = {} /\ KnowsInv' /\ LinkInv'
  BY <1>2, <1>8, <1>9, NothingYet
<1>11. DoneDirs = {} /\ DoneFiles = {}
  BY <1>2, <1>9, NoCall DEF AllDirs, AllFiles, Region
<1>12. Progress'
  <2>1. CASE dryRun
    BY <2>1, <1>2, <1>7 DEF Progress
  <2>2. CASE ~dryRun
    <3>1. dst'.dirs = dirs /\ dst'.files = files
      BY <2>2, <1>7
    <3>2. \A p \in Region : (p \in dst.dirs <=> p \in before.dirs) /\ (p \in dst.files <=> p \in before.files)
      BY <2>2, <1>2, <1>11 DEF Progress
    <3>3. QED
      BY <2>2, <3>1, <3>2, <1>5, <1>6, <1>7, <1>8, <1>10 DEF Progress
  <2>3. QED
    BY <2>1, <2>2
<1>13. Tally'
  BY <1>1, <1>2, <1>7, <1>10, <1>11 DEF Tally
<1>14. RootsKnown'
  <2>1. scanner["dst"].state = "idle"
    BY <1>1, <1>2 DEF RootInv, Scanner
  <2>2. RootTrue("ref") /\ RootTrue("dst")
    BY <2>1, <1>1, <1>2 DEF RootsKnown, First
  <2>3. Here(Base["dst"], <<>>).files \intersect Asked = {}
    BY <1>1, <1>2, NoRoot DEF First
  <2>4. root["dst"].files = {}
    BY <2>2, <2>3 DEF RootTrue
  <2>5. RootTrue("ref")' /\ RootTrue("dst")'
    BY <1>1, <1>8, <2>2, RootStays
  <2>6. ~First("ref")' /\ ~First("dst")'
    BY <1>1 DEF First
  <2>7. QED
    BY <2>4, <2>5, <2>6, <1>1 DEF RootsKnown
<1>15. TodoInv'
  BY <1>1, <1>2, <1>8, <1>9 DEF TodoInv
<1>16. SoundInv'
  <2>1. WellFormed(dst')
    BY <1>3, <1>4, <1>7
  <2>2. ASSUME NEW s \in Scanner, scanner'[s].state = "running" PROVE scanner'[s].path \in tree'[s].dirs
    <3>1. scanner[s].state = "running" /\ scanner[s].path \in tree[s].dirs
      BY <2>2, <1>1, <1>2 DEF SoundInv
    <3>2. s # "dst"
      BY <3>1, <1>1, <1>2 DEF RootInv, Scanner
    <3>3. QED
      BY <3>1, <3>2, <1>1, <1>7 DEF Scanner
  <2>3. WellFormed(before')
    BY <1>1, <1>2, <1>7 DEF SoundInv
  <2>4. pc' # "idle" /\ ~thrown'
    BY <1>1
  <2>5. WellFormed(dst)'
    BY <2>1 DEF WellFormed
  <2>6. QED
    BY <2>2, <2>3, <2>4, <2>5 DEF SoundInv
<1>17. QED
  BY <1>10, <1>12, <1>13, <1>14, <1>15, <1>16 DEF Live, ProgressInv

\* What the scans of the roots have found.
LEMMA GroupFound ==
  ASSUME Live, pc = "waitSrc", root["src"].dirs = group
  PROVE  /\ Found(Matches(group, root, "dirs"), <<>>, group, Base)
         /\ Matches(group, root, "dirs") \in SUBSET Match /\ Distinct(Matches(group, root, "dirs"))
<1>1. DataType /\ RootsKnown /\ TodoInv /\ group \subseteq Names /\ group \subseteq Asked
  BY LiveParts DEF DataType, AskedInv
<1>2. RootTrue("ref") /\ RootTrue("dst")
  BY <1>1 DEF RootsKnown, First
<1> DEFINE M == Matches(group, root, "dirs")
<1>3. M \in SUBSET Match /\ Distinct(M) /\ \A m \in M : m.name \in group /\ m.in \subseteq Scanner
  BY <1>1, MatchesType
<1>4. \A n \in group : \E m \in M : m.name = n
  BY <1>1, MatchesFound
<1>5. \A m \in M : \A s \in Scanner : s \in m.in <=> m.name \in root[s].dirs
  BY <1>1, MatchedDirs
<1>6. M = Matches(group, root, "dirs")
  OBVIOUS
<1> HIDE DEF M
<1>7. ASSUME NEW m \in M
      PROVE  /\ m.name \in group /\ m.in \intersect {"src", "dst"} # {}
             /\ \A s \in m.in : Append(<<>>, m.name) \in Base[s].dirs
             /\ \A s \in {"src", "dst"} : Append(<<>>, m.name) \in Base[s].dirs => s \in m.in
  <2>1. m.name \in group /\ m.name \in Asked /\ m.name \in Names /\ "src" \in m.in
    BY <1>1, <1>3, <1>5 DEF Scanner
  <2>2. Append(<<>>, m.name) \in Base["src"].dirs
    BY <2>1, <1>1, BaseType DEF Asked, Here
  <2>3. "ref" \in m.in => Append(<<>>, m.name) \in Base["ref"].dirs
    BY <1>2, <1>5 DEF RootTrue, Here, Scanner
  <2>4. "dst" \in m.in => Append(<<>>, m.name) \in Base["dst"].dirs
    BY <1>2, <1>5 DEF RootTrue, Here, Scanner
  <2>5. Append(<<>>, m.name) \in Base["dst"].dirs => "dst" \in m.in
    BY <2>1, <1>2, <1>5 DEF RootTrue, Here, Scanner
  <2>6. QED
    BY <2>1, <2>2, <2>3, <2>4, <2>5, <1>3 DEF Scanner
<1>8. Found(M, <<>>, group, Base)
  BY <1>4, <1>7 DEF Found
<1>9. QED
  BY <1>3, <1>6, <1>8

\* Lines 319-343: the outermost call begins.
LEMMA CopyGroupLive ==
  ASSUME Live, ~thrown, CopyGroup, scanner["src"].state # "exception", PipelineInv'
  PROVE  Live'
<1>1. /\ pc = "waitSrc" /\ pc' = "copy" /\ UNCHANGED <<trees, count, todo, group, root, thrown>>
      /\ UNCHANGED <<tree, fresh, before, dryRun>> /\ dst' = dst
      /\ Finished("src") /\ Forget({"src"})
      /\ stack' = <<Call({"src", "ref"}, <<>>, Matches(root["src"].dirs, root, "dirs"))>>
  BY DEF CopyGroup, trees, dst
<1>2. /\ stack = <<>> /\ DataType /\ SoundInv /\ TodoInv /\ RootsKnown /\ RootInv /\ Progress /\ Tally /\ StackInv'
  BY <1>1, LiveParts DEF PipelineInv
<1>3. Base' = Base /\ Asked' = Asked /\ Region' = Region /\ AllDirs' = AllDirs /\ AllFiles' = AllFiles
  BY <1>1, <1>2, BaseStays DEF DataType
<1>4. Pending' = Pending
  BY <1>1 DEF Pending
<1>5. root["src"].dirs = group
  <2>1. scanner["src"].state = "lists"
    BY <1>1, <1>2 DEF RootInv, Waiting, Scanner, Free, Finished, DataType, Scan
  <2>2. QED
    BY <2>1, <1>1, <1>2 DEF RootInv, Waiting, Scanner
<1> DEFINE M == Matches(group, root, "dirs")
           optional == {"src", "ref"}
           k == Call(optional, <<>>, M)
<1>6. Found(M, <<>>, group, Base) /\ M \in SUBSET Match /\ Distinct(M)
  BY <1>1, <1>5, GroupFound
<1>7. stack' = <<k>>
  BY <1>1, <1>5
<1> HIDE DEF M, optional
<1>8. /\ Known(k, Base) /\ For(k, group)
      /\ k.path = <<>> /\ k.index = 0 /\ k.pc = "turn" /\ \A i \in {0, 1} : k.slot[i] = EmptySlot
  <2> DEFINE path == <<>>
             names == group
             base == Base
  <2>1. Found(M, path, names, base)
    BY <1>6
  <2> HIDE DEF path, names, base
  <2>2. LET h == Call(optional, path, M)
        IN  /\ Known(h, base) /\ For(h, names)
            /\ h.path = path /\ h.index = 0 /\ h.pc = "turn" /\ \A i \in {0, 1} : h.slot[i] = EmptySlot
    BY <2>1, <1>6, CallFor
  <2>3. QED
    BY <2>2 DEF path, names, base
<1> HIDE DEF k
<1>9. /\ Len(stack') = 1 /\ stack'[1] = k /\ f' = k /\ stack' # <<>>
      /\ 1 .. Len(stack') = {1} /\ 1 .. Len(stack') - 1 = {}
  BY <1>7 DEF f
<1>10. \A p : ~Closes(k, "inner", Base, p) /\ ~ClosesDir(k, "inner", Base, p) /\ ~ClosesFile(k, "inner", Base, p)
  <2>1. k.pc \notin Late \union {"directory"} /\ k.pc \notin Processing
    BY <1>8 DEF Late, Processing
  <2>2. Ready(k, "inner", Base) = {}
    BY <2>1, ReadyNames
  <2>3. \A p : ~Closes(k, "inner", Base, p)
    BY <2>2, <1>8 DEF Closes
  <2>4. QED
    BY <2>1, <2>3 DEF ClosesDir, ClosesFile, Syncs
<1>11. ASSUME NEW p PROVE ~DirDone(p)' /\ ~ClosedIn(p)' /\ ~FileDone(p)'
  BY <1>3, <1>9, <1>10 DEF DirDone, ClosedIn, FileDone
<1>12. DoneDirs' = DoneDirs /\ ClosedDirs' = ClosedDirs /\ DoneFiles' = DoneFiles
  <2>1. /\ DoneDirs' = {p \in AllDirs : p[1] \notin Pending} /\ ClosedDirs' = {p \in AllDirs : p[1] \notin Pending}
        /\ DoneFiles' = {p \in AllFiles : p[1] \notin Pending}
    BY <1>3, <1>4, <1>11 DEF DoneDirs, ClosedDirs, DoneFiles
  <2>2. QED
    BY <2>1, <1>2, NoCall
<1>13. KnowsInv'
  <2>1. CallKnows(k, Base)
    <3>1. ReadKnown(k, Base)
      BY <1>8 DEF ReadKnown
    <3>2. WorkKnown(k, Base)
      BY <1>8 DEF WorkKnown, Reading
    <3>3. QED
      BY <3>1, <3>2, <1>8 DEF CallKnows
  <2>2. \A S : ScanKnown(k, Base, S)
    <3>1. ScanSlot(k) = EmptySlot
      BY <1>8 DEF ScanSlot
    <3>2. QED
      BY <3>1 DEF ScanKnown, ListsTrue, EmptySlot
  <2>3. QED
    BY <2>1, <2>2, <1>3, <1>8, <1>9 DEF KnowsInv
<1>14. LinkInv'
  BY <1>1, <1>8, <1>9 DEF LinkInv
<1>15. Progress'
  BY <1>1, <1>2, <1>3, <1>12 DEF Progress
<1>16. Tally'
  BY <1>1, <1>2, <1>12 DEF Tally
<1>17. RootsKnown'
  <2>1. ~First("ref") /\ ~First("dst") /\ ~First("ref")' /\ ~First("dst")'
    BY <1>1 DEF First
  <2>2. RootTrue("ref") /\ RootTrue("dst") /\ root["dst"].files = {}
    BY <2>1, <1>1, <1>2 DEF RootsKnown
  <2>3. RootTrue("ref")' /\ RootTrue("dst")'
    BY <2>2, <1>1, <1>3, RootStays
  <2>4. QED
    BY <2>1, <2>2, <2>3, <1>1 DEF RootsKnown
<1>18. TodoInv'
  BY <1>1, <1>2, <1>3, <1>4 DEF TodoInv
<1>19. SoundInv'
  <2>1. \A s \in Scanner : scanner'[s] = IF s = "src" THEN Idle ELSE scanner[s]
    <3>1. {"src"} \in SUBSET Scanner /\ \A s \in {"src"} : Finished(s)
      BY <1>1 DEF Scanner
    <3>2. QED
      BY <3>1, <1>1, <1>2, Forgotten
  <2>2. QED
    BY <2>1, <1>1, <1>2 DEF SoundInv, Idle
<1>20. QED
  BY <1>13, <1>14, <1>15, <1>16, <1>17, <1>18, <1>19 DEF Live, ProgressInv

-----------------------------------------------------------------------------
(* An exception. *)

\* Nothing more is promised than that the trees are trees, and what is asked for.
Stopped == PipelineInv /\ SoundInv /\ TodoInv

\* Whatever fails, the trees are trees.
LEMMA Stops ==
  ASSUME Stopped, pc # "idle", thrown', pc' \in {pc, "leave"}, UNCHANGED <<before, todo, group>>, tree'["src"] = tree["src"],
         WellFormed(dst)', \A s \in Scanner : scanner'[s].state = "running" => scanner'[s].path \in tree'[s].dirs,
         IF stack' = <<>> THEN pc' = "leave" ELSE f'.pc = "leave", PipelineInv'
  PROVE  Stopped'
<1>1. Asked' = Asked /\ (pc' = pc => Pending' = Pending)
  BY DEF Asked, Pending
<1>2. TodoInv'
  BY <1>1 DEF Stopped, TodoInv
<1>3. pc' # "idle" /\ WellFormed(before)'
  BY DEF Stopped, SoundInv, WellFormed
<1>4. SoundInv'
  BY <1>3 DEF Stopped, SoundInv
<1>5. QED
  BY <1>2, <1>4 DEF Stopped

\* No directory is taken away, and no scan begins.
LEMMA StopsQuietly ==
  ASSUME Stopped, pc # "idle", thrown', pc' \in {pc, "leave"}, UNCHANGED <<trees, todo, group>>,
         \A s \in Scanner : scanner'[s].state = "running" => scanner'[s] = scanner[s],
         IF stack' = <<>> THEN pc' = "leave" ELSE f'.pc = "leave", PipelineInv'
  PROVE  Stopped'
<1>1. UNCHANGED <<tree, before>> /\ dst' = dst /\ SoundInv
  BY DEF Stopped, trees, dst
<1>2. WellFormed(dst)'
  BY <1>1 DEF SoundInv, WellFormed
<1>3. \A s \in Scanner : scanner'[s].state = "running" => scanner'[s].path \in tree'[s].dirs
  BY <1>1 DEF SoundInv
<1>4. QED
  BY <1>1, <1>2, <1>3, Stops

\* The call is left.
LEMMA GoneToLeave ==
  ASSUME StackInv, stack # <<>>, Goto("leave")
  PROVE  stack' # <<>> /\ f'.pc = "leave"
<1> DEFINE h == [f EXCEPT !.pc = "leave"]
<1>1. f \in Frame /\ "leave" \in FramePc
  BY Innermost DEF FramePc
<1>2. h \in Frame /\ h.pc = "leave"
  BY <1>1, GotoFrame
<1>3. stack' = [stack EXCEPT ![Len(stack)] = h]
  BY DEF Goto, Top
<1> HIDE DEF h
<1>4. QED
  BY <1>2, <1>3, TopParts

\* A scan, or anything else, has failed in a call.
LEMMA CallStops ==
  ASSUME Stopped, stack # <<>>, Goto("leave"), thrown', UNCHANGED <<trees, backup>>,
         \A s \in Scanner : scanner'[s].state = "running" => scanner'[s] = scanner[s], PipelineInv'
  PROVE  Stopped'
<1>1. stack' # <<>> /\ f'.pc = "leave" /\ pc = "copy"
  BY GoneToLeave DEF Stopped, PipelineInv, RootInv
<1>2. UNCHANGED <<pc, todo, group>>
  BY DEF backup
<1>3. QED
  BY <1>1, <1>2, StopsQuietly

\* Scanners at work go on.
LEMMA ForgetKeeps ==
  ASSUME NEW S, Forget(S)
  PROVE  \A s \in Scanner : scanner'[s].state = "running" => scanner'[s] = scanner[s]
BY DEF Forget, Idle

\* A scan that is waited for has failed;
LEMMA WaitForScanStops ==
  ASSUME Stopped, NEW s \in Scanner, WaitForScan(s), scanner[s].state = "exception", PipelineInv'
  PROVE  Stopped'
<1>1. stack # <<>> /\ Goto("leave") /\ thrown' /\ UNCHANGED <<trees, backup>> /\ Forget({s})
  BY DEF WaitForScan, at
<1>2. QED
  BY <1>1, ForgetKeeps, CallStops

\* any other step in a call.
LEMMA FailStops ==
  ASSUME Stopped, Fail, PipelineInv'
  PROVE  Stopped'
<1>1. stack # <<>> /\ Goto("leave") /\ thrown' /\ UNCHANGED <<trees, backup, scanner>>
  BY DEF Fail
<1>2. QED
  BY <1>1, CallStops

\* A file is copied in part, or not.
LEMMA FailFileStops ==
  ASSUME Live, FailFile, PipelineInv'
  PROVE  Stopped'
<1>1. /\ stack # <<>> /\ f.pc = "files" /\ Goto("leave") /\ thrown' /\ UNCHANGED <<scanner, backup>>
  BY DEF FailFile, at
<1>2. f.pc \in Processing /\ f.pc \in Late /\ f.pc \notin Reading \union {"leave"}
  BY <1>1 DEF Processing, Late, Reading
<1>3. /\ DataType /\ SoundInv /\ StackInv /\ KnowsInv /\ LinkInv /\ TodoInv /\ Progress /\ pc = "copy" /\ PipelineInv
      /\ f \in Frame /\ f.index \in 1 .. Len(f.dirs) /\ here = HereOf(f) /\ here \in Path
      /\ (\A n : inner(n) = Append(HereOf(f), n)) /\ here \in Region /\ here \in AllDirs
  BY <1>1, <1>2, LiveParts, Open
<1>4. PICK m \in f.work.copyFiles :
        /\ Possible(inner(m.name) \notin dst.dirs)
        /\ \E files \in {dst.files \union {inner(m.name)}, dst.files \ {inner(m.name)}} :
             Write(dst.dirs, files, {}, {here})
  BY DEF FailFile
<1> DEFINE p == Append(HereOf(f), m.name)
<1>5. m.name \in Names /\ p \in tree["src"].files
  <2>1. m.name \in Here(tree["src"], HereOf(f)).files
    BY <1>1, <1>2, <1>3, <1>4, FilesAndDirs DEF FilesKnown
  <2>2. QED
    BY <2>1 DEF Here
<1>6. p \in Path /\ p # <<>> /\ Parent(p) = HereOf(f) /\ inner(m.name) = p
  BY <1>3, <1>5, FirstOfAppend
<1>7. PICK files \in {dst.files \union {p}, dst.files \ {p}} : Write(dst.dirs, files, {}, {here})
  BY <1>4, <1>6
<1>8. here \in tree["src"].dirs
  BY <1>3, <1>5, <1>6, TreesSound DEF WellFormed
<1> HIDE DEF p
<1>9. dst.dirs \in SUBSET Path /\ files \in SUBSET Path
  BY <1>3, <1>6, <1>7, TreeParts
<1>10. /\ before' = before /\ tree'["src"] = tree["src"] /\ tree'["ref"] = tree["ref"]
       /\ IF dryRun THEN dst' = dst ELSE dst' = [dirs |-> dst.dirs, files |-> files]
  BY <1>3, <1>7, <1>9, WriteTypes
<1>11. dst'.dirs = dst.dirs
  BY <1>10
<1>12. ASSUME ~dryRun PROVE WellFormed([dirs |-> dst.dirs, files |-> files])
  <2>1. WellFormed(dst)
    BY <1>3, TreesSound
  <2>2. here \in DoneDirs
    BY <1>1, <1>2, <1>3, HereStatus
  <2>3. here \in dst.dirs
    BY <2>2, <1>3, <1>8, <1>12 DEF Progress
  <2>4. p \notin dst.dirs
    BY <1>4, <1>6, <1>12 DEF Possible
  <2>5. QED
    BY <2>1, <2>3, <2>4, <1>3, <1>6, <1>7 DEF WellFormed
<1>13. WellFormed(dst)'
  <2>1. WellFormed(dst')
    BY <1>10, <1>12, <1>3, TreesSound
  <2>2. QED
    BY <2>1 DEF WellFormed
<1>14. ASSUME NEW s \in Scanner, scanner'[s].state = "running" PROVE scanner'[s].path \in tree'[s].dirs
  <2>1. scanner[s].path \in tree[s].dirs /\ scanner'[s] = scanner[s]
    BY <1>1, <1>3, <1>14 DEF SoundInv
  <2>2. tree'[s].dirs = tree[s].dirs
    BY <1>10, <1>11 DEF Scanner, dst
  <2>3. QED
    BY <2>1, <2>2
<1>15. stack' # <<>> /\ f'.pc = "leave"
  BY <1>1, <1>3, GoneToLeave
<1>16. UNCHANGED <<pc, todo, group>> /\ Stopped
  BY <1>1 DEF backup, Live, Stopped
<1>17. QED
  BY <1>1, <1>3, <1>10, <1>13, <1>14, <1>15, <1>16, Stops

\* The exception has reached CreateBackup, or comes from there.
LEMMA BackupStops ==
  ASSUME Stopped, pc \notin {"idle", "copy"}, Throw, UNCHANGED <<trees, todo, group, stack>>,
         \A s \in Scanner : scanner'[s].state = "running" => scanner'[s] = scanner[s], PipelineInv'
  PROVE  Stopped'
<1>1. pc' = "leave" /\ thrown' /\ stack' = <<>>
  BY DEF Throw, Stopped, PipelineInv, RootInv
<1>2. QED
  BY <1>1, StopsQuietly

\* The scan of a root has failed, or there is a file where a directory must be.
LEMMA WaitForRootStops ==
  ASSUME Stopped, NEW s \in {"ref", "dst"}, NEW next, WaitForRoot(s, next),
         scanner[s].state = "exception" \/ root[s].files # {}, PipelineInv'
  PROVE  Stopped'
<1>1. pc \notin {"idle", "copy"} /\ Throw /\ UNCHANGED <<trees, todo, group, stack>> /\ Forget({s})
  BY DEF WaitForRoot, Waiting
<1>2. QED
  BY <1>1, ForgetKeeps, BackupStops

\* The scan of the source has failed.
LEMMA CopyGroupStops ==
  ASSUME Stopped, CopyGroup, scanner["src"].state = "exception", PipelineInv'
  PROVE  Stopped'
<1>1. pc \notin {"idle", "copy"} /\ Throw /\ UNCHANGED <<trees, todo, group, stack>> /\ Forget({"src"})
  BY DEF CopyGroup
<1>2. QED
  BY <1>1, ForgetKeeps, BackupStops

\* Any other step of CreateBackup.
LEMMA FailBackupStops ==
  ASSUME Stopped, FailBackup, PipelineInv'
  PROVE  Stopped'
BY BackupStops DEF FailBackup

\* After an exception.
LEMMA ScansStop ==
  ASSUME Stopped, thrown, NEW s \in Scanner, Scans(s), PipelineInv'
  PROVE  Stopped'
<1>1. DataType /\ RootInv /\ StackInv /\ SoundInv /\ scanner[s].state = "running" /\ pc # "idle" /\ PipelineInv
  BY DEF Stopped, PipelineInv, Scans, Complete, FailScan, RootInv, Free
<1>2. \A t \in Scanner : scanner'[t].state = "running" => scanner'[t] = scanner[t]
  <2>1. scanner' = [scanner EXCEPT ![s].state = "lists"] \/ scanner' = [scanner EXCEPT ![s].state = "exception"]
    BY DEF Scans, Complete, FailScan
  <2>2. scanner \in [Scanner -> Scan]
    BY <1>1 DEF DataType
  <2>3. scanner'[s].state \in {"lists", "exception"}
    <3>1. scanner[s] \in Scan
      BY <2>2
    <3>2. CASE scanner' = [scanner EXCEPT ![s].state = "lists"]
      BY <3>1, <3>2, <2>2 DEF Scan
    <3>3. CASE scanner' = [scanner EXCEPT ![s].state = "exception"]
      BY <3>1, <3>3, <2>2 DEF Scan
    <3>4. QED
      BY <2>1, <3>2, <3>3
  <2>4. \A t \in Scanner : t # s => scanner'[t] = scanner[t]
    BY <2>1, <2>2
  <2>5. QED
    BY <2>3, <2>4
<1>3. UNCHANGED <<trees, pc, todo, group, thrown>>
  BY DEF Scans, Complete, FailScan, backup
<1>4. IF stack' = <<>> THEN pc' = "leave" ELSE f'.pc = "leave"
  <2>1. CASE stack = <<>>
    <3>1. pc = "leave"
      BY <2>1, <1>1 DEF SoundInv
    <3>2. stack' = <<>>
      BY <3>1, <1>3 DEF PipelineInv, RootInv
    <3>3. QED
      BY <3>1, <3>2, <1>3
  <2>2. CASE stack # <<>> /\ FailScan(s)
    <3>1. stack' = stack /\ f.pc = "leave"
      BY <2>2, <1>1 DEF SoundInv, FailScan
    <3>2. f' = f
      BY <3>1 DEF f
    <3>3. QED
      BY <3>1, <3>2, <2>2
  <2>3. CASE stack # <<>> /\ Complete(s)
    <3>1. PICK h \in Frame : stack' = [stack EXCEPT ![Len(stack)] = h] /\ h.pc = f.pc
      BY <2>3, <1>1, CompleteFrame
    <3>2. stack' # <<>> /\ f' = h
      BY <3>1, <2>3, <1>1, TopParts
    <3>3. f.pc = "leave"
      BY <2>3, <1>1 DEF SoundInv
    <3>4. QED
      BY <3>1, <3>2, <3>3
  <2>4. QED
    BY <2>1, <2>2, <2>3 DEF Scans
<1>5. QED
  BY <1>1, <1>2, <1>3, <1>4, StopsQuietly

\* The exception goes on to the caller.
LEMMA ReturnStops ==
  ASSUME Stopped, thrown, Return, PipelineInv'
  PROVE  Stopped'
<1>1. stack # <<>> /\ StackInv /\ pc = "copy" /\ UNCHANGED <<trees, todo, group, thrown>> /\ Forget(Scanner)
  BY DEF Stopped, PipelineInv, RootInv, Return, at
<1> DEFINE rest == SubSeq(stack, 1, Len(stack) - 1)
<1>2. rest \in Seq(Frame) /\ Len(rest) = Len(stack) - 1 /\ Len(stack) \in Nat /\ Len(stack) > 0
  BY <1>1, Callers, Innermost
<1>3. /\ stack' = IF rest # <<>> THEN [rest EXCEPT ![Len(rest)].pc = "leave"] ELSE rest
      /\ pc' = IF Len(stack) > 1 THEN pc ELSE "leave"
  BY DEF Return
<1> HIDE DEF rest
<1>4. IF stack' = <<>> THEN pc' = "leave" ELSE f'.pc = "leave"
  <2>1. CASE rest = <<>>
    <3>1. Len(rest) = 0
      BY <2>1
    <3> DEFINE K == Len(stack)
    <3>2. K \in Nat /\ K - 1 = 0
      BY <3>1, <1>2
    <3> HIDE DEF K
    <3>3. ~(K > 1)
      BY <3>2
    <3>4. QED
      BY <2>1, <3>3, <1>3 DEF K
  <2>2. CASE rest # <<>>
    <3> DEFINE last == [rest[Len(rest)] EXCEPT !.pc = "leave"]
    <3>1. Len(rest) \in 1 .. Len(rest) /\ Len(rest) \in Nat
      BY <2>2, <1>2, EmptySeq
    <3>2. rest[Len(rest)] \in Frame /\ "leave" \in FramePc
      BY <3>1, <1>2, ElementOfSeq DEF FramePc
    <3>3. last \in Frame /\ last.pc = "leave"
      <4> DEFINE g == rest[Len(rest)]
      <4>1. g \in Frame /\ last = [g EXCEPT !.pc = "leave"]
        BY <3>2
      <4> HIDE DEF g, last
      <4>2. QED
        BY <4>1, <3>2, GotoFrame
    <3>4. stack' = [rest EXCEPT ![Len(rest)] = last]
      BY <2>2, <1>3
    <3> HIDE DEF last
    <3>5. /\ stack' \in Seq(Frame) /\ Len(stack') = Len(rest)
          /\ \A d \in 1 .. Len(rest) : stack'[d] = IF d = Len(rest) THEN last ELSE rest[d]
      BY <3>1, <3>3, <3>4, <1>2, ExceptSeq
    <3>6. f' = last /\ stack' # <<>>
      BY <3>1, <3>5, EmptySeq DEF f
    <3>7. QED
      BY <3>3, <3>6
  <2>3. QED
    BY <2>1, <2>2
<1>5. \A s \in Scanner : scanner'[s].state = "running" => scanner'[s] = scanner[s]
  BY <1>1, ForgetKeeps
<1>6. pc' \in {pc, "leave"}
  BY <1>3
<1>7. QED
  BY <1>1, <1>4, <1>5, <1>6, StopsQuietly

-----------------------------------------------------------------------------
(* From call to call. *)

\* Lines 196-258: nothing has been dealt with.
LEMMA CallBackupLive ==
  ASSUME PipelineInv, SoundInv, CallBackup, PipelineInv'
  PROVE  Live' /\ pc' = "roots"
<1>1. PICK source \in Trees, reference \in Trees :
        /\ tree' = [tree EXCEPT !["src"] = source, !["ref"] = reference]
        /\ todo' \in {{Here(source, <<>>).dirs}, {{n} : n \in Here(source, <<>>).dirs}}
  BY DEF CallBackup
<1> DEFINE asked == Here(source, <<>>).dirs
<1>2. /\ pc = "idle" /\ pc' = "roots" /\ fresh' = {} /\ before' = dst /\ dryRun' \in BOOLEAN
      /\ UNCHANGED <<count, scanner, group, root, stack, thrown>>
      /\ DataType /\ RootInv
  BY DEF CallBackup, PipelineInv
<1>3. stack = <<>> /\ group = {} /\ (\A s \in Scanner : Free(s)) /\ tree \in [Scanner -> Tree]
  BY <1>2 DEF RootInv, DataType
<1>4. tree'["src"] = source /\ dst' = dst
  BY <1>1, <1>3 DEF Scanner, dst
<1>5. Asked' = asked
  BY <1>4 DEF Asked
<1>6. todo' \in {{asked}, {{n} : n \in asked}}
  BY <1>1
<1> HIDE DEF asked
<1>7. UNION todo' = asked /\ \A g, h \in todo' : g = h \/ g \intersect h = {}
  BY <1>6
<1>8. Pending' = Asked'
  BY <1>2, <1>5, <1>7 DEF Pending
<1>9. TodoInv'
  BY <1>2, <1>3, <1>5, <1>7, <1>8 DEF TodoInv
<1>10. DoneDirs' = {} /\ ClosedDirs' = {} /\ DoneFiles' = {} /\ KnowsInv' /\ LinkInv'
  BY <1>2, <1>3, <1>8, NothingYet
<1>11. Progress'
  BY <1>2, <1>4, <1>10 DEF Progress
<1>12. Tally'
  <2>1. Cardinality({}) = 0 /\ IsFiniteSet({})
    BY FS_EmptySet
  <2>2. \A old, new : Counts({}, old, new) = [added |-> 0, kept |-> 0, removed |-> 0]
    <3>1. \A old, new : {} \ old = {} /\ {} \intersect old \intersect new = {}
      OBVIOUS
    <3>2. QED
      BY <2>1, <3>1 DEF Counts
  <2>3. count' = Zero
    BY <1>2 DEF SoundInv
  <2>4. QED
    BY <2>1, <2>2, <2>3, <1>10 DEF Tally, Zero
<1>13. RootsKnown'
  BY <1>2 DEF RootsKnown, First
<1>14. SoundInv'
  <2>1. WellFormed(dst') /\ WellFormed(before')
    BY <1>2, <1>4 DEF SoundInv
  <2>2. WellFormed(dst)' /\ WellFormed(before)'
    BY <2>1 DEF WellFormed
  <2>3. \A s \in Scanner : scanner'[s].state # "running"
    BY <1>2, <1>3 DEF Free
  <2>4. ~thrown'
    BY <1>2 DEF SoundInv
  <2>5. QED
    BY <2>2, <2>3, <2>4, <1>2 DEF SoundInv
<1>15. QED
  BY <1>2, <1>9, <1>10, <1>11, <1>12, <1>13, <1>14 DEF Live, ProgressInv

\* The statistics are handed over.
LEMMA LeaveBackupIdle ==
  ASSUME Stopped, LeaveBackup, PipelineInv'
  PROVE  MirrorInv'
<1>1. /\ pc = "leave" /\ AllFinished /\ Forget(Scanner) /\ pc' = "idle" /\ todo' = {} /\ group' = {}
      /\ thrown' = FALSE /\ count' = Zero /\ UNCHANGED <<tree, fresh, before, stack>> /\ SoundInv
  BY DEF LeaveBackup, Stopped
<1>2. dst' = dst /\ WellFormed(dst)
  BY <1>1 DEF dst, SoundInv
<1>3. WellFormed(dst)'
  BY <1>2 DEF WellFormed
<1>4. \A s \in Scanner : scanner'[s].state # "running"
  BY <1>1 DEF Forget, Idle, AllFinished, Finished
<1>5. SoundInv'
  BY <1>1, <1>3, <1>4 DEF SoundInv
<1>6. TodoInv'
  BY <1>1 DEF TodoInv
<1>7. QED
  BY <1>1, <1>5, <1>6 DEF MirrorInv

\* The invariant holds initially,
LEMMA MirrorInitially == Init => MirrorInv
<1> SUFFICES ASSUME Init PROVE MirrorInv
  OBVIOUS
<1>1. PipelineInv
  BY Initially
<1>2. tree["dst"] \in Trees /\ \A s \in Scanner : scanner[s].state = "idle"
  BY DEF Init, Scanner, Idle
<1>3. WellFormed(dst)
  BY <1>2, ConstantsAssumption DEF WellFormed, dst
<1>4. SoundInv
  BY <1>2, <1>3 DEF Init, SoundInv
<1>5. TodoInv
  BY DEF Init, TodoInv
<1>6. QED
  BY <1>1, <1>4, <1>5 DEF MirrorInv, Init

\* when nothing happens,
LEMMA MirrorStutters ==
  ASSUME MirrorInv, UNCHANGED vars, PipelineInv'
  PROVE  MirrorInv'
<1>1. UNCHANGED <<tree, fresh, before, dryRun, count, scanner, pc, todo, group, root, stack, thrown>>
  BY DEF vars, trees, backup
<1>2. Base' = Base /\ Asked' = Asked /\ dst' = dst /\ f' = f /\ Pending' = Pending /\ Ended' = Ended
  BY <1>1 DEF Base, Asked, dst, f, Pending, Ended
<1>3. Region' = Region /\ AllDirs' = AllDirs /\ AllFiles' = AllFiles
  BY <1>1, <1>2 DEF Region, AllDirs, AllFiles
<1>4. SoundInv'
  <2>1. WellFormed(dst)' <=> WellFormed(dst)
    BY <1>2 DEF WellFormed
  <2>2. WellFormed(before)' <=> WellFormed(before)
    BY <1>1 DEF WellFormed
  <2>3. QED
    BY <2>1, <2>2, <1>1, <1>2 DEF MirrorInv, SoundInv
<1>5. TodoInv'
  BY <1>1, <1>2 DEF MirrorInv, TodoInv
<1>6. ASSUME ProgressInv PROVE ProgressInv'
  <2>1. KnowsInv'
    BY <1>1, <1>2, <1>6 DEF ProgressInv, KnowsInv
  <2>2. LinkInv'
    BY <1>1, <1>2, <1>6 DEF ProgressInv, LinkInv
  <2>3. RootsKnown'
    <3>1. ASSUME NEW s \in {"ref", "dst"}
          PROVE /\ First(s)' <=> First(s)
                /\ Exists(s)' <=> Exists(s)
                /\ RootTrue(s)' <=> RootTrue(s)
                /\ Free(s)' <=> Free(s)
      BY <1>1, <1>2 DEF First, Exists, RootTrue, Free
    <3>2. QED
      BY <3>1, <1>1, <1>6 DEF ProgressInv, RootsKnown
  <2>4. ClosedDirs' = ClosedDirs /\ DoneDirs' = DoneDirs /\ DoneFiles' = DoneFiles
    BY <1>1, <1>2, <1>3 DEF ClosedDirs, DoneDirs, DoneFiles, ClosedIn, DirDone, FileDone
  <2>5. Progress'
    BY <1>1, <1>2, <1>3, <1>6, <2>4 DEF ProgressInv, Progress
  <2>6. Tally'
    BY <1>1, <1>6, <2>4 DEF ProgressInv, Tally
  <2>7. QED
    BY <2>1, <2>2, <2>3, <2>5, <2>6 DEF ProgressInv
<1>7. QED
  BY <1>1, <1>4, <1>5, <1>6 DEF MirrorInv

\* when there is no call, which only a call can change,
LEMMA IdleStep ==
  ASSUME MirrorInv, pc = "idle", Next
  PROVE  CallBackup
<1>1. stack = <<>> /\ \A s \in Scanner : scanner[s].state = "idle"
  BY DEF MirrorInv, PipelineInv, RootInv, Free
<1>2. ~Backup
  BY DEF Backup, OrderRoots, NextGroup, WaitForRoot, Waiting, NoReference, CreateDestination, CopyGroup, LeaveBackup
<1>3. ~Copying
  BY <1>1 DEF Copying, at, Turn, OrderScan, WaitForScan, Merge, RemoveExtraFile, ExtraFilesDone,
              CopyExtraDirectories, RemoveDirectory, CreateDirectory, UpdateDirectory, SyncFile, FilesDone,
              CopySubdirectories, SetAttributes, Return
<1>4. ~FailBackup /\ ~Fail /\ ~FailFile
  BY <1>1 DEF FailBackup, Fail, FailFile, at
<1>5. ASSUME NEW s \in Scanner PROVE ~Scans(s)
  BY <1>1 DEF Scans, Complete, FailScan
<1>6. QED
  BY <1>2, <1>3, <1>4, <1>5 DEF Next

\* (a step ends well or with an exception)
LEMMA Ends ==
  /\ Live' => MirrorInv'
  /\ Stopped' /\ thrown' => MirrorInv'
BY DEF Live, Stopped, MirrorInv

\* in each step of a call,
LEMMA LiveStep ==
  ASSUME Live, ~thrown, pc # "idle", Next, PipelineInv'
  PROVE  MirrorInv'
<1>1. Stopped
  BY DEF Live, Stopped
<1>2. ~CallBackup
  BY DEF CallBackup
<1>3. ASSUME NEW s \in Scanner, Scans(s) PROVE MirrorInv'
  <2>1. CASE FailScan(s)
    BY <2>1, FailScanLive, Ends
  <2>2. CASE Complete(s) /\ stack = <<>>
    BY <2>2, CompleteRootLive, Ends
  <2>3. CASE Complete(s) /\ stack # <<>>
    BY <2>3, CompleteCallLive, Ends
  <2>4. QED
    BY <1>3, <2>1, <2>2, <2>3 DEF Scans
<1>4. CASE Fail
  <2>1. thrown'
    BY <1>4 DEF Fail
  <2>2. QED
    BY <1>1, <1>4, <2>1, FailStops, Ends
<1>5. CASE FailFile
  <2>1. thrown'
    BY <1>5 DEF FailFile
  <2>2. QED
    BY <1>5, <2>1, FailFileStops, Ends
<1>6. CASE FailBackup
  <2>1. thrown'
    BY <1>6 DEF FailBackup, Throw
  <2>2. QED
    BY <1>1, <1>6, <2>1, FailBackupStops, Ends
<1>7. CASE Backup
  <2>1. CASE OrderRoots \/ NextGroup
    BY <2>1, OrderRootsLive, NextGroupLive, Ends
  <2>2. CASE WaitForRoot("ref", "dst")
    <3>1. CASE scanner["ref"].state = "exception" \/ root["ref"].files # {}
      <4>1. thrown'
        BY <2>2, <3>1 DEF WaitForRoot, Throw
      <4>2. QED
        BY <1>1, <2>2, <3>1, <4>1, WaitForRootStops, Ends DEF Scanner
    <3>2. QED
      BY <2>2, <3>1, WaitForReferenceLive, Ends
  <2>3. CASE WaitForRoot("dst", "src")
    <3>1. CASE scanner["dst"].state = "exception" \/ root["dst"].files # {}
      <4>1. thrown'
        BY <2>3, <3>1 DEF WaitForRoot, Throw
      <4>2. QED
        BY <1>1, <2>3, <3>1, <4>1, WaitForRootStops, Ends DEF Scanner
    <3>2. QED
      BY <2>3, <3>1, WaitForDestinationLive, Ends
  <2>4. CASE NoReference \/ CreateDestination
    BY <2>4, NoReferenceLive, CreateDestinationLive, Ends
  <2>5. CASE CopyGroup
    <3>1. CASE scanner["src"].state = "exception"
      <4>1. thrown'
        BY <2>5, <3>1 DEF CopyGroup, Throw
      <4>2. QED
        BY <1>1, <2>5, <3>1, <4>1, CopyGroupStops, Ends
    <3>2. QED
      BY <2>5, <3>1, CopyGroupLive, Ends
  <2>6. CASE LeaveBackup
    BY <1>1, <2>6, LeaveBackupIdle
  <2>7. QED
    BY <1>7, <2>1, <2>2, <2>3, <2>4, <2>5, <2>6 DEF Backup
<1>8. CASE Copying
  <2>1. CASE Turn \/ Merge
    BY <2>1, TurnLive, MergeLive, Ends
  <2>2. ASSUME NEW s \in Scanner, OrderScan(s) PROVE MirrorInv'
    BY <2>2, OrderScanLive, Ends
  <2>3. ASSUME NEW s \in Scanner, WaitForScan(s) PROVE MirrorInv'
    <3>1. CASE scanner[s].state = "exception"
      <4>1. thrown'
        BY <2>3, <3>1 DEF WaitForScan
      <4>2. QED
        BY <1>1, <2>3, <3>1, <4>1, WaitForScanStops, Ends
    <3>2. QED
      BY <2>3, <3>1, WaitForScanLive, Ends
  <2>4. CASE RemoveExtraFile \/ ExtraFilesDone \/ SyncFile \/ FilesDone
    BY <2>4, RemoveExtraFileLive, ExtraFilesDoneLive, SyncFileLive, FilesDoneLive, Ends
  <2>5. CASE RemoveDirectory \/ CreateDirectory \/ UpdateDirectory \/ SetAttributes
    BY <2>5, RemoveDirectoryLive, CreateDirectoryLive, UpdateDirectoryLive, SetAttributesLive, Ends
  <2>6. CASE CopyExtraDirectories
    BY <2>6, NoExtraDirectoriesLive, ExtraDirectoriesLive, Ends
  <2>7. CASE CopySubdirectories
    BY <2>7, NoSubdirectoriesLive, SubdirectoriesLive, Ends
  <2>8. CASE Return
    BY <2>8, ReturnToCallLive, ReturnToBackupLive, Ends
  <2>9. QED
    BY <1>8, <2>1, <2>2, <2>3, <2>4, <2>5, <2>6, <2>7, <2>8 DEF Copying
<1>9. QED
  BY <1>2, <1>3, <1>4, <1>5, <1>6, <1>7, <1>8 DEF Next

\* and after an exception, when only returns and scans are left.
LEMMA ThrownStep ==
  ASSUME Stopped, thrown, Next, PipelineInv'
  PROVE  MirrorInv'
<1>1. /\ stack = <<>> => pc = "leave"
      /\ stack # <<>> => f.pc = "leave" /\ pc = "copy"
  BY DEF Stopped, SoundInv, PipelineInv, RootInv
<1>2. \A s \in Scanner : ~at(Ordering(s)) /\ ~at(Waiting(s))
  BY <1>1 DEF at, Ordering, Waiting, Scanner
<1>3. ~CallBackup /\ ~FailBackup /\ ~Fail /\ ~FailFile
  BY <1>1 DEF CallBackup, FailBackup, Fail, FailFile, at
<1>4. ASSUME NEW s \in Scanner, Scans(s) PROVE MirrorInv'
  <2>1. thrown'
    BY <1>4 DEF Scans, Complete, FailScan
  <2>2. QED
    BY <1>4, <2>1, ScansStop, Ends
<1>5. CASE Backup
  <2>1. LeaveBackup
    BY <1>1, <1>5 DEF Backup, OrderRoots, NextGroup, WaitForRoot, Waiting, NoReference, CreateDestination, CopyGroup
  <2>2. QED
    BY <2>1, LeaveBackupIdle
<1>6. CASE Copying
  <2>1. Return
    BY <1>1, <1>2, <1>6 DEF Copying, at, Turn, OrderScan, WaitForScan, Merge, RemoveExtraFile, ExtraFilesDone,
              CopyExtraDirectories, RemoveDirectory, CreateDirectory, UpdateDirectory, SyncFile, FilesDone,
              CopySubdirectories, SetAttributes
  <2>2. thrown'
    BY <2>1 DEF Return
  <2>3. QED
    BY <2>1, <2>2, ReturnStops, Ends
<1>7. QED
  BY <1>3, <1>4, <1>5, <1>6 DEF Next

\* The invariant is inductive.
LEMMA MirrorStep == MirrorInv /\ [Next]_vars => MirrorInv'
<1> SUFFICES ASSUME MirrorInv, [Next]_vars PROVE MirrorInv'
  OBVIOUS
<1>1. PipelineInv /\ PipelineInv'
  BY Inductive DEF MirrorInv
<1>2. CASE UNCHANGED vars
  BY <1>1, <1>2, MirrorStutters
<1>3. CASE Next /\ pc = "idle"
  BY <1>1, <1>3, IdleStep, CallBackupLive, Ends DEF MirrorInv
<1>4. CASE Next /\ pc # "idle" /\ ~thrown
  <2>1. Live
    BY <1>4 DEF MirrorInv, Live
  <2>2. QED
    BY <2>1, <1>1, <1>4, LiveStep
<1>5. CASE Next /\ thrown
  <2>1. Stopped
    BY DEF MirrorInv, Stopped
  <2>2. QED
    BY <2>1, <1>1, <1>5, ThrownStep
<1>6. QED
  BY <1>2, <1>3, <1>4, <1>5

-----------------------------------------------------------------------------
(* What the backup finds when it writes. *)

\* When a directory is removed or has been made, subdirectories that the source
\* does not have are gone,
LEMMA ExtraDirGone ==
  ASSUME Live, stack # <<>>, f.pc \in Late \union {"directory"}, ~dryRun,
         NEW n \in Names, Append(HereOf(f), n) \notin tree["src"].dirs
  PROVE  Append(HereOf(f), n) \notin dst.dirs
<1> DEFINE p == Append(HereOf(f), n)
<1>1. /\ StackInv /\ KnowsInv /\ LinkInv /\ TodoInv /\ Progress /\ DataType /\ pc = "copy" /\ f.index \in 1 .. Len(f.dirs)
  BY LiveParts, Open DEF Processing, Late
<1>2. p \in Region /\ (p \in DoneDirs <=> p \in AllDirs /\ n \in Ready(f, "inner", Base))
  BY <1>1, HereStatus
<1>3. CASE p \in DoneDirs
  BY <1>1, <1>2, <1>3 DEF Progress
<1>4. CASE p \notin DoneDirs
  <2>1. ASSUME p \in before.dirs PROVE FALSE
    <3>1. n \in ExtraNames(f, Base)
      BY <2>1, <1>1, BaseType DEF ExtraNames, Here
    <3>2. n \in Ready(f, "inner", Base)
      BY <3>1 DEF Ready
    <3>3. p \in AllDirs
      BY <2>1, <1>2 DEF AllDirs
    <3>4. QED
      BY <3>2, <3>3, <1>2, <1>4
  <2>2. QED
    BY <2>1, <1>1, <1>2, <1>4 DEF Progress
<1>5. QED
  BY <1>3, <1>4

\* and so are such files, once they have been removed.
LEMMA ExtraFileGone ==
  ASSUME Live, stack # <<>>, f.pc \in Processing \ {"extraFiles"}, ~dryRun,
         NEW n \in Names, Append(HereOf(f), n) \notin tree["src"].files
  PROVE  Append(HereOf(f), n) \notin dst.files
<1> DEFINE p == Append(HereOf(f), n)
<1>1. /\ StackInv /\ KnowsInv /\ LinkInv /\ TodoInv /\ Progress /\ DataType /\ pc = "copy" /\ f.index \in 1 .. Len(f.dirs)
  BY LiveParts, Open
<1>2. p \in Region /\ (p \in DoneFiles <=> p \in AllFiles /\ Syncs(f, Base, p))
  BY <1>1, HereStatus
<1>3. f.pc \notin Reading \union {"leave"}
  BY DEF Processing, Reading
<1>4. f.work.extraFiles = {}
  BY <1>1, <1>3, FilesAndDirs DEF FilesKnown
<1>5. Syncs(f, Base, p)
  <2>1. Synced(f, Base, n)
    BY <1>1, <1>4, BaseType DEF Synced
  <2>2. QED
    BY <2>1 DEF Syncs
<1>6. p \in before.files => p \in AllFiles
  BY <1>2 DEF AllFiles
<1>7. QED
  BY <1>1, <1>2, <1>5, <1>6 DEF Progress

\* What is removed is there.
LEMMA ExtraFileThere ==
  ASSUME Live, at("extraFiles"), NEW n \in f.work.extraFiles
  PROVE  inner(n) \in dst.files
<1> DEFINE p == Append(HereOf(f), n)
<1>1. stack # <<>> /\ f.pc = "extraFiles" /\ f.pc \in Processing /\ f.pc \notin Reading \union {"leave"}
  BY DEF at, Processing, Reading
<1>2. /\ StackInv /\ KnowsInv /\ LinkInv /\ TodoInv /\ Progress /\ DataType /\ pc = "copy" /\ f.index \in 1 .. Len(f.dirs)
      /\ inner(n) = p /\ HereOf(f) \in Path
  BY <1>1, LiveParts, Open
<1>3. n \in Names /\ p \in before.files /\ p \notin tree["src"].files
  <2>1. f.work.extraFiles \subseteq Here(before, HereOf(f)).files \ Here(tree["src"], HereOf(f)).files
    BY <1>1, <1>2, FilesAndDirs DEF FilesKnown
  <2>2. QED
    BY <2>1 DEF Here
<1>4. p \in Region /\ (p \in DoneFiles <=> p \in AllFiles /\ Syncs(f, Base, p))
  BY <1>1, <1>2, <1>3, HereStatus
<1>5. ASSUME Syncs(f, Base, p) PROVE FALSE
  <2>1. PICK m \in Names : p = Append(HereOf(f), m) /\ Synced(f, Base, m)
    BY <1>5 DEF Syncs
  <2>2. m = n
    BY <2>1, <1>2, <1>3, SameEntry
  <2>3. QED
    BY <2>1, <2>2, <1>2, <1>3, BaseType DEF Synced
<1>6. QED
  BY <1>2, <1>3, <1>4, <1>5 DEF Progress

\* A directory is empty when it is removed, and otherwise its name is free or
\* its own.
LEMMA DirectoryFits ==
  ASSUME Live, at("directory"), ~dryRun
  PROVE  IF "src" \notin match.in THEN here \in dst.dirs /\ Here(dst, here) = NoLists
         ELSE IF "dst" \in match.in THEN here \in dst.dirs
         ELSE here \notin dst.dirs \union dst.files /\ f.path \in dst.dirs
<1>1. stack # <<>> /\ f.pc = "directory" /\ f.pc \in Processing /\ f.pc \notin Late
  BY DEF at, Processing, Late
<1>2. /\ StackInv /\ KnowsInv /\ LinkInv /\ TodoInv /\ Progress /\ SoundInv /\ PipelineInv /\ pc = "copy"
      /\ f.index \in 1 .. Len(f.dirs) /\ here = HereOf(f) /\ here \in Path /\ here \in Region /\ here \in AllDirs
      /\ "src" \in match.in <=> here \in tree["src"].dirs
      /\ "dst" \in match.in <=> here \in before.dirs
  BY <1>1, LiveParts, Open
<1>3. here \in dst.dirs <=> here \in before.dirs
  <2>1. here \notin DoneDirs
    BY <1>1, <1>2, HereStatus
  <2>2. QED
    BY <2>1, <1>2 DEF Progress
<1>4. CASE "src" \notin match.in
  <2>1. here \in dst.dirs
    BY <1>2, <1>3, <1>4 DEF AllDirs
  <2>2. ASSUME NEW n \in Names PROVE Append(here, n) \notin dst.dirs /\ Append(here, n) \notin dst.files
    <3>1. Parent(Append(here, n)) = here /\ Append(here, n) # <<>>
      BY <1>2, FirstOfAppend
    <3>2. Append(here, n) \notin tree["src"].dirs /\ Append(here, n) \notin tree["src"].files
      BY <3>1, <1>2, <1>4, TreesSound DEF WellFormed
    <3>3. QED
      BY <3>2, <1>1, <1>2, ExtraDirGone, ExtraFileGone
  <2>3. QED
    BY <2>1, <2>2, <1>4 DEF Here, NoLists
<1>5. CASE "src" \in match.in /\ "dst" \in match.in
  BY <1>2, <1>3, <1>5
<1>6. CASE "src" \in match.in /\ "dst" \notin match.in
  BY <1>1, <1>2, <1>3, <1>6, PlaceFree
<1>7. QED
  BY <1>4, <1>5, <1>6

\* The directory is there from then on.
LEMMA HereIsThere ==
  ASSUME Live, stack # <<>>, f.pc \in Late, ~dryRun, here \in tree["src"].dirs
  PROVE  here \in dst.dirs
<1>1. /\ StackInv /\ KnowsInv /\ LinkInv /\ TodoInv /\ Progress /\ pc = "copy"
      /\ f.index \in 1 .. Len(f.dirs) /\ here = HereOf(f) /\ here \in Region /\ here \in AllDirs
  BY LiveParts, Open DEF Processing, Late
<1>2. here \in DoneDirs
  BY <1>1, HereStatus
<1>3. QED
  BY <1>1, <1>2 DEF Progress

\* A file that has not been brought up to date is as it was, and where there is
\* none, there is no directory of its name.
LEMMA FileFits ==
  ASSUME Live, at("files"), NEW m \in f.work.copyFiles
  PROVE  /\ "dst" \in m.in <=> inner(m.name) \in dst.files
         /\ ~dryRun => inner(m.name) \notin dst.dirs /\ here \in dst.dirs
<1> DEFINE p == Append(HereOf(f), m.name)
<1>1. stack # <<>> /\ f.pc = "files" /\ f.pc \in Processing /\ f.pc \in Late /\ f.pc \notin Reading \union {"leave"}
  BY DEF at, Processing, Late, Reading
<1>2. /\ StackInv /\ KnowsInv /\ LinkInv /\ TodoInv /\ Progress /\ SoundInv /\ PipelineInv /\ DataType /\ pc = "copy"
      /\ f.index \in 1 .. Len(f.dirs) /\ here = HereOf(f) /\ here \in Path /\ inner(m.name) = p
  BY <1>1, LiveParts, Open
<1>3. /\ m.name \in Here(tree["src"], HereOf(f)).files
      /\ "dst" \in m.in <=> m.name \in Here(before, HereOf(f)).files
  BY <1>1, <1>2, FilesAndDirs DEF FilesKnown
<1>4. m.name \in Names /\ p \in tree["src"].files /\ ("dst" \in m.in <=> p \in before.files)
  BY <1>3 DEF Here
<1>5. p \in Region /\ (p \in DoneFiles <=> p \in AllFiles /\ Syncs(f, Base, p))
  BY <1>1, <1>2, <1>4, HereStatus
<1>6. ASSUME Syncs(f, Base, p) PROVE FALSE
  <2>1. PICK n \in Names : p = Append(HereOf(f), n) /\ Synced(f, Base, n)
    BY <1>6 DEF Syncs
  <2>2. n = m.name
    BY <2>1, <1>2, <1>4, SameEntry
  <2>3. QED
    BY <2>1, <2>2, <1>2, <1>4, BaseType DEF Synced
<1>7. p \in dst.files <=> p \in before.files
  BY <1>2, <1>5, <1>6 DEF Progress
<1>8. ASSUME ~dryRun PROVE p \notin dst.dirs /\ here \in dst.dirs
  <2>1. p \notin tree["src"].dirs /\ here \in tree["src"].dirs
    <3>1. Parent(p) = here /\ p # <<>>
      BY <1>2, <1>4, FirstOfAppend
    <3>2. QED
      BY <3>1, <1>2, <1>4, TreesSound DEF WellFormed
  <2>2. QED
    BY <2>1, <1>1, <1>4, <1>8, ExtraDirGone, HereIsThere
<1>9. QED
  BY <1>2, <1>4, <1>7, <1>8

\* No step of the backup meets anything unexpected.
LEMMA NothingClashes == MirrorInv => NoClash
<1> SUFFICES ASSUME MirrorInv PROVE NoClash
  OBVIOUS
<1>1. \A s \in Scanner : scanner[s].state = "running" => scanner[s].path \in tree[s].dirs
  BY DEF MirrorInv, SoundInv
<1>2. ASSUME NEW x \in {"extraFiles", "directory", "files", "attributes"}, at(x) PROVE Live
  BY <1>2 DEF MirrorInv, SoundInv, PipelineInv, RootInv, at, Live
<1>3. at("extraFiles") => \A n \in f.work.extraFiles : inner(n) \in dst.files
  BY <1>2, ExtraFileThere
<1>4. at("directory") /\ ~dryRun =>
       IF "src" \notin match.in THEN here \in dst.dirs /\ Here(dst, here) = NoLists
       ELSE IF "dst" \in match.in THEN here \in dst.dirs
       ELSE here \notin dst.dirs \union dst.files /\ f.path \in dst.dirs
  BY <1>2, DirectoryFits
<1>5. at("files") => \A m \in f.work.copyFiles :
       /\ "dst" \in m.in <=> inner(m.name) \in dst.files
       /\ ~dryRun => inner(m.name) \notin dst.dirs /\ here \in dst.dirs
  BY <1>2, FileFits
<1>6. at("attributes") /\ "src" \in match.in /\ ~dryRun => here \in dst.dirs
  <2> SUFFICES ASSUME at("attributes"), "src" \in match.in, ~dryRun PROVE here \in dst.dirs
    OBVIOUS
  <2>1. Live /\ stack # <<>> /\ f.pc \in Late /\ f.pc \in Processing
    BY <1>2 DEF at, Late, Processing
  <2>2. here \in tree["src"].dirs
    BY <2>1, Open
  <2>3. QED
    BY <2>1, <2>2, HereIsThere
<1>7. QED
  BY <1>1, <1>3, <1>4, <1>5, <1>6 DEF NoClash

-----------------------------------------------------------------------------
(* What a call has done in the end. *)

\* What a call was asked for are the paths in Region.
LEMMA BelowParts ==
  ASSUME NEW t \in Tree
  PROVE  /\ Below(t)["dirs"] = {p \in Region : p \in t.dirs}
         /\ Below(t)["files"] = {p \in Region : p \in t.files}
<1>1. t.dirs \subseteq Path /\ t.files \subseteq Path
  BY DEF Tree
<1>2. /\ Below(t)["dirs"] = {p \in t.dirs : p # <<>> /\ p[1] \in Asked}
      /\ Below(t)["files"] = {p \in t.files : p # <<>> /\ p[1] \in Asked}
  BY DEF Below
<1>3. QED
  BY <1>1, <1>2 DEF Region

\* Nothing is left to be done.
LEMMA AllDone ==
  ASSUME MirrorInv, pc = "leave", ~thrown
  PROVE  Live /\ ClosedDirs = AllDirs /\ DoneDirs = AllDirs /\ DoneFiles = AllFiles
<1>1. Live
  BY DEF MirrorInv, Live
<1>2. stack = <<>> /\ todo = {}
  BY <1>1, LiveParts DEF TodoInv
<1>3. Pending = {}
  BY <1>2 DEF Pending
<1>4. QED
  BY <1>1, <1>2, <1>3, NoCall

\* Where all is dealt with, all is as in the source,
LEMMA Mirrors == MirrorInv => Mirror
<1> SUFFICES ASSUME MirrorInv, pc = "leave", ~thrown, ~dryRun
             PROVE  /\ Below(dst) = Below(tree["src"])
                    /\ Below(dst).dirs \union Below(dst).files \subseteq fresh
  BY DEF Mirror
<1>1. ClosedDirs = AllDirs /\ DoneDirs = AllDirs /\ DoneFiles = AllFiles /\ Progress /\ PipelineInv /\ SoundInv
  BY AllDone, LiveParts
<1>2. dst \in Tree /\ tree["src"] \in Tree
  BY <1>1, TreesSound
<1>3. ASSUME NEW p \in Region
      PROVE  (p \in dst.dirs <=> p \in tree["src"].dirs) /\ (p \in dst.files <=> p \in tree["src"].files)
  BY <1>1 DEF Progress, AllDirs, AllFiles
<1>4. Below(dst)["dirs"] = Below(tree["src"])["dirs"] /\ Below(dst)["files"] = Below(tree["src"])["files"]
  BY <1>2, <1>3, BelowParts
<1>5. Below(dst) = Below(tree["src"])
  <2>1. \A t : Below(t) = [k \in {"dirs", "files"} |-> Below(t)[k]]
    BY DEF Below
  <2>2. \A k \in {"dirs", "files"} : Below(dst)[k] = Below(tree["src"])[k]
    BY <1>4
  <2>3. QED
    BY <2>1, <2>2
<1>6. ASSUME NEW p, p \in Below(dst)["dirs"] PROVE p \in fresh
  <2>1. p \in AllDirs /\ p \in tree["src"].dirs
    BY <1>2, <1>4, <1>6, BelowParts DEF AllDirs
  <2>2. QED
    BY <2>1, <1>1 DEF Progress
<1>7. ASSUME NEW p, p \in Below(dst)["files"] PROVE p \in fresh
  <2>1. p \in AllFiles /\ p \in tree["src"].files
    BY <1>2, <1>4, <1>7, BelowParts DEF AllFiles
  <2>2. QED
    BY <2>1, <1>1 DEF Progress
<1>8. QED
  BY <1>5, <1>6, <1>7

\* and counted.
LEMMA CountsAll ==
  ASSUME NEW all, NEW S, NEW T, all = {p \in Region : p \in S \union T}
  PROVE  LET old == {p \in Region : p \in S}
             new == {p \in Region : p \in T}
         IN  Counts(all, S, T) = [added   |-> Cardinality(new \ old),
                                  kept    |-> Cardinality(new \intersect old),
                                  removed |-> Cardinality(old \ new)]
<1> DEFINE old == {p \in Region : p \in S}
           new == {p \in Region : p \in T}
<1>1. all \ S = new \ old /\ all \intersect S \intersect T = new \intersect old /\ all \ T = old \ new
  OBVIOUS
<1>2. QED
  BY <1>1 DEF Counts

LEMMA StatisticsAreRight == MirrorInv => StatisticsRight
<1> SUFFICES ASSUME MirrorInv, pc = "leave", ~thrown, NEW kind \in {"dirs", "files"}
             PROVE  LET old == Below(before)[kind]
                        new == Below(tree["src"])[kind]
                    IN  count[kind] = [added   |-> Cardinality(new \ old),
                                       kept    |-> Cardinality(new \intersect old),
                                       removed |-> Cardinality(old \ new)]
  BY DEF StatisticsRight
<1>1. DoneDirs = AllDirs /\ DoneFiles = AllFiles /\ Tally /\ PipelineInv /\ SoundInv
  BY AllDone, LiveParts
<1>2. before \in Tree /\ tree["src"] \in Tree
  BY <1>1, TreesSound
<1>3. /\ count["dirs"] = Counts(AllDirs, before.dirs, tree["src"].dirs)
      /\ count["files"] = Counts(AllFiles, before.files, tree["src"].files)
  BY <1>1 DEF Tally
<1>4. CASE kind = "dirs"
  <2>1. AllDirs = {p \in Region : p \in before.dirs \union tree["src"].dirs}
    BY DEF AllDirs
  <2>2. QED
    BY <1>2, <1>3, <1>4, <2>1, CountsAll, BelowParts
<1>5. CASE kind = "files"
  <2>1. AllFiles = {p \in Region : p \in before.files \union tree["src"].files}
    BY DEF AllFiles
  <2>2. QED
    BY <1>2, <1>3, <1>5, <2>1, CountsAll, BelowParts
<1>6. QED
  BY <1>4, <1>5

-----------------------------------------------------------------------------

\* At each moment, the destination is the one the call began with, but for what
\* has been dealt with, which is as in the source and has been counted once; no
\* call forgets or repeats a directory.
THEOREM MirrorInvariance == Spec => []MirrorInv
<1>1. Init => MirrorInv
  BY MirrorInitially
<1>2. MirrorInv /\ [Next]_vars => MirrorInv'
  BY MirrorStep
<1>3. QED
  BY <1>1, <1>2, PTL DEF Spec

\* No call to the file system fails because of what the backup has done before,
\* or has not yet done: a directory is empty when line 524 of Backup.cpp removes
\* it, and a name is free when a file or a directory is made.
THEOREM NoClashEver == Spec => []NoClash
<1>1. MirrorInv => NoClash
  BY NothingClashes
<1>2. QED
  BY <1>1, MirrorInvariance, PTL

\* A call that ends without an exception leaves a mirror of the source.
THEOREM MirrorInTheEnd == Spec => []Mirror
<1>1. MirrorInv => Mirror
  BY Mirrors
<1>2. QED
  BY <1>1, MirrorInvariance, PTL

\* The statistics that a call hands over are what has become of the destination.
THEOREM StatisticsAlwaysRight == Spec => []StatisticsRight
<1>1. MirrorInv => StatisticsRight
  BY StatisticsAreRight
<1>2. QED
  BY <1>1, MirrorInvariance, PTL

=============================================================================
