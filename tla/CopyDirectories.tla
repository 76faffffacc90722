-------------------------- MODULE CopyDirectories --------------------------
(***************************************************************************)
(* Backup, seen from the directories: CreateBackup and the recursion of    *)
(* CopyDirectories over the trees of source, reference and destination.    *)
(* Three scanners read the next directory of each tree into one of two     *)
(* slots, while the lists in the other slot are merged; all of them are    *)
(* waited for before anything is written.  CopyDirectories calls itself    *)
(* for the subdirectories, with the same scanners.                         *)
(*                                                                         *)
(* A scanner is seen here as ScanService has it: it works on an order      *)
(* until it has filled the lists it was lent, or fails.  What is done to   *)
(* one file is a step (BackupFile has its parts), and so is a call of the  *)
(* BackupStrategy for a directory; DryRunBackupStrategy makes these calls  *)
(* do nothing.  Any step may end in an exception: a                        *)
(* call that fails, attributes or streams that are not supported.  Nobody  *)
(* else changes the trees during a call.                                   *)
(***************************************************************************)
EXTENDS Integers, Sequences, FiniteSets

CONSTANTS
  Names,      \* names of files and directories, numbers in CompareName's order
  Trees       \* what source, reference and destination may hold

Path == Seq(Names)
Tree == [dirs : SUBSET Path, files : SUBSET Path]

Parent(p) == SubSeq(p, 1, Len(p) - 1)

\* A tree holds the parent of each entry, and no name twice in a directory.
ASSUME ConstantsAssumption ==
  /\ Names \subseteq Nat /\ IsFiniteSet(Names)
  /\ Trees \subseteq Tree
  /\ \A t \in Trees : /\ t.dirs \intersect t.files = {}
                      /\ \A p \in t.dirs \union t.files : p = <<>> \/ Parent(p) \in t.dirs
                      /\ <<>> \notin t.files

VARIABLES
  tree,       \* the three trees
  fresh,      \* what in dst has been brought up to date by this call
  before,     \* dst before this call
  dryRun,     \* is the strategy DryRunBackupStrategy?
  count,      \* m_statistics
  scanner,    \* m_srcScanner, m_refScanner, m_dstScanner
  pc, todo, group, root,  \* CreateBackup: srcPaths, *it, the lists of the roots
  stack,      \* the calls of CopyDirectories
  thrown      \* is an exception on its way?

backup == <<pc, todo, group, root>>
trees  == <<tree, fresh, before, dryRun>>
vars   == <<trees, count, scanner, backup, stack, thrown>>

Scanner == {"src", "ref", "dst"}
Lists   == [dirs : SUBSET Names, files : SUBSET Names]
NoLists == [dirs |-> {}, files |-> {}]

\* A Match of directories: which trees have the directory?
Match == [name : Names, in : SUBSET Scanner]
Slot  == [idx : Int, path : SUBSET Scanner, lists : [Scanner -> Lists]]
Unset == -1
EmptySlot == [idx |-> Unset, path |-> {}, lists |-> [s \in Scanner |-> NoLists]]

NoWork == [extraFiles |-> {}, extraDirs |-> {}, copyFiles |-> {}, copyDirs |-> {}]
FramePc == {"turn", "merge", "extraFiles", "extraDirs", "directory", "files",
            "subdirs", "attributes", "leave", "orderSrc", "orderRef", "orderDst",
            "waitSrc", "waitRef", "waitDst"}

Ordering(s) == [src |-> "orderSrc", ref |-> "orderRef", dst |-> "orderDst"][s]
Waiting(s)  == [src |-> "waitSrc", ref |-> "waitRef", dst |-> "waitDst"][s]

\* Files and directories; those kept are m_retained and m_updated.
Zero == [dirs  |-> [added |-> 0, kept |-> 0, removed |-> 0],
         files |-> [added |-> 0, kept |-> 0, removed |-> 0]]

Idle == [state |-> "idle", depth |-> 0, slot |-> 0, path |-> <<>>]

Init ==
  /\ tree \in [Scanner -> Trees]
  /\ fresh = {} /\ before = tree["dst"] /\ dryRun = FALSE /\ count = Zero
  /\ scanner = [s \in Scanner |-> Idle]
  /\ pc = "idle" /\ todo = {} /\ group = {} /\ root = [s \in Scanner |-> NoLists]
  /\ stack = <<>> /\ thrown = FALSE

-----------------------------------------------------------------------------
(* The trees. *)

Here(t, p) == [dirs  |-> {n \in Names : Append(p, n) \in t.dirs},
               files |-> {n \in Names : Append(p, n) \in t.files}]

\* A write changes the times of the directory it is made in.
Write(dirs, files, done, touched) ==
  /\ IF dryRun THEN UNCHANGED <<tree, fresh>>
     ELSE /\ tree' = [tree EXCEPT !["dst"] = [dirs |-> dirs, files |-> files]]
          /\ fresh' = ((fresh \union done) \ touched) \intersect (dirs \union files)
  /\ UNCHANGED <<before, dryRun>>

\* What the file system asks for.
Possible(P) == dryRun \/ P

Event(kind, what) == count' = [count EXCEPT ![kind][what] = @ + 1]

dst == tree["dst"]

-----------------------------------------------------------------------------
(* The scanners. *)

\* At depth 0 the lists are those of CreateBackup, with a filter for them.
Order(s, depth, slot, path) ==
  [scanner EXCEPT ![s] = [state |-> "running", depth |-> depth, slot |-> slot, path |-> path]]

\* The directories to be backed up, and what the filters of lines 265 and 290
\* accept of a root.
Asked == Here(tree["src"], <<>>).dirs
Filtered(s, lists) == LET names == IF s = "src" THEN group ELSE Asked
                      IN  [dirs  |-> lists.dirs \intersect names,
                           files |-> lists.files \intersect names]

\* The scan of s comes to its end: the lists are filled.
Complete(s) ==
  LET scan == scanner[s]
      lists == Here(tree[s], scan.path)
  IN  /\ scan.state = "running" /\ scan.path \in tree[s].dirs
      /\ scanner' = [scanner EXCEPT ![s].state = "lists"]
      /\ IF scan.depth = 0
         THEN /\ root' = [root EXCEPT ![s] = Filtered(s, lists)]
              /\ UNCHANGED stack
         ELSE /\ stack' = [stack EXCEPT ![scan.depth].slot[scan.slot].lists[s] = lists]
              /\ UNCHANGED root
  /\ UNCHANGED <<trees, count, pc, todo, group, thrown>>

FailScan(s) ==
  /\ scanner[s].state = "running"
  /\ scanner' = [scanner EXCEPT ![s].state = "exception"]
  /\ UNCHANGED <<trees, count, backup, stack, thrown>>

Free(s)   == scanner[s].state = "idle"

\* The results of S are taken; a scanner at work goes on working.
Forget(S) == scanner' = [s \in Scanner |-> IF s \in S /\ scanner[s].state # "running"
                                           THEN Idle ELSE scanner[s]]

\* DirectoryScanner::Wait can return.
FinishedBug(s) == scanner[s].state # "running" \/ s = "dst"
Finished(s)    == scanner[s].state # "running"

-----------------------------------------------------------------------------
(* CopyDirectories: the innermost call, and where it is in its loop. *)

f        == stack[Len(stack)]
at(p)    == stack # <<>> /\ f.pc = p
Top(g)   == stack' = [stack EXCEPT ![Len(stack)] = g]
Goto(p)  == Top([f EXCEPT !.pc = p])

\* Lines 380 and 446: index & 1, and the other one.
ScanIndex == f.index % 2
ReadIndexBug == f.index % 2
ReadIndex == (f.index + 1) % 2
read  == f.slot[ReadIndex]
match == f.dirs[read.idx + 1]
here  == Append(f.path, match.name)
inner(n) == Append(here, n)

InOrder(M) ==
  LET rank(m) == Cardinality({n \in M : n.name < m.name})
  IN  [i \in 1 .. Cardinality(M) |-> CHOOSE m \in M : rank(m) = i - 1]

Matches(names, lists, kind) ==
  {[name |-> n, in |-> {s \in Scanner : n \in lists[s][kind]}] : n \in names}

Call(optional, path, matches) ==
  [optional |-> optional, path |-> path, dirs |-> InOrder(matches), index |-> 0,
   slot |-> [i \in {0, 1} |-> EmptySlot], pc |-> "turn", work |-> NoWork]

UnchangedAround == UNCHANGED <<trees, count, backup, thrown>>

\* Lines 377-397.
TurnBug ==
  /\ at("turn")
  /\ IF f.index > Len(f.dirs) THEN Goto("leave")
     ELSE Top([f EXCEPT !.slot[ScanIndex].idx = f.index, !.pc = "orderSrc"])
  /\ UNCHANGED scanner /\ UnchangedAround
Turn ==
  /\ at("turn")
  /\ IF f.index > Len(f.dirs) THEN Goto("leave")
     ELSE IF f.index = Len(f.dirs) THEN Goto("merge")
     ELSE Top([f EXCEPT !.slot[ScanIndex].idx = f.index, !.pc = "orderSrc"])
  /\ UNCHANGED scanner /\ UnchangedAround

AfterOrder(s) == IF s = "src" THEN "orderRef"
                 ELSE IF s = "ref" THEN "orderDst"
                 ELSE IF f.index = 0 THEN "waitSrc" ELSE "merge"

\* Lines 399-434.
OrderScan(s) ==
  /\ at(Ordering(s))
  /\ LET next == f.dirs[f.index + 1]
     IN  IF s \in next.in
         THEN /\ scanner' = Order(s, Len(stack), ScanIndex, Append(f.path, next.name))
              /\ Top([f EXCEPT !.slot[ScanIndex].path = @ \union {s}, !.pc = AfterOrder(s)])
         ELSE Goto(AfterOrder(s)) /\ UNCHANGED scanner
  /\ UnchangedAround

\* What ThreeWayMerge finds.
WorkBug(l) ==
  [extraFiles |-> l["dst"].files \ l["src"].files,
   extraDirs  |-> Matches(l["dst"].dirs \ (l["src"].dirs \union l["src"].files),
                          [l EXCEPT !["src"] = NoLists, !["ref"] = NoLists], "dirs"),
   copyFiles  |-> Matches(l["src"].files, l, "files"),
   copyDirs   |-> Matches(l["src"].dirs, l, "dirs")]
Work(l) ==
  [extraFiles |-> l["dst"].files \ l["src"].files,
   extraDirs  |-> Matches(l["dst"].dirs \ l["src"].dirs,
                          [l EXCEPT !["src"] = NoLists, !["ref"] = NoLists], "dirs"),
   copyFiles  |-> Matches(l["src"].files, l, "files"),
   copyDirs   |-> Matches(l["src"].dirs, l, "dirs")]

\* Lines 448-490.
Merge ==
  /\ at("merge")
  /\ Top([f EXCEPT !.work = Work(read.lists),
                   !.slot[ReadIndex].lists = EmptySlot.lists,
                   !.pc = "waitSrc"])
  /\ UNCHANGED scanner /\ UnchangedAround

AfterWait(s) == IF s = "src" THEN [f EXCEPT !.pc = "waitRef"]
                ELSE IF s = "ref" THEN [f EXCEPT !.pc = "waitDst"]
                ELSE IF f.index = 0 THEN [f EXCEPT !.index = 1, !.pc = "turn"]
                ELSE [f EXCEPT !.pc = "extraFiles"]

\* Lines 439-442 and 493-495.
WaitForScanBug(s) ==
  /\ at(Waiting(s)) /\ Finished(s) /\ scanner[s].state # "exception"
  /\ Forget({s})
  /\ Top(AfterWait(s))
  /\ UnchangedAround
WaitForScan(s) ==
  /\ at(Waiting(s)) /\ Finished(s)
  /\ Forget({s})
  /\ IF scanner[s].state = "exception"
     THEN Goto("leave") /\ thrown' = TRUE
     ELSE Top(AfterWait(s)) /\ UNCHANGED thrown
  /\ UNCHANGED <<trees, count, backup>>

Unscanned == UNCHANGED <<scanner, backup, thrown>>

\* Lines 505-513.
RemoveExtraFile ==
  /\ at("extraFiles")
  /\ \E n \in f.work.extraFiles :
       /\ Write(dst.dirs, dst.files \ {inner(n)}, {}, {here})
       /\ Top([f EXCEPT !.work.extraFiles = @ \ {n}])
  /\ Event("files", "removed")
  /\ Unscanned
ExtraFilesDone ==
  /\ at("extraFiles") /\ f.work.extraFiles = {}
  /\ Goto("extraDirs")
  /\ UNCHANGED scanner /\ UnchangedAround

\* Lines 515-519, a call with this one's scanners.
CopyExtraDirectoriesBug ==
  /\ at("extraDirs")
  /\ IF f.work.extraDirs = {} THEN Goto("directory")
     ELSE stack' = Append([stack EXCEPT ![Len(stack)].pc = "directory",
                                        ![Len(stack)].work.extraDirs = {}],
                          Call({}, f.path, f.work.extraDirs))
  /\ UNCHANGED scanner /\ UnchangedAround
CopyExtraDirectories ==
  /\ at("extraDirs")
  /\ IF f.work.extraDirs = {} THEN Goto("directory")
     ELSE stack' = Append([stack EXCEPT ![Len(stack)].pc = "directory",
                                        ![Len(stack)].work.extraDirs = {}],
                          Call({}, here, f.work.extraDirs))
  /\ UNCHANGED scanner /\ UnchangedAround

\* Lines 521-526.  A directory has to be empty.
RemoveDirectoryBug ==
  /\ at("directory") /\ "src" \notin match.in
  /\ Possible(Here(dst, here) = NoLists)
  /\ Write(dst.dirs \ {here}, dst.files, {}, {f.path})
  /\ UNCHANGED count
  /\ Goto("files")
  /\ Unscanned
RemoveDirectory ==
  /\ at("directory") /\ "src" \notin match.in
  /\ Possible(Here(dst, here) = NoLists)
  /\ Event("dirs", "removed")
  /\ Write(dst.dirs \ {here}, dst.files, {}, {f.path})
  /\ Goto("files")
  /\ Unscanned

\* Lines 535-539, where nothing has this name.
CreateDirectory ==
  /\ at("directory") /\ "src" \in match.in /\ "dst" \notin match.in
  /\ Possible(here \notin dst.dirs \union dst.files)
  /\ Event("dirs", "added")
  /\ Write(dst.dirs \union {here}, dst.files, {}, {f.path})
  /\ Goto("files")
  /\ Unscanned

\* Lines 540-560: renamed or not.
UpdateDirectory ==
  /\ at("directory") /\ {"src", "dst"} \subseteq match.in
  /\ Event("dirs", "kept")
  /\ \E renamed \in BOOLEAN : Write(dst.dirs, dst.files, {}, IF renamed THEN {f.path} ELSE {})
  /\ Goto("files")
  /\ Unscanned

\* Lines 564-670: a file is left as it is or written, where no directory has
\* its name.
SyncFile ==
  /\ at("files")
  /\ \E m \in f.work.copyFiles, written \in BOOLEAN :
       /\ Possible(inner(m.name) \notin dst.dirs)
       /\ "dst" \notin m.in => written
       /\ Write(dst.dirs, dst.files \union {inner(m.name)}, {inner(m.name)},
                IF written THEN {here} ELSE {})
       /\ Event("files", IF "dst" \in m.in THEN "kept" ELSE "added")
       /\ Top([f EXCEPT !.work.copyFiles = @ \ {m}])
  /\ Unscanned
FilesDone ==
  /\ at("files") /\ f.work.copyFiles = {}
  /\ Goto("subdirs")
  /\ UNCHANGED scanner /\ UnchangedAround

\* Lines 674-677.
CopySubdirectories ==
  /\ at("subdirs")
  /\ IF f.work.copyDirs = {} \/ "src" \notin match.in THEN Goto("attributes")
     ELSE stack' = Append([stack EXCEPT ![Len(stack)].pc = "attributes"],
                          Call(read.path \intersect {"src", "ref"}, here, f.work.copyDirs))
  /\ UNCHANGED scanner /\ UnchangedAround

\* Lines 679-688.
SetAttributesBug ==
  /\ at("attributes")
  /\ IF {"src", "dst"} \subseteq match.in THEN Write(dst.dirs, dst.files, {here}, {}) ELSE UNCHANGED trees
  /\ Top([f EXCEPT !.slot[ReadIndex] = EmptySlot, !.index = @ + 1, !.pc = "turn", !.work = NoWork])
  /\ UNCHANGED count /\ Unscanned
SetAttributes ==
  /\ at("attributes")
  /\ IF "src" \in match.in THEN Write(dst.dirs, dst.files, {here}, {}) ELSE UNCHANGED trees
  /\ Top([f EXCEPT !.slot[ReadIndex] = EmptySlot, !.index = @ + 1, !.pc = "turn", !.work = NoWork])
  /\ UNCHANGED count /\ Unscanned

\* A file that could not be brought up to date is as before, gone, or a copy.
FailFile ==
  /\ at("files")
  /\ \E m \in f.work.copyFiles :
       /\ Possible(inner(m.name) \notin dst.dirs)
       /\ \E files \in {dst.files \union {inner(m.name)}, dst.files \ {inner(m.name)}} :
            Write(dst.dirs, files, {}, {here})
  /\ Goto("leave") /\ thrown' = TRUE
  /\ UNCHANGED <<count, scanner, backup>>

\* An exception in any other step.
Fail ==
  /\ stack # <<>> /\ f.pc \notin {"turn", "leave"}
  /\ Goto("leave") /\ thrown' = TRUE
  /\ UNCHANGED <<trees, count, scanner, backup>>

\* Lines 370-374 and 689-690: whether it returns or throws, the call waits for
\* the scanners first; an exception goes on to the caller.
AllFinishedBug == TRUE
AllFinished == \A s \in Scanner : Finished(s)
Return ==
  /\ at("leave") /\ AllFinished
  /\ Forget(Scanner)
  /\ LET rest == SubSeq(stack, 1, Len(stack) - 1)
     IN  stack' = IF thrown /\ rest # <<>> THEN [rest EXCEPT ![Len(rest)].pc = "leave"] ELSE rest
  /\ pc' = IF Len(stack) > 1 THEN pc ELSE IF thrown THEN "leave" ELSE "group"
  /\ UNCHANGED <<trees, count, todo, group, root, thrown>>

-----------------------------------------------------------------------------
(* CreateBackup. *)

Exists(s) == <<>> \in tree[s].dirs

\* Lines 196-258: the directories to be backed up, grouped by their parents.
\* They exist, as does each parent; another ref may be given with each call.
CallBackup ==
  /\ pc = "idle"
  /\ \E source, reference \in Trees :
       LET asked == Here(source, <<>>).dirs
       IN  /\ asked # {}
           /\ tree' = [tree EXCEPT !["src"] = source, !["ref"] = reference]
           /\ todo' \in {{asked}, {{n} : n \in asked}}
  /\ fresh' = {} /\ before' = dst /\ dryRun' \in BOOLEAN
  /\ pc' = "roots"
  /\ UNCHANGED <<count, scanner, group, root, stack, thrown>>

\* Lines 275-282: both scans in one step, as only their ends are seen by anybody.
OrderRoots ==
  /\ pc = "roots"
  /\ scanner' = [s \in Scanner |-> IF s # "src" /\ Exists(s)
                                   THEN [Idle EXCEPT !.state = "running"] ELSE scanner[s]]
  /\ pc' = "group"
  /\ UNCHANGED <<trees, count, todo, group, root, stack, thrown>>

\* Lines 284-300 and 344-346; what is checked at the first turn only is root.
NextGroup ==
  /\ pc = "group"
  /\ \/ /\ todo = {} /\ pc' = "leave"
        /\ UNCHANGED <<todo, group, root, scanner>>
     \/ \E g \in todo :
          /\ group' = g /\ todo' = todo \ {g}
          /\ root' = [root EXCEPT !["src"] = NoLists]
          /\ scanner' = Order("src", 0, 0, <<>>)
          /\ pc' = IF group = {} THEN "waitRef" ELSE "waitSrc"
  /\ UNCHANGED <<trees, count, stack, thrown>>

Throw == pc' = "leave" /\ thrown' = TRUE

\* Lines 302-312: in ref and dst, what is to be backed up must be a directory.
WaitForRoot(s, next) ==
  /\ pc = Waiting(s) /\ Exists(s) /\ Finished(s)
  /\ Forget({s})
  /\ IF scanner[s].state = "exception" \/ root[s].files # {}
     THEN Throw ELSE pc' = Waiting(next) /\ UNCHANGED thrown
  /\ UNCHANGED <<trees, count, todo, group, root, stack>>

NoReference ==
  /\ pc = "waitRef" /\ ~Exists("ref")
  /\ pc' = "waitDst"
  /\ UNCHANGED <<trees, count, scanner, todo, group, root, stack, thrown>>

\* Lines 313-317, while the source is scanned; not counted.
CreateDestination ==
  /\ pc = "waitDst" /\ ~Exists("dst")
  /\ Write(dst.dirs \union {<<>>}, dst.files, {}, {})
  /\ pc' = "waitSrc"
  /\ UNCHANGED <<count, scanner, todo, group, root, stack, thrown>>

\* Lines 319-343.
CopyGroup ==
  /\ pc = "waitSrc" /\ Finished("src")
  /\ Forget({"src"})
  /\ IF scanner["src"].state = "exception" THEN Throw /\ UNCHANGED stack
     ELSE /\ pc' = "copy"
          /\ stack' = <<Call({"src", "ref"}, <<>>, Matches(root["src"].dirs, root, "dirs"))>>
          /\ UNCHANGED thrown
  /\ UNCHANGED <<trees, count, todo, group, root>>

FailBackup ==
  /\ pc \notin {"idle", "copy", "leave"}
  /\ Throw
  /\ UNCHANGED <<trees, count, scanner, todo, group, root, stack>>

\* Lines 269-273, 294-296 and 346-347.  The statistics are handed over, unless
\* there is an exception; they are reset by the next call in any case.
LeaveBackup ==
  /\ pc = "leave" /\ AllFinished
  /\ Forget(Scanner)
  /\ pc' = "idle" /\ todo' = {} /\ group' = {} /\ root' = [s \in Scanner |-> NoLists]
  /\ thrown' = FALSE /\ dryRun' = FALSE /\ count' = Zero
  /\ UNCHANGED <<tree, fresh, before, stack>>

-----------------------------------------------------------------------------
Copying == \/ Turn \/ (\E s \in Scanner : OrderScan(s) \/ WaitForScan(s)) \/ Merge
           \/ RemoveExtraFile \/ ExtraFilesDone \/ CopyExtraDirectories
           \/ RemoveDirectory \/ CreateDirectory \/ UpdateDirectory
           \/ SyncFile \/ FilesDone \/ CopySubdirectories \/ SetAttributes \/ Return
Backup  == \/ OrderRoots \/ NextGroup \/ WaitForRoot("ref", "dst") \/ WaitForRoot("dst", "src")
           \/ NoReference \/ CreateDestination \/ CopyGroup \/ LeaveBackup
Scans(s) == Complete(s) \/ FailScan(s)

Next == \/ CallBackup \/ Backup \/ FailBackup
        \/ Copying \/ Fail \/ FailFile
        \/ \E s \in Scanner : Scans(s)

\* The backup's thread goes on when it can, and every scan ends; nothing has to
\* fail, and nobody has to call.
Fairness == WF_vars(Copying \/ Backup) /\ \A s \in Scanner : WF_vars(Scans(s))

Spec == Init /\ [][Next]_vars /\ Fairness

-----------------------------------------------------------------------------
(* Properties. *)

Frame == [optional : SUBSET {"src", "ref"}, path : Path, dirs : Seq(Match), index : Nat,
          slot : [{0, 1} -> Slot], pc : FramePc,
          work : [extraFiles : SUBSET Names, extraDirs : SUBSET Match,
                  copyFiles : SUBSET Match, copyDirs : SUBSET Match]]

Scan == [state : {"idle", "running", "lists", "exception"}, depth : Nat, slot : {0, 1}, path : Path]

DataType ==
  /\ tree \in [Scanner -> Tree] /\ before \in Tree /\ fresh \subseteq Path
  /\ scanner \in [Scanner -> Scan]
  /\ pc \in {"idle", "roots", "group", "copy", "leave"} \union {Waiting(s) : s \in Scanner}
  /\ dryRun \in BOOLEAN
  /\ count \in [{"dirs", "files"} -> [{"added", "kept", "removed"} -> Nat]]
  /\ group \subseteq Names /\ todo \subseteq SUBSET Names /\ root \in [Scanner -> Lists]
  /\ thrown \in BOOLEAN

TypeOK ==
  /\ DataType
  /\ \A d \in 1 .. Len(stack) :
       /\ stack[d] \in Frame /\ stack[d].index <= Len(stack[d].dirs) + 1
       /\ \A i \in {0, 1} : stack[d].slot[i].idx \in Unset .. Len(stack[d].dirs) - 1

\* The asserts of lines 381-400 and 497-502, and the one of Scan (line 357 of
\* DirectoryScanner.cpp): a slot is empty when it is given to the scanners, it
\* holds the right directory when it is merged, and no order finds its scanner
\* at work on another one.
AssertsHold ==
  /\ at("turn") /\ f.index < Len(f.dirs) => f.slot[ScanIndex] = EmptySlot
  /\ \A s \in Scanner : at(Ordering(s)) /\ s \in f.dirs[f.index + 1].in =>
       Free(s) /\ (s # "dst" => s \in f.optional)
  /\ at("merge") \/ at("extraFiles") =>
       /\ read.idx = f.index - 1 /\ read.path = match.in
       /\ f.work.copyFiles # {} => "src" \in match.in
  /\ pc = "roots" => Free("ref") /\ Free("dst")
  /\ pc \in {"roots", "group"} => Free("src")

\* Lists are lent to a scanner only as long as the call they belong to lives,
\* also when an exception ends it, and stay untouched meanwhile.
ListsLive ==
  \A s \in Scanner : scanner[s].state = "running" =>
    IF scanner[s].depth = 0 THEN pc # "idle" /\ root[s] = NoLists
    ELSE /\ scanner[s].depth = Len(stack)
         /\ f.slot[scanner[s].slot].idx # Unset
         /\ f.slot[scanner[s].slot].lists[s] = NoLists

\* No call to the file system fails because of what the backup has done
\* before, or has not yet done: a directory is empty when it is removed, and
\* a name is free when a file or directory is made, also where source and
\* destination use the name for different kinds.  A directory is there as long
\* as it is scanned, also if the strategy has not created what was asked for.
NoClash ==
  /\ \A s \in Scanner : scanner[s].state = "running" => scanner[s].path \in tree[s].dirs
  /\ at("extraFiles") => \A n \in f.work.extraFiles : inner(n) \in dst.files
  /\ at("directory") /\ ~dryRun =>
       IF "src" \notin match.in THEN here \in dst.dirs /\ Here(dst, here) = NoLists
       ELSE IF "dst" \in match.in THEN here \in dst.dirs
       ELSE here \notin dst.dirs \union dst.files /\ f.path \in dst.dirs
  /\ at("files") => \A m \in f.work.copyFiles :
       /\ "dst" \in m.in <=> inner(m.name) \in dst.files
       /\ ~dryRun => inner(m.name) \notin dst.dirs /\ here \in dst.dirs
  /\ at("attributes") /\ "src" \in match.in /\ ~dryRun => here \in dst.dirs

Below(t) == [k \in {"dirs", "files"} |-> {p \in t[k] : p # <<>> /\ p[1] \in Asked}]
Beside(t) == [k \in {"dirs", "files"} |-> {p \in t[k] : p # <<>> /\ p[1] \notin Asked}]

\* A call that ends without an exception leaves a mirror of the source,
\* all of whose files have been brought up to date, and whose directories have
\* the times of the source, since nothing has been written in them after that.
Mirror ==
  pc = "leave" /\ ~thrown /\ ~dryRun =>
    /\ Below(dst) = Below(tree["src"])
    /\ Below(dst).dirs \union Below(dst).files \subseteq fresh

\* The statistics of a call that ends without an exception are what has become
\* of dst, directory by directory and file by file; after a dry run, what would
\* become of it.
StatisticsRight ==
  pc = "leave" /\ ~thrown =>
    \A kind \in {"dirs", "files"} :
      LET old == Below(before)[kind]
          new == Below(tree["src"])[kind]
      IN  count[kind] = [added   |-> Cardinality(new \ old),
                         kept    |-> Cardinality(new \intersect old),
                         removed |-> Cardinality(old \ new)]

\* However far a call gets: what it was not asked for stays as it is, and no
\* directory goes that the source has as well.
NothingLost ==
  pc # "idle" => /\ Beside(dst) = Beside(before)
                 /\ before.dirs \intersect tree["src"].dirs \subseteq dst.dirs

\* Line 492: the disk is not written to while directories are scanned; neither
\* to what is there, nor to the contents and attributes of it, which fresh shows.
QuietWrites ==
  [][stack # <<>> /\ <<dst, fresh>>' # <<dst, fresh>> => \A s \in Scanner : Free(s)]_vars

\* A call comes to its end.
CallEnds == pc # "idle" ~> pc = "idle"
=============================================================================
