----------------------------- MODULE BackupFile -----------------------------
(***************************************************************************)
(* Backup, seen from one file.  CreateBackup(src, ref, dst) brings a file  *)
(* of the backup dst up to date with the source: it keeps it, replaces it  *)
(* by a hard link to the same file of the backup ref, or by a copy.  Links *)
(* mean that several backups share one file on disk, whose contents,       *)
(* attributes and security are seen through all of them.                   *)
(*                                                                         *)
(* Each call of the BackupStrategy is a step: it may fail, which ends the  *)
(* call with an exception, the program may be killed before or after it,   *)
(* and the source may be edited.  What a directory scan has found is a     *)
(* snapshot taken before the first step.  Names are equal but for their    *)
(* case; m_compareContents and m_fileSecurity are true, as no code changes *)
(* them.                                                                   *)
(***************************************************************************)
EXTENDS Integers, FiniteSets

CONSTANTS
  Backups,      \* how many backups there may be, numbered from 1
  Ids,          \* FILE_ID_128 of files on the backup disk
  None,         \* no file, std::nullopt
  Spellings,    \* the file's name in different case
  Contents, Times, Securities,
  Inherited,    \* the securities that a directory may hand on to a new file
  Size(_),      \* what there is to see of contents without reading them
  Sources,      \* what the source file may be
  Partial, PartialStream, \* what an interrupted copy leaves of its streams
  KeepsRef      \* is dst always the newest backup, and ref the one before?

\* A file's main and alternate streams; its times and attributes, as far as
\* kCopyAttributeMask goes; any of kUnsupportedAttributesMask.  No file is
\* read-only, which ForceDelete would have to lift for a while.
Data == [main : Contents, alt : Contents, times : Times,
         security : Securities, unsupported : BOOLEAN]

ASSUME ConstantsAssumption ==
  /\ Backups \in Nat \ {0}
  /\ None \notin Ids
  /\ Sources \subseteq [name : Spellings, data : Data]
  /\ None \notin [name : Spellings, data : Data]
  /\ None \notin [name : Spellings, id : Ids]
  /\ None \notin [name : Spellings, id : Ids, data : Data]
  /\ None \notin Data
  /\ Inherited \subseteq Securities
  /\ {Partial, PartialStream} \subseteq Contents
  /\ KeepsRef \in BOOLEAN

VARIABLES
  source,       \* the source file, or None
  backups,      \* the directory entry in each backup, or None
  disk,         \* the files on the backup disk
  newest,       \* the newest backup so far
  pc, ref, dst, \* the call: where it is, its two backups (ref may be 0)
  srcFile, refFile, dstFile,      \* the ScannedFiles of the Match
  quiet,        \* has the source been left alone since it was scanned?
  count         \* m_statistics

place == <<newest, ref, dst>>
match == <<srcFile, refFile, dstFile>>
files == <<source, backups, disk>>
vars  == <<files, place, pc, match, quiet, count>>

All   == 1 .. Backups
Entry == [name : Spellings, id : Ids]
Pc    == {"idle", "sync", "compareDst", "compareDstStreams", "retain",
          "setSecurity", "delete", "remove", "tryRef", "compareRef", "link",
          "copy", "setAttributes", "done"}

Counters == {"added", "updated", "retained", "removed", "replaced",
             "securityUpdated", "inHardLinks", "createdInHardLinks", "copied"}
Zero     == [c \in Counters |-> 0]
EventBug(S) == count' = [c \in Counters |-> IF c \in S THEN count[c] - 1 ELSE count[c]]
Event(S) == count' = [c \in Counters |-> IF c \in S THEN count[c] + 1 ELSE count[c]]

Init ==
  /\ source \in Sources \union {None}
  /\ backups = [b \in All |-> None]
  /\ disk = [i \in Ids |-> None]
  /\ newest = 0 /\ ref = 0 /\ dst = 0
  /\ pc = "idle"
  /\ srcFile = None /\ refFile = None /\ dstFile = None
  /\ quiet = TRUE /\ count = Zero

-----------------------------------------------------------------------------
(* The files of the backup disk. *)

Unused(id) == \A b \in All : backups[b] # None => backups[b].id # id

\* The name of backup b goes; with its last name, the file goes.
Unlink(b) ==
  LET id == backups[b].id
  IN  /\ backups' = [backups EXCEPT ![b] = None]
      /\ disk' = IF \E c \in All \ {b} : backups[c] # None /\ backups[c].id = id
                 THEN disk ELSE [disk EXCEPT ![id] = None]

Put(b, name, id) == backups' = [backups EXCEPT ![b] = [name |-> name, id |-> id]]

Scan(b) == IF b = 0 \/ backups[b] = None THEN None
           ELSE [name |-> backups[b].name, id |-> backups[b].id, data |-> disk[backups[b].id]]

-----------------------------------------------------------------------------
(* Comparisons of scanned files, lines 58-72 and IsHardLink. *)

SameAttributes(f, g) ==
  /\ f.data.times = g.data.times
  /\ Size(f.data.main) = Size(g.data.main)
  /\ Size(f.data.alt) = Size(g.data.alt)
SameSecurity(f, g) == f.data.security = g.data.security
IsHardLink(f, g)   == f.id = g.id

\* Line 588 looks at ref whether there is one or not: without, it compares
\* with memory that nobody has written.
DstIsHardLinkBug(yes) == yes = FALSE
DstIsHardLink(yes) == IF refFile = None THEN yes \in BOOLEAN
                      ELSE yes = IsHardLink(dstFile, refFile)

\* Line 645.
RefIsSame ==
  /\ refFile # None
  /\ SameAttributes(srcFile, refFile)
  /\ ~(dstFile # None /\ IsHardLink(refFile, dstFile))
  /\ SameSecurity(srcFile, refFile)

-----------------------------------------------------------------------------
(* CreateBackup. *)

\* Lines 219, 412-434 and 470-495: the file in the three scans, before anything
\* is written.
CreateBackup(r, d) ==
  /\ pc = "idle"
  /\ KeepsRef => r = d - 1 /\ d \in {newest, newest + 1}
  /\ r # d
  /\ newest' = IF d > newest THEN d ELSE newest
  /\ ref' = r /\ dst' = d
  /\ srcFile' = source /\ refFile' = Scan(r) /\ dstFile' = Scan(d)
  /\ quiet' = TRUE /\ count' = Zero
  /\ pc' = "sync"
  /\ UNCHANGED files

Goto(to) == pc' = to /\ UNCHANGED <<files, place, match, quiet, count>>

\* Whichever way the call ends, its variables go.
End ==
  /\ pc' = "idle" /\ ref' = 0 /\ dst' = 0
  /\ srcFile' = None /\ refFile' = None /\ dstFile' = None
  /\ quiet' = TRUE /\ count' = Zero
  /\ UNCHANGED <<source, newest>>

\* Lines 505-512: a file that the source does not have is extra.
Extra ==
  /\ pc = "sync" /\ srcFile = None
  /\ Goto(IF dstFile = None THEN "done" ELSE "remove")

\* Lines 509-510.
RemoveExtra ==
  /\ pc = "remove"
  /\ Unlink(dst) /\ Event({"removed"})
  /\ pc' = "done"
  /\ UNCHANGED <<source, place, match, quiet>>

\* Lines 569-571, an exception.
Unsupported ==
  /\ pc = "sync" /\ srcFile # None /\ srcFile.data.unsupported
  /\ End /\ UNCHANGED <<backups, disk>>

Supported == pc = "sync" /\ srcFile # None /\ ~srcFile.data.unsupported

\* Lines 640-642.
AddFile ==
  /\ Supported /\ dstFile = None
  /\ Event({"added"})
  /\ pc' = "tryRef"
  /\ UNCHANGED <<files, place, match, quiet>>

\* Lines 576-591.
CheckDst ==
  /\ Supported /\ dstFile # None
  /\ \E yes \in BOOLEAN :
       /\ DstIsHardLink(yes)
       /\ Goto(IF \/ ~SameAttributes(srcFile, dstFile)
                  \/ dstFile.data.unsupported
                  \/ ~SameSecurity(srcFile, dstFile) /\ yes
               THEN "delete" ELSE "compareDst")

\* Lines 596-598: FileComparer reads the files as they are now.
CompareDst ==
  /\ pc = "compareDst" /\ source # None
  /\ Goto(IF source.data.main = disk[backups[dst].id].main THEN "compareDstStreams" ELSE "delete")

\* Lines 599-612.
CompareDstStreams ==
  /\ pc = "compareDstStreams" /\ source # None
  /\ Goto(IF source.data.alt = disk[backups[dst].id].alt THEN "retain" ELSE "delete")

AfterRetain == IF SameSecurity(srcFile, dstFile) THEN "done" ELSE "setSecurity"

\* Lines 615-623.
RetainFile ==
  /\ pc = "retain" /\ srcFile.name = dstFile.name
  /\ Event({"retained"} \union
           IF refFile # None /\ IsHardLink(refFile, dstFile) THEN {"inHardLinks"} ELSE {})
  /\ pc' = AfterRetain
  /\ UNCHANGED <<files, place, match, quiet>>

RenameFile ==
  /\ pc = "retain" /\ srcFile.name # dstFile.name
  /\ Put(dst, srcFile.name, backups[dst].id)
  /\ Event({"updated"} \union
           IF refFile # None /\ IsHardLink(refFile, dstFile) THEN {"inHardLinks"} ELSE {})
  /\ pc' = AfterRetain
  /\ UNCHANGED <<source, disk, place, match, quiet>>

\* Lines 626-630.
SetSecurity ==
  /\ pc = "setSecurity"
  /\ disk' = [disk EXCEPT ![backups[dst].id].security = srcFile.data.security]
  /\ Event({"securityUpdated"})
  /\ pc' = "done"
  /\ UNCHANGED <<source, backups, place, match, quiet>>

\* Lines 638-639.
DeleteFileBug ==
  /\ pc = "delete"
  /\ Unlink(dst)
  /\ Event({"replaced", "updated"} \union
           IF refFile # None /\ IsHardLink(refFile, dstFile) THEN {"inHardLinks"} ELSE {})
  /\ pc' = "tryRef"
  /\ UNCHANGED <<source, place, match, quiet>>
DeleteFile ==
  /\ pc = "delete"
  /\ Unlink(dst) /\ Event({"replaced", "updated"})
  /\ pc' = "tryRef"
  /\ UNCHANGED <<source, place, match, quiet>>

\* Line 645.
CheckRef ==
  /\ pc = "tryRef"
  /\ Goto(IF RefIsSame THEN "compareRef" ELSE "copy")

\* Lines 648-654: the main stream only.
RefDiffersBug == FALSE
RefDiffers == source.data.main # disk[backups[ref].id].main
CompareRef ==
  /\ pc = "compareRef" /\ source # None
  /\ Goto(IF RefDiffers THEN "copy" ELSE "link")

\* Lines 657-660.
CreateHardLink ==
  /\ pc = "link" /\ backups[dst] = None
  /\ Put(dst, srcFile.name, backups[ref].id)
  /\ Event({"inHardLinks", "createdInHardLinks"})
  /\ pc' = "done"
  /\ UNCHANGED <<source, disk, place, match, quiet>>

\* What CopyFileEx makes, if it gets so far as to these streams: its times are
\* those of the copy, its security is what the directory hands on, an attribute
\* that is not supported may be left behind.
NewFile(main, alt) ==
  \E id \in {i \in Ids : Unused(i)} :
    /\ Put(dst, srcFile.name, id)
    /\ \E t \in Times, s \in Inherited, u \in {FALSE, source.data.unsupported} :
         disk' = [disk EXCEPT ![id] = [main |-> main, alt |-> alt, times |-> t,
                                       security |-> s, unsupported |-> u]]

\* Line 666.
Copy ==
  /\ pc = "copy" /\ backups[dst] = None /\ source # None
  /\ NewFile(source.data.main, source.data.alt)
  /\ pc' = "setAttributes"
  /\ UNCHANGED <<source, place, match, quiet, count>>

\* Lines 668-669: the times, but not the security.
SetAttributesBug ==
  /\ pc = "setAttributes"
  /\ Event({"copied"})
  /\ pc' = "done"
  /\ UNCHANGED <<files, place, match, quiet>>
SetAttributes ==
  /\ pc = "setAttributes"
  /\ disk' = [disk EXCEPT ![backups[dst].id].times = srcFile.data.times]
  /\ Event({"copied"})
  /\ pc' = "done"
  /\ UNCHANGED <<source, backups, place, match, quiet>>

Return == pc = "done" /\ End /\ UNCHANGED <<backups, disk>>

\* A step fails, which ends the call with an exception, or the program is
\* killed: what has been done so far stays.
Fail == pc \notin {"idle", "done"} /\ End /\ UNCHANGED <<backups, disk>>

\* The program is killed within Copy, which may have written any part of the
\* file or the whole of it.
KillCopy ==
  /\ pc = "copy" /\ backups[dst] = None /\ source # None
  /\ \E main \in {source.data.main, Partial}, alt \in {source.data.alt, PartialStream} :
       NewFile(main, alt)
  /\ End

Edit ==
  /\ source' \in (Sources \union {None}) \ {source}
  /\ quiet' = (pc = "idle")
  /\ UNCHANGED <<backups, disk, place, pc, match, count>>

Sync == \/ Extra \/ RemoveExtra \/ Unsupported \/ AddFile \/ CheckDst
        \/ CompareDst \/ CompareDstStreams \/ RetainFile \/ RenameFile
        \/ SetSecurity \/ DeleteFile \/ CheckRef \/ CompareRef
        \/ CreateHardLink \/ Copy \/ SetAttributes \/ Return

Next == \/ \E r \in 0 .. Backups, d \in All : CreateBackup(r, d)
        \/ Sync \/ Fail \/ KillCopy \/ Edit

Spec == Init /\ [][Next]_vars

-----------------------------------------------------------------------------
(* Properties. *)

TypeOK ==
  /\ source \in Sources \union {None}
  /\ backups \in [All -> Entry \union {None}]
  /\ disk \in [Ids -> Data \union {None}]
  /\ newest \in 0 .. Backups /\ ref \in 0 .. Backups /\ dst \in 0 .. Backups
  /\ pc \in Pc
  /\ srcFile \in Sources \union {None}
  /\ {refFile, dstFile} \subseteq [name : Spellings, id : Ids, data : Data] \union {None}
  /\ quiet \in BOOLEAN /\ count \in [Counters -> Nat]

\* What is seen of the file through backup b.
View(b) == IF backups[b] = None THEN None
           ELSE [name |-> backups[b].name, data |-> disk[backups[b].id]]

\* Are they the same but for what a copy does not bring with it?
SameFile(f, g) ==
  IF f = None \/ g = None THEN f = g
  ELSE /\ f.name = g.name
       /\ \A part \in {"main", "alt", "times"} : f.data[part] = g.data[part]

\* A call that comes to its end without an exception leaves a backup of the
\* source's contents, attributes and name, whatever earlier calls, failed or
\* killed, have left behind: also of its security unless the file had to be
\* copied, and with no unsupported attribute, which is refused at line 569 and
\* removed from dst at line 582, unless it was linked to ref, which line 645
\* does not look at.
BackupRight ==
  pc = "done" /\ quiet =>
    /\ SameFile(View(dst), source)
    /\ source # None =>
         /\ count["copied"] = 0 => View(dst).data.security = source.data.security
         /\ count["createdInHardLinks"] = 0 => ~View(dst).data.unsupported

\* The source's security is kept also by a copy, as the comment at line 667
\* has it.  CopyFileEx does not do so.
SecurityRight ==
  pc = "done" /\ quiet /\ source # None => View(dst).data.security = source.data.security

\* No step changes what is seen through another backup than dst: a hard link
\* never lets a change through, and no shared file goes with one of its names.
OthersKept == [][\A b \in All : b # dst => View(b)' = View(b)]_vars

\* Both together, over any number of calls that fail or are killed: backups that
\* share files are as good as backups that have copies of their own.
Phase == IF pc = "idle" THEN "idle" ELSE IF pc = "done" THEN "success" ELSE "running"
Service == INSTANCE BackupService WITH
  Files  <- [name : Spellings, data : Data], IsBackup <- SameFile,
  backup <- [b \in All |-> View(b)],
  phase  <- Phase, target <- dst, edited <- ~quiet
IndependentCopies == Service!Spec

\* What the statistics say at the end is what has been done: a file counts
\* once, and GetBytesInHardLinks are those of the files shared with ref.
StatisticsRight ==
  pc = "done" =>
    /\ count["added"] + count["updated"] + count["retained"] = IF srcFile = None THEN 0 ELSE 1
    /\ count["removed"] = IF srcFile = None /\ dstFile # None THEN 1 ELSE 0
    /\ count["inHardLinks"] = IF /\ ref # 0 /\ backups[dst] # None /\ backups[ref] # None
                                 /\ backups[dst].id = backups[ref].id THEN 1 ELSE 0
    /\ count["copied"] + count["createdInHardLinks"] = count["added"] + count["replaced"]

-----------------------------------------------------------------------------
(* The inductive invariant. *)

Linked(b, c) == /\ b \in All /\ c \in All
                /\ backups[b] # None /\ backups[c] # None
                /\ backups[b].id = backups[c].id

\* The call and its backups.
CallInv ==
  /\ pc = "idle" => ref = 0 /\ dst = 0
  /\ pc # "idle" => dst \in All /\ ref # dst /\ dst <= newest
  /\ pc # "idle" /\ quiet => srcFile = source
  /\ pc # "idle" /\ KeepsRef => dst = newest /\ ref = dst - 1
  /\ \A b \in All : b > newest => backups[b] = None
  /\ \A b \in All : backups[b] # None => disk[backups[b].id] # None

\* The scans are up to date as long as they are used: ref stays as it was,
\* dst does until it is touched.
Untouched == {"sync", "compareDst", "compareDstStreams", "retain", "delete", "remove"}
Replacing == {"tryRef", "compareRef", "link", "copy"}
ScanInv ==
  /\ pc # "idle" => refFile = Scan(ref)
  /\ pc \in Untouched => dstFile = Scan(dst)
  /\ pc \in Untouched \ {"sync"} => dstFile # None
  /\ pc \in Replacing => backups[dst] = None
  /\ pc \notin {"idle", "sync", "remove", "done"} =>
       srcFile # None /\ ~srcFile.data.unsupported
  /\ pc = "remove" => srcFile = None

\* What the comparisons so far have shown.
DstSame(parts) == quiet => \A part \in parts : srcFile.data[part] = dstFile.data[part]
CompareInv ==
  /\ pc \in {"compareDst", "compareDstStreams", "retain"} =>
       /\ SameAttributes(srcFile, dstFile) /\ ~dstFile.data.unsupported
       /\ SameSecurity(srcFile, dstFile) \/ ~Linked(dst, ref)
  /\ pc \in {"compareDstStreams", "retain"} => DstSame({"main"})
  /\ pc = "retain" => DstSame({"alt"})
  /\ pc \in {"compareRef", "link"} => RefIsSame
  /\ pc = "link" /\ quiet => srcFile.data.main = refFile.data.main

\* The new file, or the one that has been kept.
Target == View(dst)
TargetInv ==
  /\ pc = "setSecurity" =>
       /\ ~Linked(dst, ref) /\ backups[dst] # None
       /\ Target.name = srcFile.name /\ ~Target.data.unsupported
       /\ quiet => \A part \in {"main", "alt", "times"} :
                    Target.data[part] = srcFile.data[part]
  /\ pc = "setAttributes" =>
       /\ backups[dst] # None /\ Target.name = srcFile.name
       /\ \A b \in All : b # dst => ~Linked(b, dst)
       /\ quiet => /\ \A part \in {"main", "alt"} : Target.data[part] = srcFile.data[part]
                   /\ ~Target.data.unsupported

\* Whatever is on the backup disk has the alternate stream of some source, or
\* what an interrupted copy has left of it.
Streams   == {f.data.alt : f \in Sources} \union {PartialStream}
StreamInv == \A id \in Ids : disk[id] # None => disk[id].alt \in Streams

\* The statistics on the way.
CountInv ==
  LET is(S) == \A c \in Counters : count[c] = IF c \in S THEN 1 ELSE 0
  IN  /\ pc \in Untouched => is({})
      /\ pc \in Replacing \union {"setAttributes"} =>
           is(IF dstFile = None THEN {"added"} ELSE {"replaced", "updated"})
      /\ pc = "setSecurity" => is({"retained"}) \/ is({"updated"})

IInv == TypeOK /\ CallInv /\ ScanInv /\ CompareInv /\ TargetInv /\ StreamInv /\ CountInv

\* An alternate stream of the source and one on the disk that is not the same
\* differ in size; what the right backup needs on top.
StreamsShow == \A f \in Sources, alt \in Streams : Size(f.data.alt) = Size(alt) => f.data.alt = alt

\* What other backups need on top: if dst shares its file with any backup, it
\* does so with ref, whose links the code looks for.
SharedInv ==
  \A b \in All : b # newest /\ Linked(b, newest) => Linked(newest - 1, newest)
=============================================================================
