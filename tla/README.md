# SystemTools: a verification project

SystemTools makes backups on external disks: every backup is a complete tree of
its own, in which a file that has not changed is a hard link to the same file
of the backup before.  This directory holds TLA+ models of its components, the
TLC configurations that check them on small instances, and proofs that TLAPS
checks for every instance.  Source paths below are relative to
`src/SystemTools/`.

## The system

| Component | State | Operations | Interaction |
|---|---|---|---|
| `FileComparer` (`src/FileComparer.cpp`) | `m_state[2]`, the `Context` of a call (two double buffers, their sizes, `exceptionPtr[2]`), one mutex, two condition variables, two threads | `Compare`, destructor; threads: `Run`, `ReadFileContent` | called by `BackupStrategy::Compare` on the backup's thread; each reader thread fetches one file |
| `DirectoryScanner` (`src/DirectoryScanner.cpp`) | `m_state`, `m_pContext`, one mutex, one condition variable, one thread; the two lists it was lent | `Scan`, `Wait`, destructor; thread: `Run`, `ScanDirectory` | `Backup` owns three (src, ref, dst), orders scans, works on, waits |
| `ThreeWayMerge` (`include/systools/ThreeWayMerge.h`) | three sorted lists, three iterators, two results | one call | `Backup` calls it for the directories and for the files of a directory |
| `Backup` (`src/Backup.cpp`) | `m_statistics`; per directory level two slots of paths and lists; on disk: the trees | `CreateBackup`, `CopyDirectories` | drives all others through `BackupStrategy` |
| `BackupStrategy` (`src/BackupStrategy.cpp`) | none | `DryRun…` does nothing, `Writing…` calls the file system | every change on disk goes through it |
| `Path`, `Filename` (`src/Path.cpp`) | none | strings, queries, `ForceDelete` | `BackupStrategy` deletes with `ForceDelete`, which lifts and restores READONLY of a file that may have other links |
| `Volume` (`src/Volume.cpp`) | two cached alignments | queries, which ask each disk once | gives `FileComparer` the sizes of sectors |
| `Backup::Statistics` | counters | one event per thing done | `Backup` counts at the line that does it, also in a dry run |
| `ScannedFile::Security` | a security descriptor | comparison | decides whether a file may be kept or linked |

What makes the parts right, and what is hard about each:

* **FileComparer**: the answer is right and given once; no buffer is filled
  while it is compared; no thread outlives the call whose stack it uses; the
  threads neither deadlock nor miss a notification; the destructor ends.
  Hard: three threads, two condition variables, accesses without the mutex,
  failures in one reader while the other is anywhere.
* **DirectoryScanner**: a `Wait` hands over the whole listing of its own order
  or the exception of it; the lists are not touched afterwards; the Context
  lives as long as the worker uses it; `Wait` and the destructor end.  Hard:
  one condition variable for both directions, the lifetime of the Context and
  of the lists, shutdown.
* **ThreeWayMerge**: all namesakes are found, what is not in the source is
  extra, once; the last `else` is out of reach.  What is extra is deleted.
* **Backup**: a call that ends well leaves dst a backup of the source, other
  backups are not changed by it, the statistics are true; and the scans, two
  slots and recursion of the pipeline never mix directories.  Hard: files are
  shared by links, every step may fail or be the last one before the program is
  killed, the source is edited while a backup is made, scans are snapshots.
* **Path::ForceDelete**: one name goes, and a file that has others is READONLY
  afterwards if it was before.  Hard: READONLY belongs to the file, so it is
  lifted for all of its names; one of two names that were looked up before has
  to bring it back, and one of these may be the name that was deleted.
* **Volume**: what is kept holds for all disks of the volume, and is what
  `FileComparer` needs for its buffers.  Hard: any disk may fail to answer.

`PROJECT.json` lists the components, the hazards at their lines and the
properties against them.

## Modules

| Module | What it is |
|---|---|
| `ComparisonService` | abstract: what `FileComparer::Compare` promises |
| `FileComparer` | the caller and the two readers, one action per critical section or access |
| `FileComparerProofs` | invariants, answers and the refinement, for every instance |
| `ScanService` | abstract: what `DirectoryScanner` promises |
| `DirectoryScanner` | owner and worker, `ScanDirectory` entry by entry |
| `DirectoryScannerProofs` | invariants and the refinement |
| `ThreeWayMerge` | one action per branch of the loop |
| `ThreeWayMergeProofs` | the asserts and the result of the merge, for lists of any length |
| `BackupService` | abstract: what `Backup` promises of a file, as if each backup had a copy of its own |
| `BackupFile` | one file in a number of backups that share files by links, over many calls |
| `BackupFileProofs` | the inductive invariant, right backups and statistics, that other backups stay, the refinement |
| `CopyDirectories` | `CreateBackup` and the recursion of `CopyDirectories` over three trees, with two slots and three scanners, writing or as a dry run |
| `CopyDirectoriesProofs` | the pipeline, for trees of any depth: slots, scanners, asserts, no writing during a scan; nothing goes that the source has, or that a call was not asked for |
| `MirrorProofs` | what a backup comes to, for trees of any depth: nothing in its way, a mirror in the end, and the statistics |
| `Deletion` | abstract: a name is removed |
| `ForceDelete` | `Path::ForceDelete`, call by call |
| `ForceDeleteProofs` | its invariant and the refinement of `Deletion` |
| `Volume` | alignments over the disks of a volume, and the chunks of `FileComparer` |
| `VolumeProofs` | whole alignments and fitting chunks, for any disks |
| `MC…` | instances for TLC |

### FileComparer

`mpc`, `readIndex` and `result` are the caller's thread ("master": `Compare`,
`CompareFiles`, destructor); `rpc`, `writeIndex` and `offset` the readers
(`Run`, `ReadFileContent`); `state` is `m_state`; `files`, `bufferSize`,
`size`, `buffer`, `exceptionPtr` are the `Context`.  A buffer is known by which
part of its file it holds, so `memcmp` compares the bytes of two parts.  A wait
is two states: the test of the predicate under the mutex, and being in the wait
set, from which a notification (or nothing at all: `Spurious`) leads back to
the test.  A notification is a step of its own after its critical section, as
in the code.  `ReadFile` and `memcmp` last from the step into their pc to the
step out of it, so `BuffersExclusive` can see them overlap.  The
`exception_ptr` that is tested at line 182 while it is stored at line 323 has
either value.

Every thread is weakly fair, the caller's decisions to call or to destroy are
not, nor are spurious wake-ups: the operating system schedules threads that can
run, a mutex that is held for a few instructions becomes free, and ReadFile
comes back.  Nobody has to call.

### DirectoryScanner

`opc` is the owner (`Scan`, `Wait`, destructor), `wpc` the worker (`Run`,
`ScanDirectory`), `state` is `m_state`, `pending` says whether `m_pContext` is
set, `order` what it asks for, `directories` and `files` are the lists lent,
`rest` the entries still to be read.  `notify_one` can only wake the other
thread, since the notifier is not waiting.  `OwnerWaits` states that the owner
waits for its scan before it destroys the scanner, as `Backup` does (lines
269-273 and 369-374 of `Backup.cpp`).  Fairness as above, for both threads.

### ThreeWayMerge

The lists are sequences of numbers in the order of `CompareName`; `std::sort`
is represented by its result.  The branches are the seven actions, with
`copy` and `extra` as sequences of positions.

### BackupFile

The state is the disk: for every backup a directory entry (a name and a file
id), for every id a file with its main stream, alternate stream, times and
security, and whether it has an attribute that cannot be backed up.  Next to it
there is the call in progress: its two backups, the `Match` of its scans, and
where it is.  Each call of `BackupStrategy` is a step, each branch of lines
504-670 an action; `Fail` is an exception or a kill at any step, `KillCopy` a
kill within `CopyFileEx`, `Edit` a change of the source by its user at any
time.  `quiet` says whether the source has been left alone since the scan: a
backup of a file that was edited meanwhile is not expected to be either
version.  `Size` is what the scan can see of contents.  At line 588 a missing
`ref` is dereferenced when the security differs; the outcome is left open.

`Copy` is `CopyFileEx` (`BackupStrategy.cpp:176`): the new file has both
streams of the source. Its times are its own until `SetAttributes`; whether an
attribute that is not supported comes with it depends on the attribute and is
left open. Its security is not copied at all, but handed on by the directory:
the model takes any of `Inherited` and never sets it, as lines 666-669 do not.
The comment at line 667 says otherwise, which is what `SecurityRight` states
and `backup_copy` refutes. Such a file gets the source's security in a later
call for the same dst, which compares it (line 628), and if it does not have
it, line 645 refuses to link it into the next backup, which copies it once
more.
`KillCopy` leaves either stream as it is or cut off (`Partial`, and
`PartialStream` for the alternate one, in the runs a stream that is not there
yet), with any times and any of `Inherited`, those of the source among them.

`BackupRight` says exactly what a call that ends well is good for: the
contents, attributes and name of the source always, the security unless the
file was copied, and no unsupported attribute unless it was linked.  The last
exception is needed since line 569 refuses a source with such an attribute and
line 582 removes such a file of dst, but line 645 links such a file of ref.
There it comes from a source that was given the attribute after its scan.

`KeepsRef` is the intended use: backups are made one after the other, each with
the one before as `ref`; the newest may be brought up to date again.

`BackupService` knows no ids: it has a file, or none, for each backup; a call
writes its own backup only, and if it succeeds that is a backup of the source
(`IsBackup`).  `IndependentCopies` shows `BackupFile` through `View`, what is
seen through a name, with `SameFile` for `IsBackup`: contents, attributes and
name.  Of security and unsupported attributes it keeps that no other backup's
are changed; what a call makes of its own is said by `BackupRight`.

### CopyDirectories

The state is the three trees (their directories and files, by path), the
orders of `m_srcScanner`, `m_refScanner` and `m_dstScanner`, the variables of
`CreateBackup` (`pc`, `todo` for the rest of `srcPaths`, `group` for `*it`,
`root` for the lists of the roots), and the calls of `CopyDirectories` as a
`stack` of frames with `index`, the two slots, and the results of the merge.
A scanner is seen as in `ScanService`: it works on an order, which names the
frame and the slot whose lists it was lent, until it is done or fails.  The
scans of the roots of ref and dst (lines 275-282) are ordered in one step: no
other thread sees that one comes before the other, and how far each is when
the backup's thread goes on is open anyway.  Each
scan ordered, each wait, each file and each call of `BackupStrategy` for a
directory is a step; the files are those of `BackupFile`, here only in or out of
date.  `thrown` is an exception on its way: any step may throw it, each frame
waits for the scanners (`Return`) and passes it on.  `fresh` holds what this
call has brought up to date, and from which a directory is struck when
something is written in it later: `Mirror` so speaks about the order of lines
674 and 680.  The source does not change during a call (its edits are a matter
of `BackupFile`), dst is what the calls before have left, also after an
exception, and every call may have other sources and another `ref`.

A call may be a dry run: `Possible` and `Write` then do nothing, as the methods
of `DryRunBackupStrategy`, and everything else goes on, with trees that do not
change.  `count` has `m_statistics`, summed over directories and files; `before`
is dst as it was when the call began.

Names directly below the root of the source that are directories are those to
be backed up, in one group or in a group each (`todo`), which is what one or
several parents come to, since names must be unique over all of them.

The backup's thread is weakly fair in all but its exceptions, and so is each
scanner: the run `scanner` shows that every `Wait` ends.

### ForceDelete

The disk is `link`, from names to files or directories, and `readOnly`, a set
of what they name.  `pc`, `attributes` and `alternativePath` are the call; each
call of the file system is a step that may fail (`Fail`, `FailDelete`,
`FailReset`) or be the last one (`Kill`).  `reliable` is chosen once: if it
holds, attributes can be set back by any name the file has, and nobody kills
the program.  The names `FindFirstFileNameW` and `FindNextFileNameW` return are
any two, so that the one to be deleted is among them or not, in either place.
The refinement of `Deletion` hides that READONLY is lifted (`Lifted`): if
attributes can be set back, it comes back in every case.

### Volume

`disks` are the extents of each volume, `alignment` the two values that are
cached, 0 before they are known; a query reads one disk per step (`index`,
`found`), any of which may fail.  `ChunkSize` is how `FileComparer` joins the
values of two volumes.

## Runs

| Run | Shows |
|---|---|
| `comparer` | 407,391 states: six files (empty, one buffer, several, differing in the first or in the last buffer), buffers of 2 bytes from a target of 3, failures anywhere, calls in any number. Type invariant, `CleanReturn`, `BuffersExclusive`, `DataReady`, `ResultCorrect`, `PublishedStable`, implements `ComparisonService` with its liveness (every call is answered), and the destructor ends |
| `comparer_sectors` | violation: a chunk of 4 with a target size of 3 gives a buffer of 0 bytes; two different files compare as equal |
| `scanner` | 14,292 states: an empty directory and one with all kinds of entries, three sets of flags, two filters. Context, lists, whole listings, implements `ScanService`, `Wait` and the destructor end |
| `scanner_shutdown` | violation: without the wait, the destructor may hang, as the worker overwrites `kShutdown` |
| `merge` | 18,432 states: all triples of lists over four names |
| `backup` | 721,635 states: three backups that share files, a source whose security, case and attributes are edited, copies with times of their own and the security of their directory, interrupted anywhere; `BackupRight`, `StatisticsRight`, `OthersKept`, implements `BackupService` |
| `backup_streams` | violation of `BackupRight`: a file of ref is linked although its alternate stream differs |
| `backup_security` | violation of `OthersKept`: security is set in place on a file shared with a backup that is not ref |
| `backup_copy` | violation of `SecurityRight`: a file that was copied has not the security of the source, as line 667 has it |
| `copy_directories` | 207,870 states, 205 steps deep: two trees of three levels that disagree on which names are files and which are directories, and none at all, as source, reference and destination, in every combination, written or as a dry run. The asserts on the slots, the lists of the scanners, `NoClash`, `Mirror`, `StatisticsRight`, `NothingLost`, no writing during a scan (of names, contents or attributes), every call ends |
| `force_delete` | 78,912 states: four names of two files and a directory, in every combination, READONLY or not; `OnlyTheName`, implements `Deletion` |
| `volume` | 24,000 states: two volumes over one or two of five disks each, with sectors that divide one another and ones that do not; `WholeVolume`, `ChunkFits` |

Bounds.  Two halves of a buffer are used again with the third read, so files of
three buffers take every path of the ring; files that differ only in the last
buffer make both readers run ahead.  Calls are not bounded: the state after a
call is the state before the first one, but for what the last `Context` held.
The directory has one entry of each kind that lines 75-140 tell apart.  Four
names contain each relation between three heads, and what follows it.  Two
backups are enough for ref and dst, three for a link the code does not look
for.  Contents of the same size differ in `backup` by an interrupted copy, as
edits of them would multiply the states; the proofs are for all contents.
Directories hand on one security, which the source has or not.  A backup disk
of as many ids as backups always has a free one for `Copy`, since a name that
is written anew was removed before.  Ids are symmetric.  Two directories side
by side use both slots, and the first one's slot is used again in the turn
after; a third would repeat the first.  A directory below a directory makes the
recursion run, for copies and for what is removed, and the trees have each kind
in the way of the other, with something inside.  Four names let a file have the
two that `ForceDelete` looks up, with the one it deletes among them or not.  A
third disk would be joined to the two before it as the second is to the first.

Deadlock is checked where the system cannot stop (`backup`,
`copy_directories`, `force_delete`); the others come to an end after the
destructor, at the end of the merge, or when all alignments are known.

## Proofs

For every value of the constants that the assumptions allow:

* `FileComparerProofs`.  The inductive invariant `IInv` is needed because no
  property is inductive by itself: `ThreadsInv` says which thread may be where,
  `RingOf` that the filled buffers of a file are consecutive and start with the
  one the caller uses next, `StopOf` and `ReasonOf` why a reader has stopped,
  `ContentOf` which bytes the buffers hold, `ProgressInv` that what has been
  compared so far is equal.  From it follow `TypeOK`, `DataReady`,
  `BuffersExclusive`, `CleanReturn`, `PublishedStable`, and, if no sector is
  larger than `kTargetBufferSize` (`SectorsFit`), `ResultCorrect` and that each
  step is one of `ComparisonService` or changes nothing of it.
  `comparer_sectors` shows that the assumption is needed.
* `DirectoryScannerProofs`.  `TurnInv` says whose turn it is by `m_state`,
  `ListsInv` what the lists hold before, during and after a scan.  From it
  follow all safety properties of the run and the refinement of `ScanService`
  (which has no fairness).  No assumption on `OwnerWaits`: safety does not
  depend on it.
* `ThreeWayMergeProofs`.  The iterators stay in their lists and the asserts
  hold, with names repeated or not; if names are unique in each list, the merge
  is right.  `Passed` (what was passed in one list is less than what is left in
  another) is the strengthening.

* `BackupFileProofs`.  `IInv` relates the disk to the call: `ScanInv` says up
  to which lines a scan is still true, `CompareInv` and `TargetInv` what the
  comparisons have shown and what the new file has so far, `StreamInv` that an
  alternate stream on the disk is that of some source or was cut off, `CountInv`
  what has been counted; nothing is assumed of the security of a copy.  From it
  follow `TypeOK`, `StatisticsRight`, and, if an alternate stream of the source
  and one on the disk that differ show it in their sizes (`StreamsShow`),
  `BackupRight`.  `OthersKept` needs `SharedInv` on top: a file of the newest backup that any other one
  shares is shared by the one before, whose link the code looks for; so it holds
  if `ref` is the backup before (`KeepsRef`).  Under both assumptions,
  `Refinement` is that of `BackupService`.  `backup_streams` and
  `backup_security` show that the code needs these assumptions,
  `backup_copy` why `BackupRight` leaves out the security of a copy.
* `CopyDirectoriesProofs`, for any finite set of names and trees of any depth.
  `PipelineInv` has parts that depend on each other: `StackInv` says for each
  call what its two slots hold at each line (`SlotsOK`) and what is left of the
  merge (`WorkOK`); `ScanInv` which scanners may be at work at which line
  (`MayScan`), and that they work for the innermost call on the slot that is
  not read; `RootInv` and `AskedInv` the same for `CreateBackup`.  From it
  follow `TypeOK`, `AssertsHold`, `ListsLive` and `QuietWrites`.
  What is removed are paths, not matches of a tree, so that `NothingLost` needs
  an argument on where they come from: every call works below what was asked
  for (`BelowAsked`), lists of the source are true in their slots from the end
  of the scan to the merge (`ScanTrue`, `ReadTrue`), and hence a directory
  without a match in the source is not in the source (`MatchesTrue`,
  `ExtraTrue`).
* `MirrorProofs`, for the same trees.  `NoClash`, `Mirror` and `StatisticsRight`
  say what is true at single lines; `MirrorInv` says what is true in between.
  For each call on the stack it tells which directories and files have been
  dealt with, from the line the call is at (`Closes`, `ClosesDir`,
  `ClosesFile`: a directory with all below it, a directory with its files, a
  file).  Together with the groups that are finished these are `ClosedDirs`,
  `DoneDirs` and `DoneFiles`.  `Progress` then says that dst is as it was
  (`before`), but for these, which are as in the source, and that nothing has
  been written in a closed directory afterwards; `Tally`, that exactly these have
  been counted, once.  Why a step deals with one more and with no other is what
  the rest is for: `KnowsInv` relates lists, matches and what is left of them to
  `before` and the source, although dst has changed since, as no call changes
  what another one has still to look at; `LinkInv` says that each call on the
  stack is for exactly the directories its caller has handed on, so that calls do
  not overlap and none is left out; `RootsKnown` the same of the roots, `TodoInv`
  of the groups.  `SoundInv` is what also holds after an exception: dst is a tree,
  and the stack is unwound.  `ProgressInv` is claimed only as long as there was
  no exception; the next call starts from whatever tree is left.  There is one
  lemma for each action.  Nothing is assumed but `ConstantsAssumption`: there are
  finitely many names, and the trees one starts with are trees.
* `ForceDeleteProofs`.  `CallInv` says what the call knows of its file and that
  READONLY, but for what is lifted, is as before; `NamesInv` that the two names
  are two names of that file, or all it has.  From it follow `OnlyTheName` and
  the refinement of `Deletion`, for any number of names, files and directories.
* `VolumeProofs`, for any number of disks and sectors of any size.  `FoundOK` says
  that the multiples of `found` are the common multiples of the disks that have
  been read, `AlignmentOK` that those of a value that is kept are the common ones
  of all disks: in this form, and not as a least common multiple, it is
  inductive, since joining one more disk needs only `LcmDivides`, which comes
  from the division with remainder.  From it follow `TypeOK`, `WholeVolume` and
  `ChunkFits`.

With these, every invariant and every action property of the passing runs is a
theorem.  Model-checked only is liveness, which is beyond the prover:
`ShutdownCompletes`, `WaitEnds`, `Terminates`, `CallEnds`, and the fairness of
`ComparisonService`.  Of `MirrorInv`, in turn, TLC checks what follows from it
and not the invariant itself, whose parts speak about all paths.

## Not modelled, and what is left

* `ScannedFile::Security` and the functions it calls compare security
  descriptors member by member.  There is no state, and a model would repeat
  the code; `BackupFile` takes it for the equality it is meant to be.  (Lines
  169-170 and 184-185 of `DirectoryScanner.cpp` take the trustee's pointer for
  the structure it points to; entries of that form belong to objects of a
  directory service and are not met on files.)
* `Path` and `Filename` but for `ForceDelete`: strings and queries.
* What `CreateBackup` checks before it scans: the privilege (lines 196-215), and
  that each source exists and has a name of its own (lines 229-246).  A call
  that stops there has done nothing, which is `FailBackup` at `roots`; the
  others are those of `CallBackup`.
* The security of directories (lines 554-559): `UpdateDirectory` has no more
  than that a directory is kept or renamed.
* READONLY in `BackupFile`: a deletion there is that of `Deletion`, and its
  files are never read-only.
* `Statistics`: bytes are counted for one file (`BackupFile`), not summed over
  several.
* The layout of the buffers the file system fills, the name of a volume,
  logging, test support.

Left for later: that the scanners of `CopyDirectories`, seen alone, are clients
`ScanService` allows for, and that its matches are those of `ThreeWayMerge`.
