---------------------------- MODULE ForceDelete ----------------------------
(***************************************************************************)
(* Path::ForceDelete.  READONLY belongs to a file, not to a name: it is    *)
(* lifted to delete one name, and has to be set back for the others, by    *)
(* way of one of two names that were looked up before, or by the name      *)
(* itself if that could not be deleted.  Each call to the file system is a *)
(* step, which may fail; the program may be killed between any two.        *)
(* Nobody else changes the files meanwhile.                                *)
(***************************************************************************)
EXTENDS Naturals

CONSTANTS
  Names,        \* names of files and directories
  Ids,          \* what they may name
  Directories,  \* those that are directories; a directory has one name
  None          \* no file, no name

ASSUME ConstantsAssumption ==
  Directories \subseteq Ids /\ None \notin Ids /\ None \notin Names

VARIABLES
  link, readOnly, reliable,         \* the disk, see Deletion
  pc, path, file, attributes,       \* the call, what it deletes; is that read-only?
  alternativePath, thrown,
  before                            \* the disk before the call

disk == <<link, readOnly, reliable>>
vars == <<disk, pc, path, file, attributes, alternativePath, thrown, before>>

Pc == {"idle", "getAttributes", "findFirst", "findNext", "lift", "delete",
       "restore", "resetSecond", "resetFirst", "done"}

Used(l)   == {l[n] : n \in Names} \ {None}
Links(id) == {n \in Names : link[n] = id}
NoPaths   == [first |-> None, second |-> None]

Init ==
  /\ link \in [Names -> Ids \union {None}]
  /\ \A m, n \in Names : link[m] = link[n] /\ link[m] \in Directories => m = n
  /\ readOnly \in SUBSET Used(link) /\ reliable \in BOOLEAN
  /\ pc = "idle" /\ path = None /\ file = None /\ attributes = FALSE
  /\ alternativePath = NoPaths /\ thrown = FALSE
  /\ before = [link |-> link, readOnly |-> readOnly]

Goto(to) == pc' = to /\ UNCHANGED <<path, file, attributes, thrown, before>>
Throw    == /\ pc' = "done" /\ thrown' = TRUE
            /\ UNCHANGED <<path, file, attributes, alternativePath, before>>

\* SetFileAttributes(n, value): it is the file that gets them.
SetReadOnlyBug(n, value) ==
  /\ readOnly' = IF value THEN readOnly \union {link[n]} ELSE readOnly \ {link[n]}
  /\ UNCHANGED <<link, reliable>>
SetReadOnly(n, value) ==
  /\ link[n] # None
  /\ readOnly' = IF value THEN readOnly \union {link[n]} ELSE readOnly \ {link[n]}
  /\ UNCHANGED <<link, reliable>>

CallForceDelete(n) ==
  /\ pc = "idle"
  /\ pc' = "getAttributes" /\ path' = n
  /\ before' = [link |-> link, readOnly |-> readOnly]
  /\ UNCHANGED <<disk, file, attributes, alternativePath, thrown>>

\* Lines 435-442 and 457.
GetFileAttributes ==
  /\ pc = "getAttributes" /\ link[path] # None
  /\ file' = link[path] /\ attributes' = (link[path] \in readOnly)
  /\ pc' = IF ~attributes' THEN "delete"
           ELSE IF file' \in Directories THEN "lift" ELSE "findFirst"
  /\ UNCHANGED <<disk, path, alternativePath, thrown, before>>

\* Lines 458-472: a name of the file, this one or another.
FindFirstFileName ==
  /\ pc = "findFirst"
  /\ \E n \in Links(file) : alternativePath' = [NoPaths EXCEPT !.first = n]
  /\ Goto("findNext") /\ UNCHANGED disk

\* Lines 474-489: another one, or none if there is no other.
FindNextFileNameBug ==
  /\ pc = "findNext"
  /\ UNCHANGED alternativePath
  /\ Goto("lift") /\ UNCHANGED disk
FindNextFileName ==
  /\ pc = "findNext"
  /\ LET rest == Links(file) \ {alternativePath.first}
     IN  \E n \in IF rest = {} THEN {None} ELSE rest :
           alternativePath' = [alternativePath EXCEPT !.second = n]
  /\ Goto("lift") /\ UNCHANGED disk

\* Lines 442 and 492.
LiftReadOnly ==
  /\ pc = "lift"
  /\ SetReadOnly(path, FALSE)
  /\ Goto("delete") /\ UNCHANGED alternativePath

\* Lines 445 and 498-507: DeleteFile or RemoveDirectory, which want no READONLY.
Delete ==
  /\ pc = "delete" /\ file \notin readOnly
  /\ link' = [link EXCEPT ![path] = None]
  /\ readOnly' = readOnly \intersect Used(link') /\ UNCHANGED reliable
  /\ Goto(IF None \notin {alternativePath.first, alternativePath.second}
          THEN "resetSecond" ELSE "done")
  /\ UNCHANGED alternativePath
FailDelete ==
  /\ pc = "delete"
  /\ Goto("restore") /\ UNCHANGED <<disk, alternativePath>>

\* Lines 446-450 and 499-503, an exception in any case.
RestoreBug == /\ pc = "restore" /\ UNCHANGED disk /\ Throw
Restore == /\ pc = "restore" /\ SetReadOnly(path, attributes) /\ Throw

\* Lines 515-522.
ResetSecond ==
  /\ pc = "resetSecond" /\ SetReadOnly(alternativePath.second, attributes)
  /\ Goto("done") /\ UNCHANGED alternativePath
SecondIsGone ==
  /\ pc = "resetSecond" /\ (link[alternativePath.second] = None \/ ~reliable)
  /\ Goto("resetFirst") /\ UNCHANGED <<disk, alternativePath>>
ResetFirst ==
  /\ pc = "resetFirst" /\ SetReadOnly(alternativePath.first, attributes)
  /\ Goto("done") /\ UNCHANGED alternativePath

\* A call fails that sets nothing back.
Fail == /\ pc \in {"getAttributes", "findFirst", "findNext", "lift"}
        /\ UNCHANGED disk /\ Throw
\* One that sets back fails, or (lines 508-520) finding out for which name.
FailReset == /\ pc \in {"restore", "resetSecond", "resetFirst"}
             /\ ~reliable \/ (pc = "resetFirst" /\ link[alternativePath.first] = None)
             /\ UNCHANGED disk /\ Throw

Leave == /\ pc' = "idle" /\ path' = None /\ file' = None /\ attributes' = FALSE
         /\ alternativePath' = NoPaths /\ thrown' = FALSE
         /\ UNCHANGED <<disk, before>>
Return == pc = "done" /\ Leave
Kill   == pc # "idle" /\ ~reliable /\ Leave

Next == \/ \E n \in Names : CallForceDelete(n)
        \/ GetFileAttributes \/ FindFirstFileName \/ FindNextFileName
        \/ LiftReadOnly \/ Delete \/ FailDelete \/ Restore
        \/ ResetSecond \/ SecondIsGone \/ ResetFirst \/ Fail \/ FailReset
        \/ Return \/ Kill

Spec == Init /\ [][Next]_vars

-----------------------------------------------------------------------------
(* Properties. *)

TypeOK ==
  /\ link \in [Names -> Ids \union {None}]
  /\ readOnly \subseteq Used(link) /\ reliable \in BOOLEAN
  /\ pc \in Pc /\ path \in Names \union {None} /\ file \in Ids \union {None}
  /\ attributes \in BOOLEAN /\ thrown \in BOOLEAN
  /\ alternativePath \in [first : Names \union {None}, second : Names \union {None}]
  /\ before \in [link : [Names -> Ids \union {None}], readOnly : SUBSET Ids]

\* A call that ends without an exception has removed its name and nothing
\* else: two names are enough to set READONLY back for all that are left
\* (line 455), in whichever order they were found.
OnlyTheName ==
  pc = "done" /\ ~thrown =>
    /\ link = [before.link EXCEPT ![path] = None]
    /\ readOnly = before.readOnly \intersect Used(link)

\* However many steps ForceDelete takes, it removes a name in one: READONLY is
\* lifted for a while only, also when a call fails.
Lifted == IF attributes /\ pc \in {"delete", "restore", "resetSecond", "resetFirst"}
          THEN {file} \intersect Used(link) ELSE {}
Abstract   == INSTANCE Deletion WITH readOnly <- readOnly \union Lifted
Implements == Abstract!Spec

-----------------------------------------------------------------------------
(* The inductive invariant. *)

Looking    == {"findFirst", "findNext", "lift"}
Deleting   == {"delete", "restore"}
Resetting  == {"resetSecond", "resetFirst"}

\* What the call knows of its file, and what it has left of the disk.
CallInv ==
  /\ \A m, n \in Names : link[m] = link[n] /\ link[m] \in Directories => m = n
  /\ pc # "idle" => path \in Names
  /\ pc # "done" => ~thrown
  /\ pc \in {"idle", "getAttributes"} => ~attributes /\ alternativePath = NoPaths
  /\ pc \in {"getAttributes"} \union Looking \union Deleting =>
       link = before.link /\ readOnly \union Lifted = before.readOnly
  /\ pc \in Looking \union Deleting =>
       file = link[path] /\ attributes = (file \in before.readOnly)
  /\ pc \in Looking \union Deleting \union Resetting => file # None
  /\ pc \in Looking \union Resetting => attributes
  /\ pc \in Resetting => /\ link = [before.link EXCEPT ![path] = None]
                         /\ readOnly \union Lifted = before.readOnly \intersect Used(link)
  /\ attributes /\ pc \in Deleting \union Resetting => file \notin readOnly

\* What it knows of the names of the file.
NamesInv ==
  LET first  == alternativePath.first
      second == alternativePath.second
  IN  /\ pc \in {"findFirst", "findNext"} => file \notin Directories
      /\ pc = "findFirst" => alternativePath = NoPaths
      /\ pc = "findNext" => first \in Links(file) /\ second = None
      /\ pc \in {"lift"} \union Deleting =>
           IF attributes /\ file \notin Directories
           THEN /\ first \in Links(file)
                /\ \/ second \in Links(file) \ {first}
                   \/ second = None /\ Links(file) = {first}
           ELSE alternativePath = NoPaths
      /\ pc \in Resetting =>
           /\ first \in Names /\ second \in Names /\ first # second
           /\ \A n \in {first, second} : link[n] = IF n = path THEN None ELSE file
      /\ pc = "resetFirst" /\ reliable => second = path

IInv == TypeOK /\ CallInv /\ NamesInv /\ OnlyTheName
=============================================================================
