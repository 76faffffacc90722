--------------------------- MODULE BackupService ---------------------------
(***************************************************************************)
(* What Backup promises of a file, as if every backup had a copy of its    *)
(* own: a call changes one backup only, whatever becomes of it, and if it  *)
(* ends without an exception, that is a backup of the file as it was when  *)
(* the call began, unless it has been edited meanwhile.  BackupFile, where *)
(* backups share files by links, implements this specification.            *)
(***************************************************************************)
EXTENDS Naturals

CONSTANTS
  Backups,    \* how many backups there may be, numbered from 1
  Files,      \* what a file may be
  None,       \* no file
  IsBackup(_, _)  \* is the first file a backup of the second?

VARIABLES
  source,     \* the file
  backup,     \* the file in each backup
  phase,      \* "idle", "running", or "success" of the call
  target,     \* the backup it makes, or 0
  edited      \* has the file been edited during the call?

vars == <<source, backup, phase, target, edited>>

All == 1 .. Backups

Init == /\ source \in Files \union {None}
        /\ backup = [b \in All |-> None]
        /\ phase = "idle" /\ target = 0 /\ edited = FALSE

Call(b) == /\ phase = "idle"
           /\ phase' = "running" /\ target' = b /\ edited' = FALSE
           /\ UNCHANGED <<source, backup>>

Write == /\ backup' \in [All -> Files \union {None}]
         /\ \A b \in All \ {target} : backup'[b] = backup[b]

Work == /\ phase = "running" /\ Write
        /\ UNCHANGED <<source, phase, target, edited>>

Finish == /\ phase = "running" /\ Write
          /\ edited \/ IsBackup(backup'[target], source)
          /\ phase' = "success" /\ UNCHANGED <<source, target, edited>>

Leave == phase' = "idle" /\ target' = 0 /\ edited' = FALSE /\ UNCHANGED source

Fail   == phase = "running" /\ Write /\ Leave
Return == phase = "success" /\ UNCHANGED backup /\ Leave

Edit == /\ source' \in Files \union {None}
        /\ edited' = (phase # "idle")
        /\ UNCHANGED <<backup, phase, target>>

Next == (\E b \in All : Call(b)) \/ Work \/ Finish \/ Fail \/ Return \/ Edit

Spec == Init /\ [][Next]_vars
=============================================================================
