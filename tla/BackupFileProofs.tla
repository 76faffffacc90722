-------------------------- MODULE BackupFileProofs --------------------------
(***************************************************************************)
(* BackupFile for any number of backups, any sources and any file system   *)
(* ids, whatever fails and whenever the program is killed.                 *)
(***************************************************************************)
EXTENDS BackupFile, TLAPS

\* What the variables hold where there is something.
LEMMA Types ==
  ASSUME TypeOK
  PROVE  /\ source # None => source \in Sources /\ source.data \in Data
         /\ srcFile # None => srcFile \in Sources /\ srcFile.data \in Data /\ srcFile.name \in Spellings
         /\ refFile # None => refFile \in [name : Spellings, id : Ids, data : Data]
         /\ dstFile # None => dstFile \in [name : Spellings, id : Ids, data : Data]
         /\ \A b \in All : backups[b] # None =>
              backups[b] \in Entry /\ backups[b].id \in Ids /\ backups[b].name \in Spellings
         /\ \A id \in Ids : disk[id] # None => disk[id] \in Data
         /\ Backups \in Nat /\ All = 1 .. Backups
<1>1. \A f \in Sources : f \in [name : Spellings, data : Data]
  BY ConstantsAssumption
<1>2. QED
  BY <1>1, ConstantsAssumption DEF TypeOK, Entry, All

\* A scan finds a file of the right type.
LEMMA ScanType ==
  ASSUME TypeOK, NEW b \in 0 .. Backups,
         \A c \in All : backups[c] # None => disk[backups[c].id] # None
  PROVE  Scan(b) \in [name : Spellings, id : Ids, data : Data] \union {None}
<1>1. CASE b = 0 \/ backups[b] = None
  BY <1>1 DEF Scan
<1>2. CASE b # 0 /\ backups[b] # None
  <2>1. b \in All /\ backups[b].id \in Ids /\ backups[b].name \in Spellings
    BY <1>2, Types
  <2>2. disk[backups[b].id] \in Data
    BY <1>2, <2>1, Types
  <2>3. QED
    BY <1>2, <2>1, <2>2 DEF Scan
<1>3. QED
  BY <1>1, <1>2

\* It finds nothing only where there is nothing.
LEMMA ScanFinds ==
  ASSUME TypeOK, NEW b \in All, backups[b] # None, disk[backups[b].id] # None
  PROVE  Scan(b) # None
<1>1. b # 0 /\ backups[b].id \in Ids /\ backups[b].name \in Spellings
  BY Types DEF All
<1>2. disk[backups[b].id] \in Data
  BY <1>1, Types
<1>3. [name |-> backups[b].name, id |-> backups[b].id, data |-> disk[backups[b].id]] # None
  BY <1>1, <1>2, ConstantsAssumption
<1>4. QED
  BY <1>1, <1>3 DEF Scan

\* The counters stay numbers.
LEMMA EventType ==
  ASSUME NEW S, Event(S), count \in [Counters -> Nat]
  PROVE  count' \in [Counters -> Nat]
BY DEF Event

\* Taking a name away keeps the types, and so does a new one.
LEMMA UnlinkType ==
  ASSUME TypeOK, NEW b \in All, Unlink(b)
  PROVE  /\ backups' \in [All -> Entry \union {None}]
         /\ disk' \in [Ids -> Data \union {None}]
BY DEF TypeOK, Unlink

\* The entry that is put is one.
LEMMA PutType ==
  ASSUME TypeOK, NEW b \in All, NEW name \in Spellings, NEW id \in Ids, Put(b, name, id)
  PROVE  backups' \in [All -> Entry \union {None}]
BY DEF TypeOK, Put, Entry

\* A changed file is still one.
LEMMA DataTimes ==
  ASSUME NEW d \in Data, NEW t \in Times PROVE [d EXCEPT !.times = t] \in Data
BY DEF Data

LEMMA DataSecurity ==
  ASSUME NEW d \in Data, NEW s \in Securities PROVE [d EXCEPT !.security = s] \in Data
BY DEF Data

\* What CopyFileEx makes is a file, with the streams it got to.
LEMMA NewFileType ==
  ASSUME source.data \in Data, NEW main \in Contents, NEW alt \in Contents, NewFile(main, alt)
  PROVE  \E id \in Ids, d \in Data :
           /\ Unused(id) /\ Put(dst, srcFile.name, id) /\ disk' = [disk EXCEPT ![id] = d]
           /\ d.main = main /\ d.alt = alt
           /\ ~source.data.unsupported => ~d.unsupported
<1>1. PICK id \in {i \in Ids : Unused(i)} :
        /\ Put(dst, srcFile.name, id)
        /\ \E t \in Times, s \in Inherited, u \in {FALSE, source.data.unsupported} :
             disk' = [disk EXCEPT ![id] = [main |-> main, alt |-> alt, times |-> t,
                                           security |-> s, unsupported |-> u]]
  BY DEF NewFile
<1>2. PICK t \in Times, s \in Inherited, u \in {FALSE, source.data.unsupported} :
        disk' = [disk EXCEPT ![id] = [main |-> main, alt |-> alt, times |-> t,
                                      security |-> s, unsupported |-> u]]
  BY <1>1
<1> DEFINE d == [main |-> main, alt |-> alt, times |-> t, security |-> s, unsupported |-> u]
<1>3. u \in BOOLEAN /\ (~source.data.unsupported => ~u) /\ s \in Securities
  BY ConstantsAssumption DEF Data
<1>4. d \in Data /\ d.main = main /\ d.alt = alt /\ (~source.data.unsupported => ~d.unsupported)
  BY <1>3 DEF Data
<1>5. QED
  BY <1>1, <1>2, <1>4

\* What Copy leaves under the name of the backup, whether it is killed or not.
LEMMA CopyEffect ==
  ASSUME IInv, Copy \/ KillCopy
  PROVE  \E id \in Ids, d \in Data :
           /\ Unused(id) /\ Put(dst, srcFile.name, id) /\ disk' = [disk EXCEPT ![id] = d]
           /\ d.alt \in {source.data.alt, PartialStream}
           /\ Copy => /\ d.main = source.data.main /\ d.alt = source.data.alt
                      /\ ~source.data.unsupported => ~d.unsupported
<1>1. source # None /\ source.data \in Data
  BY Types DEF Copy, KillCopy, IInv
<1>2. source.data.main \in Contents /\ source.data.alt \in Contents
      /\ Partial \in Contents /\ PartialStream \in Contents
  BY <1>1, ConstantsAssumption DEF Data
<1>3. CASE Copy
  <2>1. NewFile(source.data.main, source.data.alt)
    BY <1>3 DEF Copy
  <2>2. QED
    BY <1>1, <1>2, <2>1, NewFileType
<1>4. CASE KillCopy
  <2>1. PICK main \in {source.data.main, Partial}, alt \in {source.data.alt, PartialStream} :
          NewFile(main, alt)
    BY <1>4 DEF KillCopy
  <2>2. main \in Contents /\ alt \in Contents
    BY <1>2, <2>1
  <2>3. ~Copy
    BY <1>4 DEF KillCopy, Copy, End
  <2>4. QED
    BY <1>1, <2>1, <2>2, <2>3, NewFileType
<1>5. QED
  BY <1>3, <1>4

\* Every step keeps the types.
LEMMA TypeStep == IInv /\ [Next]_vars => TypeOK'
<1> SUFFICES ASSUME IInv, [Next]_vars PROVE TypeOK'
  OBVIOUS
<1>1. TypeOK /\ CallInv /\ ScanInv /\ TargetInv
  BY DEF IInv
<1>2. /\ pc # "idle" => dst \in All
      /\ \A c \in All : backups[c] # None => disk[backups[c].id] # None
  BY <1>1 DEF CallInv
<1>3. Zero \in [Counters -> Nat] /\ 0 \in 0 .. Backups
  BY ConstantsAssumption DEF Zero
<1>4. ASSUME NEW r \in 0 .. Backups, NEW d \in All, CreateBackup(r, d) PROVE TypeOK'
  <2>1. /\ Scan(r) \in [name : Spellings, id : Ids, data : Data] \union {None}
        /\ Scan(d) \in [name : Spellings, id : Ids, data : Data] \union {None}
    BY <1>1, <1>2, ScanType DEF All
  <2>2. d \in 0 .. Backups
    BY Types, <1>1
  <2>3. QED
    BY <1>1, <1>3, <1>4, <2>1, <2>2 DEF CreateBackup, TypeOK, Pc, files
<1>5. CASE Extra \/ CheckDst \/ CompareDst \/ CompareDstStreams \/ CheckRef \/ CompareRef
  <2>1. pc' \in Pc /\ UNCHANGED <<files, place, match, quiet, count>>
    BY <1>5 DEF Extra, CheckDst, CompareDst, CompareDstStreams, CheckRef, CompareRef, Goto, Pc
  <2>2. QED
    BY <1>1, <2>1 DEF TypeOK, files, place, match
<1>6. CASE Unsupported \/ Return \/ Fail
  BY <1>1, <1>3, <1>6 DEF Unsupported, Return, Fail, End, TypeOK, Pc
<1>7. CASE AddFile \/ RetainFile
  <2>1. count' \in [Counters -> Nat]
    BY <1>1, <1>7, EventType DEF AddFile, RetainFile, TypeOK
  <2>2. QED
    BY <1>1, <1>7, <2>1 DEF AddFile, RetainFile, AfterRetain, TypeOK, Pc, files, place, match
<1>8. CASE RemoveExtra \/ DeleteFile
  <2>1. count' \in [Counters -> Nat]
    BY <1>1, <1>8, EventType DEF RemoveExtra, DeleteFile, TypeOK
  <2>2. dst \in All /\ Unlink(dst)
    BY <1>2, <1>8 DEF RemoveExtra, DeleteFile
  <2>3. QED
    BY <1>1, <1>8, <2>1, <2>2, UnlinkType DEF RemoveExtra, DeleteFile, TypeOK, Pc, place, match
<1>9. CASE RenameFile
  <2>1. count' \in [Counters -> Nat]
    BY <1>1, <1>9, EventType DEF RenameFile, TypeOK
  <2>2. dst \in All /\ dstFile # None /\ srcFile # None /\ dstFile = Scan(dst)
    BY <1>1, <1>2, <1>9 DEF RenameFile, ScanInv, Untouched
  <2>3. srcFile.name \in Spellings /\ backups[dst].id \in Ids
    BY <1>1, <2>2, Types DEF Scan
  <2>4. backups' \in [All -> Entry \union {None}]
    BY <1>1, <1>9, <2>2, <2>3, PutType DEF RenameFile
  <2>5. QED
    BY <1>1, <1>9, <2>1, <2>4 DEF RenameFile, AfterRetain, TypeOK, Pc, place, match
<1>10. CASE SetSecurity \/ SetAttributes
  <2>1. count' \in [Counters -> Nat]
    BY <1>1, <1>10, EventType DEF SetSecurity, SetAttributes, TypeOK
  <2>2. dst \in All /\ backups[dst] # None /\ srcFile # None
    BY <1>1, <1>2, <1>10 DEF SetSecurity, SetAttributes, TargetInv, ScanInv
  <2>3. backups[dst].id \in Ids /\ disk[backups[dst].id] \in Data /\ srcFile.data \in Data
    BY <1>1, <1>2, <2>2, Types
  <2>4. disk' \in [Ids -> Data \union {None}]
    BY <1>1, <1>10, <2>3 DEF SetSecurity, SetAttributes, TypeOK, Data
  <2>5. QED
    BY <1>1, <1>10, <2>1, <2>4 DEF SetSecurity, SetAttributes, TypeOK, Pc, place, match
<1>11. CASE CreateHardLink
  <2>1. count' \in [Counters -> Nat]
    BY <1>1, <1>11, EventType DEF CreateHardLink, TypeOK
  <2>2. /\ dst \in All /\ srcFile # None
        /\ ref \in All /\ backups[ref] # None
    BY <1>1, <1>2, <1>11 DEF CreateHardLink, ScanInv, IInv, CompareInv, RefIsSame, Scan, TypeOK, All
  <2>3. srcFile.name \in Spellings /\ backups[ref].id \in Ids
    BY <1>1, <2>2, Types
  <2>4. backups' \in [All -> Entry \union {None}]
    BY <1>1, <1>11, <2>2, <2>3, PutType DEF CreateHardLink
  <2>5. QED
    BY <1>1, <1>11, <2>1, <2>4 DEF CreateHardLink, TypeOK, Pc, place, match
<1>12. CASE Copy \/ KillCopy
  <2>1. PICK id \in Ids, d \in Data :
          Put(dst, srcFile.name, id) /\ disk' = [disk EXCEPT ![id] = d]
    BY <1>12, CopyEffect
  <2>2. dst \in All /\ srcFile # None /\ source # None
    BY <1>1, <1>2, <1>12 DEF Copy, KillCopy, ScanInv
  <2>3. srcFile.name \in Spellings
    BY <1>1, <2>2, Types
  <2>4. backups' \in [All -> Entry \union {None}]
    BY <1>1, <2>1, <2>2, <2>3, PutType
  <2>5. disk' \in [Ids -> Data \union {None}]
    BY <1>1, <2>1 DEF TypeOK
  <2>6. QED
    BY <1>1, <1>3, <1>12, <2>4, <2>5 DEF Copy, KillCopy, End, TypeOK, Pc, place, match
<1>13. CASE Edit
  BY <1>1, <1>13 DEF Edit, TypeOK, place, match
<1>14. CASE UNCHANGED vars
  <2>1. /\ UNCHANGED <<source, backups, disk>> /\ UNCHANGED <<newest, ref, dst>>
        /\ UNCHANGED <<srcFile, refFile, dstFile>> /\ UNCHANGED <<pc, quiet, count>>
    BY <1>14 DEF vars, files, place, match
  <2>2. QED
    BY <1>1, <2>1 DEF TypeOK
<1>15. QED
  BY <1>4, <1>5, <1>6, <1>7, <1>8, <1>9, <1>10, <1>11, <1>12, <1>13, <1>14 DEF Next, Sync
-----------------------------------------------------------------------------
(* What the steps do to the backups. *)

\* Steps that only look, or end the call, or change nothing of the backups.
Looks == \/ \E r \in 0 .. Backups, d \in All : CreateBackup(r, d)
         \/ Extra \/ Unsupported \/ AddFile \/ CheckDst \/ CompareDst
         \/ CompareDstStreams \/ RetainFile \/ CheckRef \/ CompareRef \/ Return
         \/ Fail \/ Edit \/ UNCHANGED vars

LEMMA LooksOnly == Looks => UNCHANGED <<backups, disk>>
BY DEF Looks, CreateBackup, Extra, Unsupported, AddFile, CheckDst, CompareDst,
   CompareDstStreams, RetainFile, CheckRef, CompareRef, Return, Fail, Edit, Goto, files, vars

LEMMA StepKinds ==
  [Next]_vars => \/ Looks
                 \/ RemoveExtra \/ DeleteFile \/ RenameFile \/ SetSecurity
                 \/ CreateHardLink \/ Copy \/ SetAttributes \/ KillCopy
BY DEF Next, Sync, Looks

\* A step that writes has a backup to write to, and what it needs there.
LEMMA Writes ==
  ASSUME IInv
  PROVE  /\ pc # "idle" => dst \in All
         /\ RemoveExtra \/ DeleteFile \/ RenameFile \/ SetSecurity \/ SetAttributes =>
              /\ dst \in All /\ backups[dst] # None
              /\ backups[dst].id \in Ids /\ disk[backups[dst].id] \in Data
         /\ CreateHardLink =>
              /\ dst \in All /\ ref \in All /\ backups[ref] # None
              /\ backups[ref].id \in Ids /\ disk[backups[ref].id] \in Data
         /\ pc \notin {"idle", "sync", "remove", "done"} =>
              srcFile # None /\ srcFile.name \in Spellings /\ srcFile.data \in Data
<1>1. TypeOK /\ CallInv /\ ScanInv /\ CompareInv /\ TargetInv
  BY DEF IInv
<1>2. pc # "idle" => dst \in All
  BY <1>1 DEF CallInv
<1>3. \A b \in All : backups[b] # None => backups[b].id \in Ids /\ disk[backups[b].id] \in Data
  BY <1>1, Types DEF CallInv
<1>4. ASSUME RemoveExtra \/ DeleteFile \/ RenameFile \/ SetSecurity \/ SetAttributes
      PROVE  dst \in All /\ backups[dst] # None
  <2>1. pc \in {"remove", "delete", "retain", "setSecurity", "setAttributes"}
    BY <1>4 DEF RemoveExtra, DeleteFile, RenameFile, SetSecurity, SetAttributes
  <2>2. CASE pc \in {"remove", "delete", "retain"}
    BY <1>1, <1>2, <2>2 DEF ScanInv, Untouched, Scan
  <2>3. CASE pc \in {"setSecurity", "setAttributes"}
    BY <1>1, <1>2, <2>3 DEF TargetInv
  <2>4. QED
    BY <2>1, <2>2, <2>3
<1>5. ASSUME CreateHardLink PROVE dst \in All /\ ref \in All /\ backups[ref] # None
  <2>1. pc = "link"
    BY <1>5 DEF CreateHardLink
  <2>2. refFile # None /\ refFile = Scan(ref)
    BY <1>1, <2>1 DEF ScanInv, CompareInv, RefIsSame
  <2>3. QED
    BY <1>1, <1>2, <2>1, <2>2 DEF Scan, TypeOK, All
<1>6. pc \notin {"idle", "sync", "remove", "done"} =>
        srcFile # None /\ srcFile.name \in Spellings /\ srcFile.data \in Data
  BY <1>1, Types DEF ScanInv
<1>7. QED
  BY <1>2, <1>3, <1>4, <1>5, <1>6

\* A backup that is not the one written to keeps its name, and its file as well
\* unless that is shared and gets another security.
LEMMA OtherBackups ==
  ASSUME IInv, [Next]_vars, NEW b \in All, b # dst
  PROVE  /\ backups'[b] = backups[b]
         /\ backups[b] # None /\ (pc = "setSecurity" => ~Linked(b, dst)) =>
              disk'[backups[b].id] = disk[backups[b].id]
<1>1. TypeOK /\ TargetInv
  BY DEF IInv
<1>2. backups \in [All -> Entry \union {None}] /\ disk \in [Ids -> Data \union {None}]
  BY <1>1 DEF TypeOK
<1>3. backups[b] # None => backups[b].id \in Ids
  BY <1>1, Types
<1>4. CASE Looks
  BY <1>4, LooksOnly
<1>5. CASE RemoveExtra \/ DeleteFile
  <2>1. Unlink(dst) /\ dst \in All /\ backups[dst].id \in Ids
    BY <1>5, Writes DEF RemoveExtra, DeleteFile
  <2>2. backups'[b] = backups[b]
    BY <1>2, <2>1 DEF Unlink
  <2>3. backups[b] # None => disk'[backups[b].id] = disk[backups[b].id]
    BY <1>2, <1>3, <2>1 DEF Unlink
  <2>4. QED
    BY <2>2, <2>3
<1>6. CASE RenameFile
  BY <1>2, <1>6, Writes DEF RenameFile, Put
<1>7. CASE SetSecurity
  <2>1. dst \in All /\ backups[dst] # None /\ backups[dst].id \in Ids /\ pc = "setSecurity"
    BY <1>7, Writes DEF SetSecurity
  <2>2. QED
    BY <1>2, <1>3, <1>7, <2>1 DEF SetSecurity, Linked
<1>8. CASE CreateHardLink
  BY <1>2, <1>8, Writes DEF CreateHardLink, Put
<1>9. CASE SetAttributes
  <2>1. dst \in All /\ backups[dst] # None /\ backups[dst].id \in Ids /\ pc = "setAttributes"
    BY <1>9, Writes DEF SetAttributes
  <2>2. ~Linked(b, dst)
    BY <1>1, <2>1 DEF TargetInv
  <2>3. QED
    BY <1>2, <1>3, <1>9, <2>1, <2>2 DEF SetAttributes, Linked
<1>10. CASE Copy \/ KillCopy
  <2>1. PICK id \in Ids, d \in Data :
          Unused(id) /\ Put(dst, srcFile.name, id) /\ disk' = [disk EXCEPT ![id] = d]
    BY <1>10, CopyEffect
  <2>2. QED
    BY <1>2, <1>3, <2>1 DEF Unused, Put
<1>11. QED
  BY <1>4, <1>5, <1>6, <1>7, <1>8, <1>9, <1>10, StepKinds

\* So what has been scanned of it, or is seen through it, is still there.
LEMMA OtherScans ==
  ASSUME IInv, [Next]_vars, NEW b \in 0 .. Backups, b # dst,
         pc = "setSecurity" => ~Linked(b, dst)
  PROVE  Scan(b)' = Scan(b)
<1>1. CASE b = 0
  BY <1>1 DEF Scan
<1>2. CASE b # 0
  <2>1. b \in All
    BY <1>2 DEF All
  <2>2. backups'[b] = backups[b] /\ (backups[b] # None => disk'[backups[b].id] = disk[backups[b].id])
    BY <2>1, OtherBackups
  <2>3. QED
    BY <1>2, <2>2 DEF Scan
<1>3. QED
  BY <1>1, <1>2
-----------------------------------------------------------------------------
(* The inductive invariant. *)

\* Who is called, and that every name has its file.
LEMMA CallStep == IInv /\ [Next]_vars => CallInv'
<1> SUFFICES ASSUME IInv, [Next]_vars PROVE CallInv'
  OBVIOUS
<1>1. TypeOK /\ CallInv
  BY DEF IInv
<1>2. TypeOK'
  BY TypeStep
<1>3. /\ backups \in [All -> Entry \union {None}] /\ disk \in [Ids -> Data \union {None}]
      /\ \A b \in All : b \in Nat /\ b <= Backups
      /\ newest \in Nat /\ None \notin Data /\ Backups \in Nat
  BY <1>1, ConstantsAssumption DEF TypeOK, All
<1>4. None \notin Entry
  BY ConstantsAssumption DEF Entry
\* The call.
<1>5. /\ pc' = "idle" => ref' = 0 /\ dst' = 0
      /\ pc' # "idle" => dst' \in All /\ ref' # dst' /\ dst' <= newest'
      /\ pc' # "idle" /\ KeepsRef => dst' = newest' /\ ref' = dst' - 1
      /\ newest <= newest'
  <2>1. ASSUME NEW r \in 0 .. Backups, NEW d \in All, CreateBackup(r, d)
        PROVE  /\ pc' # "idle" /\ dst' \in All /\ ref' # dst' /\ dst' <= newest'
               /\ KeepsRef => dst' = newest' /\ ref' = dst' - 1
               /\ newest <= newest'
    BY <1>3, <2>1 DEF CreateBackup
  <2>2. CASE /\ pc' = "idle" /\ ref' = 0 /\ dst' = 0 /\ newest' = newest
    BY <1>3, <2>2
  <2>3. CASE pc' # "idle" /\ pc # "idle" /\ UNCHANGED place
    BY <1>1, <1>3, <2>3 DEF CallInv, place
  <2>4. CASE pc' = "idle" /\ pc = "idle" /\ UNCHANGED place
    BY <1>1, <1>3, <2>4 DEF CallInv, place
  <2>5. Unsupported \/ Return \/ Fail \/ KillCopy => pc' = "idle" /\ ref' = 0 /\ dst' = 0 /\ newest' = newest
    BY DEF Unsupported, Return, Fail, KillCopy, End
  <2>6. \/ Extra \/ AddFile \/ CheckDst \/ CompareDst \/ CompareDstStreams
        \/ RetainFile \/ CheckRef \/ CompareRef
        => pc' # "idle" /\ pc # "idle" /\ UNCHANGED place
    BY DEF Extra, AddFile, CheckDst, CompareDst, CompareDstStreams, Supported,
       RetainFile, CheckRef, CompareRef, Goto, AfterRetain
  <2>7. \/ RemoveExtra \/ RenameFile \/ SetSecurity \/ DeleteFile \/ CreateHardLink \/ Copy \/ SetAttributes
        => pc' # "idle" /\ pc # "idle" /\ UNCHANGED place
    BY DEF RemoveExtra, RenameFile, SetSecurity, DeleteFile, CreateHardLink, Copy,
       SetAttributes, AfterRetain
  <2>8. Edit \/ UNCHANGED vars => UNCHANGED pc /\ UNCHANGED place
    BY DEF Edit, vars
  <2>9. QED
    BY <2>1, <2>2, <2>3, <2>4, <2>5, <2>6, <2>7, <2>8 DEF Next, Sync
<1>6. pc' # "idle" /\ quiet' => srcFile' = source'
  <2>1. CASE \E r \in 0 .. Backups, d \in All : CreateBackup(r, d)
    BY <2>1 DEF CreateBackup, files
  <2>2. CASE Unsupported \/ Return \/ Fail \/ KillCopy
    BY <2>2 DEF Unsupported, Return, Fail, KillCopy, End
  <2>3. CASE \/ Extra \/ AddFile \/ CheckDst \/ CompareDst \/ CompareDstStreams
             \/ RetainFile \/ CheckRef \/ CompareRef
    <3>1. pc # "idle" /\ UNCHANGED <<source, srcFile, quiet>>
      BY <2>3 DEF Extra, AddFile, CheckDst, CompareDst, CompareDstStreams, Supported,
         RetainFile, CheckRef, CompareRef, Goto, files, match
    <3>2. QED
      BY <1>1, <3>1 DEF CallInv
  <2>4. CASE \/ RemoveExtra \/ RenameFile \/ SetSecurity \/ DeleteFile \/ CreateHardLink
             \/ Copy \/ SetAttributes
    <3>1. pc # "idle" /\ UNCHANGED <<source, srcFile, quiet>>
      BY <2>4 DEF RemoveExtra, RenameFile, SetSecurity, DeleteFile, CreateHardLink, Copy,
         SetAttributes, match
    <3>2. QED
      BY <1>1, <3>1 DEF CallInv
  <2>5. CASE Edit
    BY <2>5 DEF Edit
  <2>6. CASE UNCHANGED vars
    BY <1>1, <2>6 DEF CallInv, vars, files, match
  <2>7. QED
    BY <2>1, <2>2, <2>3, <2>4, <2>5, <2>6 DEF Next, Sync
\* The names and the files.
<1>7. \A b \in All : b # dst =>
        /\ backups'[b] = backups[b]
        /\ backups[b] # None => backups[b].id \in Ids /\ disk'[backups[b].id] # None
  <2> SUFFICES ASSUME NEW b \in All, b # dst
               PROVE  /\ backups'[b] = backups[b]
                      /\ backups[b] # None => backups[b].id \in Ids /\ disk'[backups[b].id] # None
    OBVIOUS
  <2>1. backups'[b] = backups[b]
    BY OtherBackups
  <2>2. ASSUME backups[b] # None PROVE backups[b].id \in Ids /\ disk'[backups[b].id] # None
    <3>1. backups[b].id \in Ids /\ disk[backups[b].id] # None
      BY <1>1, <2>2, Types DEF CallInv
    <3>2. CASE pc # "setSecurity"
      BY <2>2, <3>1, <3>2, OtherBackups
    <3>3. CASE pc = "setSecurity" /\ Looks
      BY <3>1, <3>3, LooksOnly
    <3>4. CASE SetSecurity
      <4>1. /\ backups[dst].id \in Ids /\ disk[backups[dst].id] \in Data
            /\ srcFile.data \in Data /\ dst \in All
        BY <3>4, Writes DEF SetSecurity
      <4>2. srcFile.data.security \in Securities
        BY <4>1 DEF Data
      <4>3. [disk[backups[dst].id] EXCEPT !.security = srcFile.data.security] # None
        BY <1>3, <4>1, <4>2, DataSecurity
      <4>4. QED
        BY <1>3, <3>1, <3>4, <4>1, <4>3 DEF SetSecurity
    <3>5. QED
      BY <3>2, <3>3, <3>4, StepKinds DEF RemoveExtra, DeleteFile, RenameFile, CreateHardLink,
         Copy, SetAttributes, KillCopy
  <2>3. QED
    BY <2>1, <2>2
<1>8. dst \in All => (backups'[dst] # None => disk'[backups'[dst].id] # None)
  <2> SUFFICES ASSUME dst \in All, backups'[dst] # None PROVE disk'[backups'[dst].id] # None
    OBVIOUS
  <2>1. CASE Looks
    BY <1>1, <2>1, LooksOnly DEF CallInv
  <2>2. CASE RemoveExtra \/ DeleteFile
    BY <1>3, <2>2 DEF RemoveExtra, DeleteFile, Unlink
  <2>3. CASE RenameFile
    BY <1>1, <1>3, <2>3, Writes DEF RenameFile, Put, CallInv
  <2>4. CASE SetSecurity \/ SetAttributes
    <3>1. UNCHANGED backups /\ backups[dst].id \in Ids
      BY <2>4, Writes DEF SetSecurity, SetAttributes
    <3>2. disk' \in [Ids -> Data \union {None}]
      BY <1>2 DEF TypeOK
    <3>3. /\ disk[backups[dst].id] \in Data
          /\ srcFile.data.security \in Securities /\ srcFile.data.times \in Times
      BY <2>4, Writes DEF SetSecurity, SetAttributes, Data
    <3>4. disk'[backups[dst].id] \in Data
      BY <1>3, <2>4, <3>1, <3>3, DataSecurity, DataTimes DEF SetSecurity, SetAttributes
    <3>5. QED
      BY <1>3, <3>1, <3>4
  <2>5. CASE CreateHardLink
    BY <1>1, <1>3, <2>5, Writes DEF CreateHardLink, Put, CallInv
  <2>6. CASE Copy \/ KillCopy
    <3>1. PICK id \in Ids, d \in Data :
            Unused(id) /\ Put(dst, srcFile.name, id) /\ disk' = [disk EXCEPT ![id] = d]
      BY <2>6, CopyEffect
    <3>2. QED
      BY <1>3, <3>1 DEF Put
  <2>7. QED
    BY <2>1, <2>2, <2>3, <2>4, <2>5, <2>6, StepKinds
<1>9. \A b \in All : backups'[b] # None => disk'[backups'[b].id] # None
  BY <1>7, <1>8
<1>10. \A b \in All : b > newest' => backups'[b] = None
  <2> SUFFICES ASSUME NEW b \in All, b > newest' PROVE backups'[b] = None
    OBVIOUS
  <2>1. newest' \in Nat /\ b > newest
    BY <1>2, <1>3, <1>5 DEF TypeOK
  <2>2. CASE b # dst
    BY <1>1, <1>7, <2>1, <2>2 DEF CallInv
  <2>3. CASE b = dst
    <3>1. pc = "idle"
      BY <1>1, <1>3, <2>1, <2>3 DEF CallInv
    <3>2. QED
      BY <1>1, <1>3, <2>3, <3>1 DEF CallInv, All
  <2>4. QED
    BY <2>2, <2>3
<1>11. QED
  BY <1>5, <1>6, <1>9, <1>10 DEF CallInv
\* The steps of a call that go on, by what they leave alone.
LEMMA CallGoesOn ==
  ASSUME \/ Extra \/ AddFile \/ CheckDst \/ CompareDst \/ CompareDstStreams
         \/ RetainFile \/ CheckRef \/ CompareRef \/ RemoveExtra \/ RenameFile
         \/ SetSecurity \/ DeleteFile \/ CreateHardLink \/ Copy \/ SetAttributes
  PROVE  pc # "idle" /\ pc' # "idle" /\ UNCHANGED <<place, match, quiet, source>>
BY DEF Extra, AddFile, CheckDst, CompareDst, CompareDstStreams, Supported, RetainFile,
   CheckRef, CompareRef, RemoveExtra, RenameFile, SetSecurity, DeleteFile,
   CreateHardLink, Copy, SetAttributes, Goto, AfterRetain, files

LEMMA CallGoesOut ==
  ASSUME Unsupported \/ Return \/ Fail \/ KillCopy
  PROVE  pc' = "idle"
BY DEF Unsupported, Return, Fail, KillCopy, End

\* The scans stay true: those of ref during the whole call, those of dst until
\* it is touched.
LEMMA ScanStep == IInv /\ [Next]_vars => ScanInv'
<1> SUFFICES ASSUME IInv, [Next]_vars PROVE ScanInv'
  OBVIOUS
<1>1. TypeOK /\ CallInv /\ ScanInv /\ CompareInv /\ TargetInv
  BY DEF IInv
<1>2. ref \in 0 .. Backups /\ (pc # "idle" => dst \in All /\ ref # dst)
  BY <1>1 DEF TypeOK, CallInv
<1>3. dst \in All /\ Scan(dst) = None => backups[dst] = None
  BY <1>1, ScanFinds DEF CallInv
<1>4. ASSUME NEW r \in 0 .. Backups, NEW d \in All, CreateBackup(r, d) PROVE ScanInv'
  BY <1>4 DEF CreateBackup, ScanInv, Untouched, Replacing, Scan, files
<1>5. CASE Unsupported \/ Return \/ Fail \/ KillCopy
  BY <1>5, CallGoesOut DEF ScanInv, Untouched, Replacing
<1>6. CASE Edit
  BY <1>1, <1>6 DEF Edit, ScanInv, Scan, place, match
<1>7. CASE UNCHANGED vars
  BY <1>1, <1>7 DEF ScanInv, Scan, vars, files, place, match
<1>8. CASE \/ Extra \/ AddFile \/ CheckDst \/ CompareDst \/ CompareDstStreams
           \/ RetainFile \/ CheckRef \/ CompareRef
  <2>1. UNCHANGED <<backups, disk, ref, dst, srcFile, refFile, dstFile>> /\ pc # "idle"
    BY <1>8, CallGoesOn, LooksOnly DEF place, match, Looks
  <2>2. CASE Extra
    BY <1>1, <2>1, <2>2 DEF Extra, Goto, ScanInv, Scan, Untouched, Replacing
  <2>3. CASE AddFile
    BY <1>1, <1>2, <1>3, <2>1, <2>3 DEF AddFile, Supported, ScanInv, Scan, Untouched, Replacing
  <2>4. CASE CheckDst
    BY <1>1, <2>1, <2>4 DEF CheckDst, Supported, Goto, ScanInv, Scan, Untouched, Replacing
  <2>5. CASE CompareDst \/ CompareDstStreams
    BY <1>1, <2>1, <2>5 DEF CompareDst, CompareDstStreams, Goto, ScanInv, Scan, Untouched, Replacing
  <2>6. CASE RetainFile
    BY <1>1, <2>1, <2>6 DEF RetainFile, AfterRetain, ScanInv, Scan, Untouched, Replacing
  <2>7. CASE CheckRef \/ CompareRef
    BY <1>1, <2>1, <2>7 DEF CheckRef, CompareRef, Goto, ScanInv, Scan, Untouched, Replacing
  <2>8. QED
    BY <1>8, <2>2, <2>3, <2>4, <2>5, <2>6, <2>7
<1>9. CASE \/ RemoveExtra \/ RenameFile \/ SetSecurity \/ DeleteFile \/ CreateHardLink
           \/ Copy \/ SetAttributes
  <2>1. UNCHANGED <<ref, dst, srcFile, refFile, dstFile>> /\ pc # "idle"
    BY <1>9, CallGoesOn DEF place, match
  <2>2. pc = "setSecurity" => ~Linked(ref, dst)
    BY <1>1 DEF TargetInv, Linked
  <2>3. Scan(ref)' = Scan(ref)
    BY <1>2, <2>1, <2>2, OtherScans
  <2>4. refFile' = Scan(ref)'
    BY <1>1, <2>1, <2>3 DEF ScanInv
  <2>5. CASE RemoveExtra \/ RenameFile \/ SetSecurity \/ CreateHardLink \/ SetAttributes
    <3>1. pc' \in {"done", "setSecurity"} /\ (pc' = "setSecurity" => pc = "retain")
      BY <2>5 DEF RemoveExtra, RenameFile, SetSecurity, CreateHardLink, SetAttributes, AfterRetain
    <3>2. QED
      BY <1>1, <2>1, <2>4, <3>1 DEF ScanInv, Untouched, Replacing
  <2>6. CASE DeleteFile
    <3>1. backups'[dst] = None
      BY <1>1, <1>2, <2>1, <2>6 DEF DeleteFile, Unlink, TypeOK
    <3>2. QED
      BY <1>1, <2>1, <2>4, <2>6, <3>1 DEF DeleteFile, ScanInv, Untouched, Replacing
  <2>7. CASE Copy
    BY <1>1, <2>1, <2>4, <2>7 DEF Copy, ScanInv, Untouched, Replacing
  <2>8. QED
    BY <1>9, <2>5, <2>6, <2>7
<1>10. QED
  BY <1>4, <1>5, <1>6, <1>7, <1>8, <1>9 DEF Next, Sync

\* What the comparisons have shown stays true while it is relied on.
LEMMA CompareStep == IInv /\ [Next]_vars => CompareInv'
<1> SUFFICES ASSUME IInv, [Next]_vars PROVE CompareInv'
  OBVIOUS
<1>1. TypeOK /\ CallInv /\ ScanInv /\ CompareInv
  BY DEF IInv
<1>2. pc # "idle" => dst \in All
  BY <1>1 DEF CallInv
<1> DEFINE Comparing == {"compareDst", "compareDstStreams", "retain", "compareRef", "link"}
<1>3. CASE pc' \notin Comparing
  BY <1>3 DEF CompareInv
<1>4. CASE Edit
  BY <1>1, <1>4 DEF Edit, CompareInv, DstSame, RefIsSame, Linked, match, place
<1>5. CASE UNCHANGED vars
  BY <1>1, <1>5 DEF CompareInv, DstSame, RefIsSame, Linked, vars, files, match, place
<1>6. CASE CheckDst
  <2>1. PICK yes \in BOOLEAN :
          /\ DstIsHardLink(yes)
          /\ pc' = "compareDst" => /\ SameAttributes(srcFile, dstFile)
                                   /\ ~dstFile.data.unsupported
                                   /\ SameSecurity(srcFile, dstFile) \/ ~yes
    BY <1>6 DEF CheckDst, Goto
  <2>2. UNCHANGED <<backups, ref, dst, srcFile, refFile, dstFile>> /\ pc' \in {"compareDst", "delete"}
    BY <1>6 DEF CheckDst, Goto, files, place, match
  <2>3. dst \in All /\ refFile = Scan(ref) /\ dstFile = Scan(dst) /\ dstFile # None
    BY <1>1, <1>2, <1>6 DEF CheckDst, Supported, ScanInv, Untouched
  <2>4. Linked(dst, ref) => refFile # None /\ IsHardLink(dstFile, refFile)
    BY <1>1, <2>3, ScanFinds DEF Linked, Scan, IsHardLink, CallInv
  <2>5. Linked(dst, ref) => yes
    BY <2>1, <2>4 DEF DstIsHardLink
  <2>6. QED
    BY <2>1, <2>2, <2>5 DEF CompareInv, Linked, SameAttributes, SameSecurity
<1>7. CASE CompareDst \/ CompareDstStreams
  <2>1. UNCHANGED <<source, backups, disk, ref, dst, srcFile, refFile, dstFile, quiet>>
    BY <1>7 DEF CompareDst, CompareDstStreams, Goto, files, place, match
  <2>2. dst \in All /\ dstFile = Scan(dst) /\ dstFile # None /\ (quiet => srcFile = source)
    BY <1>1, <1>2, <1>7 DEF CompareDst, CompareDstStreams, ScanInv, Untouched, CallInv
  <2>3. dstFile.data = disk[backups[dst].id]
    BY <2>2 DEF Scan
  <2>4. CASE CompareDst
    BY <1>1, <2>1, <2>2, <2>3, <2>4 DEF CompareDst, Goto, CompareInv, DstSame, Linked,
       SameAttributes, SameSecurity
  <2>5. CASE CompareDstStreams
    BY <1>1, <2>1, <2>2, <2>3, <2>5 DEF CompareDstStreams, Goto, CompareInv, DstSame, Linked,
       SameAttributes, SameSecurity
  <2>6. QED
    BY <1>7, <2>4, <2>5
<1>8. CASE CheckRef
  BY <1>8 DEF CheckRef, Goto, CompareInv, RefIsSame, match, SameAttributes, SameSecurity, IsHardLink
<1>9. CASE CompareRef
  <2>1. UNCHANGED <<source, backups, disk, ref, dst, srcFile, refFile, dstFile, quiet>>
    BY <1>9 DEF CompareRef, Goto, files, place, match
  <2>2. /\ RefIsSame /\ refFile = Scan(ref) /\ (quiet => srcFile = source)
    BY <1>1, <1>9 DEF CompareRef, ScanInv, CompareInv, CallInv
  <2>3. refFile.data = disk[backups[ref].id]
    BY <2>2 DEF Scan, RefIsSame
  <2>4. QED
    BY <1>9, <2>1, <2>2, <2>3 DEF CompareRef, Goto, CompareInv, RefIsSame, RefDiffers,
       SameAttributes, SameSecurity, IsHardLink
<1>10. QED
  <2>1. \/ pc' \notin Comparing \/ Edit \/ UNCHANGED vars \/ CheckDst \/ CompareDst
        \/ CompareDstStreams \/ CheckRef \/ CompareRef
    BY CallGoesOut DEF Next, Sync, CreateBackup, Extra, RemoveExtra, AddFile, RetainFile,
       RenameFile, SetSecurity, DeleteFile, CreateHardLink, Copy, SetAttributes, AfterRetain, Goto
  <2>2. QED
    BY <1>3, <1>4, <1>5, <1>6, <1>7, <1>8, <1>9, <2>1
\* The file that is being made, or kept.
LEMMA TargetStep == IInv /\ [Next]_vars => TargetInv'
<1> SUFFICES ASSUME IInv, [Next]_vars PROVE TargetInv'
  OBVIOUS
<1>1. TypeOK /\ CallInv /\ ScanInv /\ CompareInv /\ TargetInv
  BY DEF IInv
<1>2. pc # "idle" => dst \in All /\ ref # dst
  BY <1>1 DEF CallInv
<1>3. backups \in [All -> Entry \union {None}] /\ disk \in [Ids -> Data \union {None}]
  BY <1>1 DEF TypeOK
<1>4. CASE pc' \notin {"setSecurity", "setAttributes"}
  BY <1>4 DEF TargetInv
<1>5. CASE Edit
  BY <1>1, <1>5 DEF Edit, TargetInv, Target, View, Linked, match, place
<1>6. CASE UNCHANGED vars
  BY <1>1, <1>6 DEF TargetInv, Target, View, Linked, vars, files, match, place
<1>7. CASE (RetainFile \/ RenameFile) /\ pc' = "setSecurity"
  <2>1. pc = "retain" /\ ~SameSecurity(srcFile, dstFile)
    BY <1>7 DEF RetainFile, RenameFile, AfterRetain
  <2>2. /\ dstFile = Scan(dst) /\ dstFile # None /\ dst \in All /\ ref # dst
        /\ ~Linked(dst, ref) /\ SameAttributes(srcFile, dstFile) /\ DstSame({"main"}) /\ DstSame({"alt"})
        /\ ~dstFile.data.unsupported
    BY <1>1, <1>2, <2>1 DEF ScanInv, Untouched, CompareInv
  <2>3. /\ backups[dst] # None
        /\ dstFile = [name |-> backups[dst].name, id |-> backups[dst].id, data |-> disk[backups[dst].id]]
    BY <2>2 DEF Scan
  <2>4. /\ UNCHANGED <<disk, dst, ref, srcFile, quiet>>
        /\ backups'[dst] # None /\ backups'[dst].id = backups[dst].id
        /\ backups'[dst].name = srcFile.name
        /\ backups'[ref] = backups[ref] \/ ref \notin All
    <3>1. CASE RetainFile
      BY <2>2, <2>3, <3>1 DEF RetainFile, files, match, place
    <3>2. CASE RenameFile
      <4>1. srcFile.name \in Spellings /\ backups[dst].id \in Ids
        BY <2>1, <3>2, Writes
      <4>2. [name |-> srcFile.name, id |-> backups[dst].id] # None
        BY <4>1, ConstantsAssumption
      <4>3. QED
        BY <1>3, <2>2, <3>2, <4>2 DEF RenameFile, Put, match, place
    <3>3. QED
      BY <1>7, <3>1, <3>2
  <2>5. ~Linked(dst, ref)'
    BY <2>2, <2>3, <2>4 DEF Linked
  <2>6. Target' = [name |-> srcFile.name, data |-> disk[backups[dst].id]]
    BY <2>4 DEF Target, View
  <2>7. /\ quiet => \A part \in {"main", "alt", "times"} :
                      disk[backups[dst].id][part] = srcFile.data[part]
        /\ ~disk[backups[dst].id].unsupported
    BY <2>2, <2>3 DEF DstSame, SameAttributes
  <2>8. QED
    BY <1>7, <2>4, <2>5, <2>6, <2>7 DEF TargetInv
<1>8. CASE Copy
  <2>1. PICK id \in Ids, d \in Data :
          /\ Unused(id) /\ Put(dst, srcFile.name, id) /\ disk' = [disk EXCEPT ![id] = d]
          /\ d.alt = source.data.alt /\ d.main = source.data.main
          /\ ~source.data.unsupported => ~d.unsupported
    BY <1>8, CopyEffect
  <2>2. /\ pc' = "setAttributes" /\ UNCHANGED <<dst, ref, srcFile, quiet, source>> /\ dst \in All
        /\ quiet => srcFile = source
        /\ ~srcFile.data.unsupported
    BY <1>1, <1>2, <1>8 DEF Copy, place, match, CallInv, ScanInv
  <2>3. srcFile.name \in Spellings
    BY <1>8, Writes DEF Copy
  <2>4. [name |-> srcFile.name, id |-> id] # None
    BY <2>3, ConstantsAssumption
  <2>5. /\ backups'[dst] = [name |-> srcFile.name, id |-> id] /\ disk'[id] = d
        /\ \A b \in All : b # dst => backups'[b] = backups[b]
    BY <1>3, <2>1, <2>2 DEF Put
  <2>6. \A b \in All : b # dst => ~Linked(b, dst)'
    BY <2>1, <2>2, <2>5 DEF Linked, Unused
  <2>7. Target' = [name |-> srcFile.name, data |-> d]
    BY <2>2, <2>4, <2>5 DEF Target, View
  <2>8. QED
    BY <2>1, <2>2, <2>4, <2>5, <2>6, <2>7 DEF TargetInv
<1>9. QED
  <2>1. \/ pc' \notin {"setSecurity", "setAttributes"} \/ Edit \/ UNCHANGED vars
        \/ (RetainFile \/ RenameFile) /\ pc' = "setSecurity"
        \/ Copy
    BY CallGoesOut DEF Next, Sync, CreateBackup, Extra, RemoveExtra, AddFile, CheckDst, CompareDst,
       CompareDstStreams, RetainFile, RenameFile, SetSecurity, DeleteFile, CheckRef, CompareRef,
       CreateHardLink, SetAttributes, AfterRetain, Goto
  <2>2. QED
    BY <1>4, <1>5, <1>6, <1>7, <1>8, <2>1

\* No file on the backup disk has a stream that no source or killed copy has left.
LEMMA StreamStep == IInv /\ [Next]_vars => StreamInv'
<1> SUFFICES ASSUME IInv, [Next]_vars, NEW id \in Ids, disk'[id] # None
             PROVE  disk'[id].alt \in Streams
  BY DEF StreamInv, Streams
<1>1. TypeOK /\ StreamInv
  BY DEF IInv
<1>2. disk \in [Ids -> Data \union {None}]
  BY <1>1 DEF TypeOK
<1>3. CASE disk'[id] = disk[id]
  BY <1>1, <1>3 DEF StreamInv
<1>4. CASE SetSecurity \/ SetAttributes
  <2>1. /\ backups[dst].id \in Ids /\ disk[backups[dst].id] \in Data
        /\ disk[backups[dst].id] # None
    BY <1>4, Writes, ConstantsAssumption
  <2>2. disk'[backups[dst].id].alt = disk[backups[dst].id].alt
    BY <1>2, <1>4, <2>1 DEF SetSecurity, SetAttributes, Data
  <2>3. id # backups[dst].id => disk'[id] = disk[id]
    BY <1>2, <1>4 DEF SetSecurity, SetAttributes
  <2>4. QED
    BY <1>1, <1>3, <2>1, <2>2, <2>3 DEF StreamInv
<1>5. CASE Copy \/ KillCopy
  <2>1. PICK i \in Ids, d \in Data :
          disk' = [disk EXCEPT ![i] = d] /\ d.alt \in {source.data.alt, PartialStream}
    BY <1>5, CopyEffect
  <2>2. source \in Sources
    BY <1>1, <1>5 DEF Copy, KillCopy, TypeOK
  <2>3. d.alt \in Streams
    BY <2>1, <2>2 DEF Streams
  <2>4. QED
    BY <1>2, <1>3, <2>1, <2>3
<1>6. CASE RemoveExtra \/ DeleteFile
  BY <1>2, <1>3, <1>6 DEF RemoveExtra, DeleteFile, Unlink
<1>7. CASE RenameFile \/ CreateHardLink
  BY <1>3, <1>7 DEF RenameFile, CreateHardLink
<1>8. CASE Looks
  BY <1>3, <1>8, LooksOnly
<1>9. QED
  BY <1>4, <1>5, <1>6, <1>7, <1>8, StepKinds

\* The statistics so far.
LEMMA CountStep == IInv /\ [Next]_vars => CountInv'
<1> SUFFICES ASSUME IInv, [Next]_vars PROVE CountInv'
  OBVIOUS
<1>1. TypeOK /\ CallInv /\ ScanInv /\ CompareInv /\ CountInv
  BY DEF IInv
<1>2. count \in [Counters -> Nat]
  BY <1>1 DEF TypeOK
<1>3. CASE pc' \in {"idle", "done"}
  BY <1>3 DEF CountInv, Untouched, Replacing
<1>4. CASE \E r \in 0 .. Backups, d \in All : CreateBackup(r, d)
  BY <1>4 DEF CreateBackup, CountInv, Untouched, Replacing, Zero
<1>5. CASE Edit \/ UNCHANGED vars
  BY <1>1, <1>5 DEF Edit, vars, files, match, CountInv
<1>6. CASE Extra \/ CheckDst \/ CompareDst \/ CompareDstStreams
  <2>1. count' = count /\ pc \in Untouched /\ pc' \in Untouched \union {"done"}
    BY <1>6 DEF Extra, CheckDst, CompareDst, CompareDstStreams, Supported, Goto, Untouched
  <2>2. QED
    BY <1>1, <2>1 DEF CountInv, Untouched, Replacing
<1>7. CASE CheckRef \/ CompareRef \/ Copy
  <2>1. /\ count' = count /\ dstFile' = dstFile /\ pc \in Replacing
        /\ pc' \in Replacing \union {"setAttributes"}
    BY <1>7 DEF CheckRef, CompareRef, Copy, Goto, Replacing, match
  <2>2. QED
    BY <1>1, <2>1 DEF CountInv, Untouched, Replacing
<1>8. CASE AddFile
  <2>1. \A c \in Counters : count[c] = 0
    BY <1>1, <1>8 DEF AddFile, Supported, CountInv, Untouched
  <2>2. pc' = "tryRef" /\ dstFile' = None
    BY <1>8 DEF AddFile, match
  <2>3. QED
    BY <1>2, <1>8, <2>1, <2>2 DEF AddFile, Event, CountInv, Untouched, Replacing
<1>9. CASE DeleteFile
  <2>1. \A c \in Counters : count[c] = 0
    BY <1>1, <1>9 DEF DeleteFile, CountInv, Untouched
  <2>2. pc' = "tryRef" /\ dstFile' # None
    BY <1>1, <1>9 DEF DeleteFile, match, ScanInv, Untouched
  <2>3. QED
    BY <1>2, <1>9, <2>1, <2>2 DEF DeleteFile, Event, CountInv, Untouched, Replacing
<1>10. CASE (RetainFile \/ RenameFile) /\ pc' = "setSecurity"
  <2>1. pc = "retain" /\ ~SameSecurity(srcFile, dstFile)
    BY <1>10 DEF RetainFile, RenameFile, AfterRetain
  <2>2. /\ \A c \in Counters : count[c] = 0
        /\ ~Linked(dst, ref) /\ dst \in All
        /\ dstFile = Scan(dst) /\ dstFile # None /\ refFile = Scan(ref)
    BY <1>1, <2>1 DEF CountInv, CompareInv, ScanInv, CallInv, Untouched
  <2>3. ~(refFile # None /\ IsHardLink(refFile, dstFile))
    BY <1>1, <2>2 DEF Scan, IsHardLink, Linked, TypeOK, All
  <2>4. CASE RetainFile
    BY <1>2, <1>10, <2>2, <2>3, <2>4 DEF RetainFile, Event, CountInv, Untouched, Replacing
  <2>5. CASE RenameFile
    BY <1>2, <1>10, <2>2, <2>3, <2>5 DEF RenameFile, Event, CountInv, Untouched, Replacing
  <2>6. QED
    BY <1>10, <2>4, <2>5
<1>11. QED
  <2>1. \/ pc' \in {"idle", "done"} \/ Edit \/ UNCHANGED vars
        \/ (\E r \in 0 .. Backups, d \in All : CreateBackup(r, d))
        \/ Extra \/ CheckDst \/ CompareDst \/ CompareDstStreams
        \/ CheckRef \/ CompareRef \/ Copy \/ AddFile \/ DeleteFile
        \/ (RetainFile \/ RenameFile) /\ pc' = "setSecurity"
    BY CallGoesOut DEF Next, Sync, RemoveExtra, RetainFile, RenameFile, SetSecurity,
       CreateHardLink, SetAttributes, AfterRetain
  <2>2. QED
    BY <1>3, <1>4, <1>5, <1>6, <1>7, <1>8, <1>9, <1>10, <2>1

LEMMA Inductive == IInv /\ [Next]_vars => IInv'
BY TypeStep, CallStep, ScanStep, CompareStep, TargetStep, StreamStep, CountStep DEF IInv

LEMMA Initially == Init => IInv
<1> SUFFICES ASSUME Init PROVE IInv
  OBVIOUS
<1>1. TypeOK
  <2>1. Zero \in [Counters -> Nat] /\ 0 \in 0 .. Backups
    BY ConstantsAssumption DEF Zero
  <2>2. QED
    BY <2>1 DEF Init, TypeOK, Pc
<1>2. CallInv
  BY DEF Init, CallInv
<1>3. ScanInv /\ CompareInv /\ TargetInv
  BY DEF Init, ScanInv, CompareInv, TargetInv, Untouched, Replacing
<1>4. StreamInv /\ CountInv
  BY DEF Init, StreamInv, CountInv, Untouched, Replacing
<1>5. QED
  BY <1>1, <1>2, <1>3, <1>4 DEF IInv

\* The scans, the comparisons and the statistics of a call agree with what is
\* on the disk, in every state of any number of backups.
THEOREM Invariance == Spec => []IInv
BY Initially, Inductive, PTL DEF Spec

\* Every variable keeps its type.
THEOREM TypeCorrect == Spec => []TypeOK
<1>1. IInv => TypeOK
  BY DEF IInv
<1>2. QED
  BY <1>1, Invariance, PTL
-----------------------------------------------------------------------------
(* The end of a call. *)

\* A step to the end with a file in the backup: it suffices that this one has
\* what the source had when it was scanned.
LEMMA EndsRight ==
  ASSUME IInv, [Next]_vars, pc # "idle",
         pc' = "done", UNCHANGED <<source, dst, srcFile, quiet>>,
         backups'[dst] # None, backups'[dst].name = srcFile.name,
         srcFile # None,
         quiet => \A part \in {"main", "alt", "times"} :
                    disk'[backups'[dst].id][part] = srcFile.data[part],
         quiet /\ count'["copied"] = 0 =>
           disk'[backups'[dst].id].security = srcFile.data.security,
         quiet /\ count'["createdInHardLinks"] = 0 => ~disk'[backups'[dst].id].unsupported
  PROVE  BackupRight'
<1> DEFINE d == disk'[backups'[dst].id]
<1>1. TypeOK /\ CallInv /\ TypeOK' /\ CallInv'
  BY Inductive DEF IInv
<1>2. quiet => srcFile = source
  BY <1>1 DEF CallInv
<1>3. View(dst)' = [name |-> srcFile.name, data |-> d]
  BY DEF View
<1>4. /\ [name |-> srcFile.name, data |-> d].name = srcFile.name
      /\ [name |-> srcFile.name, data |-> d].data = d
  OBVIOUS
<1>5. dst \in All /\ backups'[dst].id \in Ids /\ d # None
  <2>1. dst \in All
    BY <1>1 DEF CallInv
  <2>2. backups'[dst] \in Entry
    BY <1>1, <2>1 DEF TypeOK
  <2>3. QED
    BY <1>1, <2>1, <2>2 DEF CallInv, Entry
<1>6. d \in Data /\ srcFile.name \in Spellings
  BY <1>1, <1>5, ConstantsAssumption DEF TypeOK
<1>7. [name |-> srcFile.name, data |-> d] # None
  BY <1>6, ConstantsAssumption
<1>8. quiet => SameFile([name |-> srcFile.name, data |-> d], srcFile)
  BY <1>4, <1>7 DEF SameFile
<1>9. QED
  BY <1>2, <1>3, <1>4, <1>8 DEF BackupRight

LEMMA RightStep == IInv /\ StreamsShow /\ BackupRight /\ [Next]_vars => BackupRight'
<1> SUFFICES ASSUME IInv, StreamsShow, BackupRight, [Next]_vars PROVE BackupRight'
  OBVIOUS
<1>1. TypeOK /\ CallInv /\ ScanInv /\ CompareInv /\ TargetInv /\ StreamInv
  BY DEF IInv
<1>2. pc # "idle" => dst \in All
  BY <1>1 DEF CallInv
<1>3. backups \in [All -> Entry \union {None}] /\ disk \in [Ids -> Data \union {None}]
  BY <1>1 DEF TypeOK
<1>4. CASE pc' # "done"
  BY <1>4 DEF BackupRight
<1>5. CASE Edit
  BY <1>5 DEF Edit, BackupRight
<1>6. CASE UNCHANGED vars
  BY <1>6 DEF BackupRight, View, vars, files, place
<1>7. CASE (Extra \/ RemoveExtra) /\ pc' = "done"
  <2>1. /\ pc # "idle" /\ UNCHANGED <<dst, srcFile, quiet, source>> /\ dst \in All
    BY <1>2, <1>7, CallGoesOn DEF place, match
  <2>2. srcFile = None
    BY <1>1, <1>7 DEF Extra, RemoveExtra, ScanInv
  <2>3. backups'[dst] = None
    <3>1. CASE Extra
      <4>1. Scan(dst) = None /\ backups' = backups
        BY <1>1, <1>7, <3>1 DEF Extra, Goto, ScanInv, Untouched, files
      <4>2. QED
        BY <1>1, <2>1, <4>1, ScanFinds DEF CallInv
    <3>2. CASE RemoveExtra
      BY <1>3, <2>1, <3>2 DEF RemoveExtra, Unlink
    <3>3. QED
      BY <1>7, <3>1, <3>2
  <2>4. View(dst)' = None
    BY <2>1, <2>3 DEF View
  <2>5. quiet' => source' = None
    BY <1>1, <2>1, <2>2 DEF CallInv
  <2>6. QED
    BY <2>4, <2>5 DEF BackupRight, SameFile
<1>8. CASE (RetainFile \/ RenameFile) /\ pc' = "done"
  <2>1. pc = "retain" /\ SameSecurity(srcFile, dstFile) /\ UNCHANGED disk
    BY <1>8 DEF RetainFile, RenameFile, AfterRetain, files
  <2>2. /\ dstFile = Scan(dst) /\ dstFile # None /\ dst \in All /\ srcFile # None
        /\ SameAttributes(srcFile, dstFile) /\ DstSame({"main"}) /\ DstSame({"alt"})
        /\ ~dstFile.data.unsupported
    BY <1>1, <1>2, <2>1 DEF ScanInv, Untouched, CompareInv
  <2>3. /\ backups[dst] # None
        /\ dstFile = [name |-> backups[dst].name, id |-> backups[dst].id, data |-> disk[backups[dst].id]]
    BY <2>2 DEF Scan
  <2>4. UNCHANGED <<source, dst, srcFile, quiet>>
    BY <1>8, CallGoesOn DEF place, match
  <2>5. backups'[dst] # None /\ backups'[dst].name = srcFile.name /\ backups'[dst].id = backups[dst].id
    <3>1. CASE RetainFile
      BY <2>3, <3>1 DEF RetainFile, files
    <3>2. CASE RenameFile
      <4>1. srcFile.name \in Spellings /\ backups[dst].id \in Ids
        BY <2>1, <3>2, Writes
      <4>2. [name |-> srcFile.name, id |-> backups[dst].id] # None
        BY <4>1, ConstantsAssumption
      <4>3. QED
        BY <1>3, <2>2, <3>2, <4>2 DEF RenameFile, Put
    <3>3. QED
      BY <1>8, <3>1, <3>2
  <2>6. /\ quiet => \A part \in {"main", "alt", "times", "security"} :
                      disk'[backups'[dst].id][part] = srcFile.data[part]
        /\ ~disk'[backups'[dst].id].unsupported
    BY <2>1, <2>2, <2>3, <2>5 DEF DstSame, SameAttributes, SameSecurity
  <2>7. QED
    BY <1>8, <2>1, <2>2, <2>4, <2>5, <2>6, EndsRight
<1>9. CASE SetSecurity \/ SetAttributes
  <2>1. /\ dst \in All /\ backups[dst] # None
        /\ backups[dst].id \in Ids /\ disk[backups[dst].id] \in Data
        /\ srcFile # None /\ srcFile.data \in Data
        /\ pc \in {"setSecurity", "setAttributes"}
    BY <1>9, Writes DEF SetSecurity, SetAttributes
  <2>2. pc' = "done" /\ UNCHANGED <<source, backups, dst, srcFile, quiet>>
    BY <1>9, CallGoesOn DEF SetSecurity, SetAttributes, place, match
  <2>3. Target = [name |-> backups[dst].name, data |-> disk[backups[dst].id]]
    BY <2>1 DEF Target, View
  <2>4. CASE SetSecurity
    <3>1. /\ backups[dst].name = srcFile.name /\ ~disk[backups[dst].id].unsupported
          /\ quiet => \A part \in {"main", "alt", "times"} :
                        disk[backups[dst].id][part] = srcFile.data[part]
      BY <1>1, <2>3, <2>4 DEF SetSecurity, TargetInv
    <3>2. disk'[backups[dst].id] = [disk[backups[dst].id] EXCEPT !.security = srcFile.data.security]
      BY <1>3, <2>1, <2>4 DEF SetSecurity
    <3>3. /\ quiet => \A part \in {"main", "alt", "times", "security"} :
                        disk'[backups[dst].id][part] = srcFile.data[part]
          /\ ~disk'[backups[dst].id].unsupported
      BY <2>1, <3>1, <3>2 DEF Data
    <3>4. QED
      BY <2>1, <2>2, <3>1, <3>3, EndsRight
  <2>5. CASE SetAttributes
    <3>1. /\ backups[dst].name = srcFile.name
          /\ quiet => /\ \A part \in {"main", "alt"} :
                           disk[backups[dst].id][part] = srcFile.data[part]
                      /\ ~disk[backups[dst].id].unsupported
      BY <1>1, <2>3, <2>5 DEF SetAttributes, TargetInv
    <3>2. disk'[backups[dst].id] = [disk[backups[dst].id] EXCEPT !.times = srcFile.data.times]
      BY <1>3, <2>1, <2>5 DEF SetAttributes
    <3>3. quiet => /\ \A part \in {"main", "alt", "times"} :
                        disk'[backups[dst].id][part] = srcFile.data[part]
                   /\ ~disk'[backups[dst].id].unsupported
      BY <2>1, <3>1, <3>2 DEF Data
    <3>4. count'["copied"] # 0
      <4>1. \A c \in Counters : count[c] \in Nat
        BY <1>1 DEF TypeOK
      <4>2. QED
        BY <2>5, <4>1 DEF SetAttributes, Event, Counters
    <3>5. QED
      BY <2>1, <2>2, <3>1, <3>3, <3>4, EndsRight
  <2>6. QED
    BY <1>9, <2>4, <2>5
<1>10. CASE CreateHardLink
  <2>1. /\ dst \in All /\ ref \in All /\ backups[ref] # None /\ pc = "link"
        /\ backups[ref].id \in Ids /\ disk[backups[ref].id] \in Data
        /\ srcFile # None /\ srcFile.name \in Spellings /\ srcFile.data \in Data
    BY <1>10, Writes DEF CreateHardLink
  <2>2. /\ RefIsSame /\ refFile = Scan(ref)
        /\ quiet => srcFile.data.main = refFile.data.main
    BY <1>1, <2>1 DEF CompareInv, ScanInv
  <2>3. refFile.data = disk[backups[ref].id]
    BY <2>2 DEF RefIsSame, Scan
  <2>4. refFile.data.alt = srcFile.data.alt
    <3>1. refFile.data.alt \in Streams
      BY <1>1, <2>1, <2>3, ConstantsAssumption DEF StreamInv
    <3>2. srcFile \in Sources /\ Size(srcFile.data.alt) = Size(refFile.data.alt)
      BY <1>1, <2>1, <2>2 DEF TypeOK, RefIsSame, SameAttributes
    <3>3. QED
      BY <3>1, <3>2 DEF StreamsShow
  <2>5. [name |-> srcFile.name, id |-> backups[ref].id] # None
    BY <2>1, ConstantsAssumption
  <2>6. /\ backups'[dst] = [name |-> srcFile.name, id |-> backups[ref].id] /\ disk' = disk
        /\ pc' = "done" /\ UNCHANGED <<source, dst, srcFile, quiet>>
    BY <1>3, <1>10, <2>1 DEF CreateHardLink, Put, place, match
  <2>7. quiet => \A part \in {"main", "alt", "times", "security"} :
                   disk'[backups'[dst].id][part] = srcFile.data[part]
    BY <2>2, <2>3, <2>4, <2>6 DEF RefIsSame, SameAttributes, SameSecurity
  <2>8. count'["createdInHardLinks"] # 0
    <3>1. \A c \in Counters : count[c] \in Nat
      BY <1>1 DEF TypeOK
    <3>2. QED
      BY <1>10, <3>1 DEF CreateHardLink, Event, Counters
  <2>9. QED
    BY <2>1, <2>5, <2>6, <2>7, <2>8, EndsRight
<1>11. QED
  <2>1. \/ pc' # "done" \/ Edit \/ UNCHANGED vars
        \/ (Extra \/ RemoveExtra) /\ pc' = "done"
        \/ (RetainFile \/ RenameFile) /\ pc' = "done"
        \/ SetSecurity \/ SetAttributes \/ CreateHardLink
    BY CallGoesOut DEF Next, Sync, CreateBackup, AddFile, CheckDst, CompareDst, CompareDstStreams,
       DeleteFile, CheckRef, CompareRef, Copy, Goto
  <2>2. QED
    BY <1>4, <1>5, <1>6, <1>7, <1>8, <1>9, <1>10, <2>1

\* A call that ends well leaves the backup of the source as it was scanned, if
\* that has not changed since and alternate streams of one size have the same
\* contents; with the source's security unless it is a copy, with no unsupported
\* attribute unless it is a link to ref; whatever failed, or was killed, before.
THEOREM BackupIsRight == ASSUME StreamsShow PROVE Spec => []BackupRight
<1>1. Init => BackupRight
  BY DEF Init, BackupRight
<1>2. StreamsShow
  OBVIOUS
<1>3. IInv /\ BackupRight /\ [Next]_vars => BackupRight'
  BY <1>2, RightStep
<1>4. QED
  BY <1>1, <1>3, Invariance, PTL DEF Spec
LEMMA CountedRight == IInv /\ StatisticsRight /\ [Next]_vars => StatisticsRight'
<1> SUFFICES ASSUME IInv, StatisticsRight, [Next]_vars PROVE StatisticsRight'
  OBVIOUS
<1>1. TypeOK /\ CallInv /\ ScanInv /\ CompareInv /\ TargetInv /\ CountInv
  BY DEF IInv
<1>2. pc # "idle" => dst \in All /\ ref # dst
  BY <1>1 DEF CallInv
<1>3. /\ backups \in [All -> Entry \union {None}] /\ count \in [Counters -> Nat]
      /\ ref \in 0 .. Backups /\ (ref # 0 => ref \in All)
  BY <1>1 DEF TypeOK, All
<1>4. CASE pc' # "done"
  BY <1>4 DEF StatisticsRight
<1>5. CASE Edit \/ UNCHANGED vars
  BY <1>5 DEF Edit, StatisticsRight, vars, files, place, match
<1>6. CASE (Extra \/ RemoveExtra) /\ pc' = "done"
  <2>1. /\ pc # "idle" /\ UNCHANGED <<dst, ref, srcFile, dstFile>> /\ dst \in All
    BY <1>2, <1>6, CallGoesOn DEF place, match
  <2>2. srcFile = None /\ \A c \in Counters : count[c] = 0
    BY <1>1, <1>6 DEF Extra, RemoveExtra, ScanInv, CountInv, Untouched
  <2>3. CASE Extra
    <3>1. dstFile = None /\ Scan(dst) = None /\ UNCHANGED <<backups, count>>
      BY <1>1, <1>6, <2>3 DEF Extra, Goto, ScanInv, Untouched, files
    <3>2. backups[dst] = None
      BY <1>1, <2>1, <3>1, ScanFinds DEF CallInv
    <3>3. QED
      BY <2>1, <2>2, <3>1, <3>2 DEF StatisticsRight, Counters
  <2>4. CASE RemoveExtra
    <3>1. backups'[dst] = None /\ dstFile # None
      BY <1>1, <1>3, <2>1, <2>4 DEF RemoveExtra, Unlink, ScanInv, Untouched
    <3>2. \A c \in Counters : count'[c] = IF c = "removed" THEN 1 ELSE 0
      BY <1>3, <2>2, <2>4 DEF RemoveExtra, Event
    <3>3. QED
      BY <2>1, <2>2, <3>1, <3>2 DEF StatisticsRight, Counters
  <2>5. QED
    BY <1>6, <2>3, <2>4
<1>7. CASE (RetainFile \/ RenameFile) /\ pc' = "done"
  <2>1. pc = "retain" /\ UNCHANGED <<dst, ref, srcFile, dstFile>> /\ dst \in All /\ ref # dst
    BY <1>2, <1>7, CallGoesOn DEF RetainFile, RenameFile, place, match
  <2>2. /\ dstFile = Scan(dst) /\ dstFile # None /\ srcFile # None /\ refFile = Scan(ref)
        /\ \A c \in Counters : count[c] = 0
    BY <1>1, <2>1 DEF ScanInv, CountInv, Untouched
  <2>3. /\ backups[dst] # None
        /\ dstFile = [name |-> backups[dst].name, id |-> backups[dst].id, data |-> disk[backups[dst].id]]
    BY <2>2 DEF Scan
  <2> DEFINE linked == refFile # None /\ IsHardLink(refFile, dstFile)
  <2>4. linked <=> ref # 0 /\ backups[ref] # None /\ backups[ref].id = backups[dst].id
    BY <1>1, <1>3, <2>2, <2>3, ScanFinds DEF IsHardLink, Scan, CallInv
  <2>5. /\ backups'[dst] # None /\ backups'[dst].id = backups[dst].id
        /\ ref # 0 => backups'[ref] = backups[ref]
    <3>1. CASE RetainFile
      BY <2>3, <3>1 DEF RetainFile, files
    <3>2. CASE RenameFile
      <4>1. srcFile.name \in Spellings /\ backups[dst].id \in Ids
        BY <2>1, <3>2, Writes
      <4>2. [name |-> srcFile.name, id |-> backups[dst].id] # None
        BY <4>1, ConstantsAssumption
      <4>3. QED
        BY <1>3, <2>1, <3>2, <4>2 DEF RenameFile, Put
    <3>3. QED
      BY <1>7, <3>1, <3>2
  <2>6. \A c \in Counters : count'[c] =
          IF c = (IF RetainFile THEN "retained" ELSE "updated") \/ (linked /\ c = "inHardLinks") THEN 1 ELSE 0
    <3>1. CASE RetainFile
      BY <1>3, <2>2, <3>1 DEF RetainFile, Event
    <3>2. CASE RenameFile
      <4>1. ~RetainFile
        BY <3>2 DEF RetainFile, RenameFile
      <4>2. QED
        BY <1>3, <2>2, <3>2, <4>1 DEF RenameFile, Event
    <3>3. QED
      BY <1>7, <3>1, <3>2
  <2>7. QED
    BY <2>1, <2>2, <2>4, <2>5, <2>6 DEF StatisticsRight, Counters
<1>8. CASE SetSecurity \/ SetAttributes
  <2>1. /\ dst \in All /\ backups[dst] # None /\ ref # dst /\ srcFile # None
        /\ pc \in {"setSecurity", "setAttributes"}
    BY <1>2, <1>8, Writes DEF SetSecurity, SetAttributes
  <2>2. UNCHANGED <<backups, dst, ref, srcFile, dstFile>>
    BY <1>8, CallGoesOn DEF SetSecurity, SetAttributes, place, match
  <2>3. ~(ref # 0 /\ backups[ref] # None /\ backups[dst].id = backups[ref].id)
    BY <1>1, <1>3, <2>1 DEF TargetInv, Linked
  <2>4. CASE SetSecurity
    <3>1. PICK kept \in {"retained", "updated"} :
            \A c \in Counters : count[c] = IF c = kept THEN 1 ELSE 0
      BY <1>1, <2>4 DEF SetSecurity, CountInv
    <3>2. \A c \in Counters : count'[c] = IF c = kept \/ c = "securityUpdated" THEN 1 ELSE 0
      BY <1>3, <2>4, <3>1 DEF SetSecurity, Event
    <3>3. QED
      BY <2>1, <2>2, <2>3, <3>1, <3>2 DEF StatisticsRight, Counters
  <2>5. CASE SetAttributes
    <3>1. \A c \in Counters : count[c] =
            IF c \in (IF dstFile = None THEN {"added"} ELSE {"replaced", "updated"}) THEN 1 ELSE 0
      BY <1>1, <2>5 DEF SetAttributes, CountInv
    <3>2. \A c \in Counters : count'[c] = IF c = "copied" THEN 1 ELSE count[c]
      BY <1>3, <2>5, <3>1 DEF SetAttributes, Event, Counters
    <3>3. QED
      BY <2>1, <2>2, <2>3, <3>1, <3>2 DEF StatisticsRight, Counters
  <2>6. QED
    BY <1>8, <2>4, <2>5
<1>9. CASE CreateHardLink
  <2>1. /\ dst \in All /\ ref \in All /\ ref # dst /\ backups[ref] # None /\ pc = "link"
        /\ backups[ref].id \in Ids /\ srcFile # None /\ srcFile.name \in Spellings
    BY <1>2, <1>9, Writes DEF CreateHardLink
  <2>2. [name |-> srcFile.name, id |-> backups[ref].id] # None
    BY <2>1, ConstantsAssumption
  <2>3. /\ backups'[dst] = [name |-> srcFile.name, id |-> backups[ref].id]
        /\ backups'[ref] = backups[ref] /\ UNCHANGED <<dst, ref, srcFile, dstFile>>
    BY <1>3, <1>9, <2>1 DEF CreateHardLink, Put, place, match
  <2>4. \A c \in Counters : count[c] =
          IF c \in (IF dstFile = None THEN {"added"} ELSE {"replaced", "updated"}) THEN 1 ELSE 0
    BY <1>1, <2>1 DEF CountInv, Replacing
  <2>5. \A c \in Counters : count'[c] =
          IF c \in {"inHardLinks", "createdInHardLinks"} THEN 1 ELSE count[c]
    BY <1>3, <1>9, <2>4 DEF CreateHardLink, Event, Counters
  <2>6. ref # 0
    BY <2>1 DEF All
  <2>7. QED
    BY <2>1, <2>2, <2>3, <2>4, <2>5, <2>6 DEF StatisticsRight, Counters
<1>10. QED
  <2>1. \/ pc' # "done" \/ Edit \/ UNCHANGED vars
        \/ (Extra \/ RemoveExtra) /\ pc' = "done"
        \/ (RetainFile \/ RenameFile) /\ pc' = "done"
        \/ SetSecurity \/ SetAttributes \/ CreateHardLink
    BY CallGoesOut DEF Next, Sync, CreateBackup, AddFile, CheckDst, CompareDst, CompareDstStreams,
       DeleteFile, CheckRef, CompareRef, Copy, Goto
  <2>2. QED
    BY <1>4, <1>5, <1>6, <1>7, <1>8, <1>9, <2>1

\* The statistics of a call that ends well are what it has done.
THEOREM StatisticsAreRight == Spec => []StatisticsRight
<1>1. Init => StatisticsRight
  BY DEF Init, StatisticsRight
<1>2. QED
  BY <1>1, CountedRight, Invariance, PTL DEF Spec

-----------------------------------------------------------------------------
(* The other backups. *)

LEMMA SharedStep == IInv /\ KeepsRef /\ SharedInv /\ [Next]_vars => SharedInv'
<1> SUFFICES ASSUME IInv, KeepsRef, SharedInv, [Next]_vars,
                    NEW b \in All, b # newest', Linked(b, newest)'
             PROVE  Linked(newest - 1, newest)'
  BY DEF SharedInv
<1>1. TypeOK /\ CallInv /\ ScanInv
  BY DEF IInv
<1>2. /\ backups \in [All -> Entry \union {None}]
      /\ newest \in Nat /\ All = 1 .. Backups /\ Backups \in Nat
      /\ pc # "idle" => dst = newest /\ ref = newest - 1 /\ dst \in All
  BY <1>1, ConstantsAssumption DEF TypeOK, All, CallInv
<1>3. CASE UNCHANGED <<backups, newest>>
  <2>1. Linked(b, newest) /\ b # newest
    BY <1>3 DEF Linked
  <2>2. QED
    BY <1>3, <2>1 DEF SharedInv, Linked
<1>4. CASE \E r \in 0 .. Backups, d \in All : CreateBackup(r, d)
  <2>1. UNCHANGED backups /\ newest' \in {newest, newest + 1}
    BY <1>2, <1>4 DEF CreateBackup, files
  <2>2. CASE newest' = newest
    BY <1>3, <2>1, <2>2
  <2>3. CASE newest' = newest + 1
    <3>1. newest' \in All /\ backups[newest'] # None
      BY <2>1 DEF Linked
    <3>2. QED
      BY <1>1, <1>2, <2>3, <3>1 DEF CallInv
  <2>4. QED
    BY <2>1, <2>2, <2>3
<1>5. CASE UNCHANGED newest /\ ~UNCHANGED backups /\ pc # "idle"
  <2>1. b # dst /\ backups'[b] = backups[b] /\ newest = dst
    BY <1>2, <1>5, OtherBackups
  <2>2. CASE RemoveExtra \/ DeleteFile
    BY <1>2, <1>5, <2>1, <2>2 DEF RemoveExtra, DeleteFile, Unlink, Linked
  <2>3. CASE RenameFile
    <3>1. backups'[dst].id = backups[dst].id /\ backups[dst] # None /\ dst \in All
      BY <1>2, <2>3, Writes DEF RenameFile, Put
    <3>2. Linked(b, newest)
      BY <1>5, <2>1, <3>1 DEF Linked
    <3>3. Linked(ref, newest)
      BY <1>2, <1>5, <2>1, <3>2 DEF SharedInv
    <3>4. ref # dst /\ ref \in All
      BY <1>1, <1>5, <3>3 DEF CallInv, Linked
    <3>5. backups'[ref] = backups[ref]
      BY <3>4, OtherBackups
    <3>6. QED
      BY <1>2, <1>5, <2>1, <3>1, <3>3, <3>5 DEF Linked
  <2>4. CASE CreateHardLink
    <3>1. dst \in All /\ ref \in All /\ backups[ref] # None /\ ref # dst
      BY <1>1, <1>5, <2>4, Writes DEF CallInv
    <3>2. backups'[ref] = backups[ref] /\ backups'[dst].id = backups[ref].id
      BY <1>2, <2>4, <3>1, OtherBackups DEF CreateHardLink, Put
    <3>3. QED
      BY <1>2, <1>5, <2>1, <3>1, <3>2 DEF Linked
  <2>5. CASE Copy \/ KillCopy
    <3>1. PICK id \in Ids : Unused(id) /\ Put(dst, srcFile.name, id)
      BY <2>5, CopyEffect
    <3>2. backups[b] # None /\ backups[b].id = id
      BY <1>2, <1>5, <2>1, <3>1 DEF Linked, Put
    <3>3. QED
      BY <3>1, <3>2 DEF Unused
  <2>6. QED
    BY <1>5, <2>2, <2>3, <2>4, <2>5, StepKinds, LooksOnly DEF SetSecurity, SetAttributes
<1>6. QED
  <2>1. \/ \E r \in 0 .. Backups, d \in All : CreateBackup(r, d)
        \/ UNCHANGED <<backups, newest>>
        \/ UNCHANGED newest /\ pc # "idle"
    BY CallGoesOn DEF Next, Sync, Unsupported, Return, Fail, KillCopy, End, Edit, vars, files, place
  <2>2. QED
    BY <1>3, <1>4, <1>5, <2>1

LEMMA KeptStep ==
  ASSUME IInv, KeepsRef, SharedInv, [Next]_vars, NEW b \in All, b # dst
  PROVE  View(b)' = View(b)
<1>1. TypeOK /\ CallInv /\ TargetInv
  BY DEF IInv
<1>2. pc = "setSecurity" => ~Linked(b, dst)
  <2> SUFFICES ASSUME pc = "setSecurity", Linked(b, dst) PROVE FALSE
    OBVIOUS
  <2>1. dst = newest /\ ref = newest - 1 /\ ~Linked(dst, ref)
    BY <1>1 DEF CallInv, TargetInv
  <2>2. Linked(ref, dst)
    BY <2>1 DEF SharedInv
  <2>3. QED
    BY <2>1, <2>2 DEF Linked
<1>3. /\ backups'[b] = backups[b]
      /\ backups[b] # None => disk'[backups[b].id] = disk[backups[b].id]
  BY <1>2, OtherBackups
<1>4. QED
  BY <1>3 DEF View

\* As long as each backup is made with the one before as its ref, no step of a
\* call changes what is seen through any other backup.
THEOREM KeepsOthers == ASSUME KeepsRef PROVE Spec => OthersKept
<1>1. KeepsRef
  OBVIOUS
<1>2. Init => SharedInv
  BY DEF Init, SharedInv, Linked
<1>3. IInv /\ SharedInv /\ [Next]_vars => SharedInv'
  BY <1>1, SharedStep
<1>4. IInv /\ SharedInv /\ [Next]_vars => [\A b \in All : b # dst => View(b)' = View(b)]_vars
  BY <1>1, KeptStep
<1>5. QED
  BY <1>2, <1>3, <1>4, Invariance, PTL DEF Spec, OthersKept

-----------------------------------------------------------------------------
(* The refinement. *)

Versions == [name : Spellings, data : Data]
Seen     == [b \in All |-> View(b)]

LEMMA SourceType == ASSUME TypeOK PROVE source \in Versions \union {None}
BY ConstantsAssumption DEF TypeOK, Versions

\* A step changes the backup that is being made only.
LEMMA WritesOne ==
  ASSUME IInv, KeepsRef, SharedInv, [Next]_vars
  PROVE  /\ Seen' \in [All -> Versions \union {None}]
         /\ \A b \in All \ {dst} : Seen'[b] = Seen[b]
<1>1. Seen' \in [All -> Versions \union {None}]
  <2> SUFFICES ASSUME NEW b \in All PROVE View(b)' \in Versions \union {None}
    BY DEF Seen
  <2>1. TypeOK' /\ CallInv'
    BY Inductive DEF IInv
  <2>2. View(b)' \in Versions \union {None}
    <3>1. CASE backups'[b] = None
      BY <3>1 DEF View
    <3>2. CASE backups'[b] # None
      <4>1. backups'[b].name \in Spellings /\ backups'[b].id \in Ids
        BY <2>1, <3>2 DEF TypeOK, Entry
      <4>2. disk'[backups'[b].id] \in Data
        BY <2>1, <3>2, <4>1 DEF TypeOK, CallInv
      <4>3. QED
        BY <3>2, <4>1, <4>2 DEF View, Versions
    <3>3. QED
      BY <3>1, <3>2
  <2>3. QED
    BY <2>2
<1>2. ASSUME NEW b \in All, b # dst PROVE Seen'[b] = Seen[b]
  <2>1. View(b)' = View(b)
    BY <1>2, KeptStep
  <2>2. QED
    BY <2>1 DEF Seen
<1>3. QED
  BY <1>1, <1>2

LEMMA InitRefines == Init => Service!Init
<1> SUFFICES ASSUME Init PROVE Service!Init
  OBVIOUS
<1>1. TypeOK
  BY Initially DEF IInv
<1>2. source \in Versions \union {None}
  BY <1>1, SourceType
<1>3. Seen = [b \in All |-> None]
  BY DEF Init, Seen, View
<1>4. QED
  BY <1>2, <1>3 DEF Init, Seen, Versions, Phase, Service!Init, Service!All, All

LEMMA StepRefines ==
  ASSUME IInv, KeepsRef, SharedInv, BackupRight', [Next]_vars
  PROVE  [Service!Next]_(Service!vars)
<1>1. /\ Seen' \in [All -> Versions \union {None}]
      /\ \A b \in All \ {dst} : Seen'[b] = Seen[b]
  BY WritesOne
<1>2. Service!Write
  BY <1>1 DEF Service!Write, Service!All, All, Seen, Versions
<1>3. pc # "idle" => dst \in All
  BY DEF IInv, CallInv
<1>4. UNCHANGED <<backups, disk>> => Seen' = Seen
  BY DEF Seen, View
<1>5. CASE \E r \in 0 .. Backups, d \in All : CreateBackup(r, d)
  <2>1. PICK r \in 0 .. Backups, d \in All : CreateBackup(r, d)
    BY <1>5
  <2>2. /\ pc = "idle" /\ pc' = "sync" /\ dst' = d /\ quiet'
        /\ UNCHANGED <<source, backups, disk>>
    BY <2>1 DEF CreateBackup, files
  <2>3. Service!Call(d)
    BY <1>4, <2>2 DEF Service!Call, Phase, Seen
  <2>4. QED
    BY <2>3 DEF Service!Next, Service!All, All
<1>6. CASE Edit
  <2>1. source' \in Sources \union {None} /\ UNCHANGED <<backups, disk, dst, pc>> /\ quiet' = (pc = "idle")
    BY <1>6 DEF Edit, place
  <2>2. source' \in Versions \union {None}
    BY <2>1, ConstantsAssumption DEF Versions
  <2>3. Service!Edit
    BY <1>4, <2>1, <2>2 DEF Service!Edit, Phase, Seen, Versions
  <2>4. QED
    BY <2>3 DEF Service!Next
<1>7. CASE UNCHANGED vars
  <2>1. UNCHANGED <<source, backups, disk, dst, pc, quiet>>
    BY <1>7 DEF vars, files, place
  <2>2. QED
    BY <1>4, <2>1 DEF Service!vars, Phase, Seen
<1>8. CASE Unsupported \/ Return \/ Fail \/ KillCopy
  <2>1. pc' = "idle" /\ dst' = 0 /\ quiet' /\ UNCHANGED source
    BY <1>8 DEF Unsupported, Return, Fail, KillCopy, End
  <2>2. Service!Leave
    BY <2>1 DEF Service!Leave, Phase
  <2>3. CASE Return
    <3>1. pc = "done" /\ UNCHANGED <<backups, disk>>
      BY <2>3 DEF Return
    <3>2. Service!Return
      BY <1>4, <2>2, <3>1 DEF Service!Return, Phase, Seen
    <3>3. QED
      BY <3>2 DEF Service!Next
  <2>4. CASE Unsupported \/ Fail \/ KillCopy
    <3>1. pc \notin {"idle", "done"}
      BY <2>4 DEF Unsupported, Fail, KillCopy
    <3>2. Service!Fail
      BY <1>2, <2>2, <3>1 DEF Service!Fail, Phase
    <3>3. QED
      BY <3>2 DEF Service!Next
  <2>5. QED
    BY <1>8, <2>3, <2>4
<1>9. CASE \/ Extra \/ AddFile \/ CheckDst \/ CompareDst \/ CompareDstStreams
            \/ RetainFile \/ CheckRef \/ CompareRef \/ RemoveExtra \/ RenameFile
            \/ SetSecurity \/ DeleteFile \/ CreateHardLink \/ Copy \/ SetAttributes
  <2>1. pc \notin {"idle", "done"} /\ pc' # "idle" /\ UNCHANGED <<source, dst, quiet>>
    <3>1. pc # "done"
      BY <1>9 DEF Extra, AddFile, CheckDst, CompareDst, CompareDstStreams, Supported, RetainFile,
         CheckRef, CompareRef, RemoveExtra, RenameFile, SetSecurity, DeleteFile,
         CreateHardLink, Copy, SetAttributes
    <3>2. QED
      BY <1>9, <3>1, CallGoesOn DEF place
  <2>2. CASE pc' = "done"
    <3>1. dst \in All /\ (quiet => SameFile(View(dst)', source'))
      BY <1>3, <2>1, <2>2 DEF BackupRight
    <3>2. quiet => SameFile(Seen'[dst], source)
      <4>1. Seen'[dst] = View(dst)'
        BY <2>1, <3>1 DEF Seen
      <4>2. QED
        BY <2>1, <3>1, <4>1
    <3>3. Service!Finish
      BY <1>2, <2>1, <2>2, <3>2 DEF Service!Finish, Phase, Seen
    <3>4. QED
      BY <3>3 DEF Service!Next
  <2>3. CASE pc' # "done"
    <3>1. Service!Work
      BY <1>2, <2>1, <2>3 DEF Service!Work, Phase
    <3>2. QED
      BY <3>1 DEF Service!Next
  <2>4. QED
    BY <2>2, <2>3
<1>10. QED
  BY <1>5, <1>6, <1>7, <1>8, <1>9 DEF Next, Sync

\* As long as each backup is made with the one before as its ref, and
\* alternate streams of one size have the same contents: however many backups share a file, calls
\* fail or are killed, the backups are as good as independent copies.
THEOREM Refinement ==
  ASSUME KeepsRef, StreamsShow PROVE Spec => IndependentCopies
<1>1. KeepsRef /\ StreamsShow
  OBVIOUS
<1>2. Init => SharedInv /\ BackupRight
  BY DEF Init, SharedInv, Linked, BackupRight
<1>3. IInv /\ SharedInv /\ [Next]_vars => SharedInv'
  BY <1>1, SharedStep
<1>4. IInv /\ BackupRight /\ [Next]_vars => BackupRight'
  BY <1>1, RightStep
<1>5. IInv /\ SharedInv /\ BackupRight' /\ [Next]_vars => [Service!Next]_(Service!vars)
  BY <1>1, StepRefines
<1>6. QED
  BY InitRefines, <1>2, <1>3, <1>4, <1>5, Invariance, PTL DEF Spec, IndependentCopies, Service!Spec
=============================================================================
