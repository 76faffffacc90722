------------------------- MODULE ForceDeleteProofs -------------------------
(***************************************************************************)
(* The inductive invariant of ForceDelete, and that it implements the      *)
(* removal of one name, for any names, files and directories.              *)
(***************************************************************************)
EXTENDS ForceDelete, TLAPS

\* The initial states satisfy the invariant, with nothing lifted.
LEMMA InitIInv == Init => IInv
<1> SUFFICES ASSUME Init PROVE IInv
  OBVIOUS
<1> USE ConstantsAssumption DEF Init
<1>1. TypeOK
  <2>1. before \in [link : [Names -> Ids \union {None}], readOnly : SUBSET Ids]
    <3>1. readOnly \subseteq Ids
      BY DEF Used
    <3> QED
      BY <3>1
  <2> QED
    BY <2>1 DEF TypeOK, Pc, NoPaths
<1>2. CallInv
  BY DEF CallInv, Looking, Deleting, Resetting
<1>3. NamesInv /\ OnlyTheName
  BY DEF NamesInv, OnlyTheName, Deleting, Resetting
<1> QED
  BY <1>1, <1>2, <1>3 DEF IInv

\* Every step keeps the types.
LEMMA TypeStep == ASSUME IInv, Next PROVE TypeOK'
<1> USE ConstantsAssumption DEF IInv, TypeOK, Pc, disk
<1>1. CASE \E n \in Names : CallForceDelete(n)
  BY <1>1 DEF CallForceDelete, Used
<1>2. CASE GetFileAttributes
  <2>1. file' \in Ids /\ attributes' \in BOOLEAN /\ pc' \in Pc
    BY <1>2 DEF GetFileAttributes, CallInv
  <2> QED
    BY <1>2, <2>1 DEF GetFileAttributes
<1>3. CASE FindFirstFileName
  BY <1>3 DEF FindFirstFileName, Goto, Links, NoPaths
<1>4. CASE FindNextFileName
  BY <1>4 DEF FindNextFileName, Goto, Links
<1>5. CASE LiftReadOnly
  BY <1>5 DEF LiftReadOnly, Goto, SetReadOnly
<1>6. CASE Delete
  BY <1>6 DEF Delete, Goto, Used, CallInv
<1>7. CASE FailDelete \/ SecondIsGone
  BY <1>7 DEF FailDelete, SecondIsGone, Goto
<1>8. CASE Restore
  BY <1>8 DEF Restore, Throw, SetReadOnly, Used, CallInv
<1>9. CASE ResetSecond
  BY <1>9 DEF ResetSecond, Goto, SetReadOnly, Used, NamesInv, Resetting
<1>10. CASE ResetFirst
  BY <1>10 DEF ResetFirst, Goto, SetReadOnly, Used, NamesInv, Resetting
<1>11. CASE Fail \/ FailReset
  BY <1>11 DEF Fail, FailReset, Throw
<1>12. CASE Return \/ Kill
  <2>1. Leave
    BY <1>12 DEF Return, Kill
  <2>2. Used(link') = Used(link)
    BY <2>1 DEF Leave, Used
  <2> QED
    BY <2>1, <2>2 DEF Leave, NoPaths
<1> QED
  BY <1>1, <1>2, <1>3, <1>4, <1>5, <1>6, <1>7, <1>8, <1>9, <1>10, <1>11, <1>12 DEF Next

\* Every step keeps what the call knows of its file.
LEMMA CallStep == ASSUME IInv, Next PROVE CallInv'
<1> USE ConstantsAssumption
    DEF IInv, TypeOK, CallInv, disk, Looking, Deleting, Resetting, Lifted
<1>1. CASE \E n \in Names : CallForceDelete(n)
  BY <1>1 DEF CallForceDelete
<1>2. CASE GetFileAttributes
  <2>1. ~attributes /\ attributes' = (file' \in readOnly) /\ Lifted = {} /\ Lifted' = {}
    BY <1>2 DEF GetFileAttributes
  <2>2. pc' \in Looking => attributes'
    BY <1>2 DEF GetFileAttributes
  <2> QED
    BY <1>2, <2>1, <2>2 DEF GetFileAttributes
<1>3. CASE FindFirstFileName
  BY <1>3 DEF FindFirstFileName, Goto
<1>4. CASE FindNextFileName
  BY <1>4 DEF FindNextFileName, Goto
<1>5. CASE LiftReadOnly
  BY <1>5 DEF LiftReadOnly, Goto, SetReadOnly, Used
<1>6. CASE Delete
  <2> DEFINE first == alternativePath.first
             second == alternativePath.second
  <2>1. /\ file = link[path] /\ file # None /\ file \notin readOnly
        /\ link = before.link /\ readOnly \union Lifted = before.readOnly
        /\ link' = [link EXCEPT ![path] = None] /\ readOnly' = readOnly \intersect Used(link')
        /\ before' = before /\ file' = file /\ path' = path /\ attributes' = attributes
    BY <1>6 DEF Delete, Goto
  <2>2. pc' = "resetSecond" => attributes
    BY <1>6 DEF Delete, Goto, NamesInv, NoPaths
  <2>3. \A m, n \in Names : link'[m] = link'[n] /\ link'[m] \in Directories => m = n
    BY <2>1
  <2>4. pc' = "resetSecond" => Lifted' = Lifted \intersect Used(link')
    BY <1>6, <2>1, <2>2 DEF Delete, Used
  <2>5. pc' = "resetSecond" => readOnly' \union Lifted' = before.readOnly \intersect Used(link')
    BY <2>1, <2>4
  <2> QED
    BY <1>6, <2>1, <2>2, <2>3, <2>5 DEF Delete, Goto, Used
<1>7. CASE FailDelete \/ SecondIsGone
  BY <1>7 DEF FailDelete, SecondIsGone, Goto
<1>8. CASE Restore
  BY <1>8 DEF Restore, Throw, SetReadOnly
<1>9. CASE ResetSecond
  BY <1>9 DEF ResetSecond, Goto, SetReadOnly
<1>10. CASE ResetFirst
  BY <1>10 DEF ResetFirst, Goto, SetReadOnly
<1>11. CASE Fail \/ FailReset
  BY <1>11 DEF Fail, FailReset, Throw
<1>12. CASE Return \/ Kill
  BY <1>12 DEF Return, Kill, Leave, NoPaths
<1> QED
  BY <1>1, <1>2, <1>3, <1>4, <1>5, <1>6, <1>7, <1>8, <1>9, <1>10, <1>11, <1>12 DEF Next

\* Every step keeps what the call knows of the names of the file.
LEMMA NamesStep == ASSUME IInv, Next PROVE NamesInv'
<1> USE ConstantsAssumption
    DEF IInv, TypeOK, CallInv, NamesInv, disk, Looking, Deleting, Resetting, Links
<1>1. CASE \E n \in Names : CallForceDelete(n)
  BY <1>1 DEF CallForceDelete
<1>2. CASE GetFileAttributes
  BY <1>2 DEF GetFileAttributes, Used
<1>3. CASE FindFirstFileName
  BY <1>3 DEF FindFirstFileName, Goto, NoPaths
<1>4. CASE FindNextFileName
  BY <1>4 DEF FindNextFileName, Goto
<1>5. CASE LiftReadOnly
  BY <1>5 DEF LiftReadOnly, Goto, SetReadOnly
<1>6. CASE Delete
  <2>1. /\ file = link[path] /\ file # None /\ path \in Names /\ path' = path
        /\ link' = [link EXCEPT ![path] = None] /\ file' = file
        /\ alternativePath' = alternativePath /\ pc' \in {"resetSecond", "done"}
    BY <1>6 DEF Delete, Goto
  <2>2. pc' = "resetSecond" =>
          /\ alternativePath.first \in Links(file)
          /\ alternativePath.second \in Links(file) \ {alternativePath.first}
    BY <1>6 DEF Delete, Goto, NoPaths
  <2> QED
    BY <2>1, <2>2
<1>7. CASE FailDelete \/ SecondIsGone
  BY <1>7 DEF FailDelete, SecondIsGone, Goto
<1>8. CASE Restore \/ Fail \/ FailReset
  BY <1>8 DEF Restore, Fail, FailReset, Throw
<1>9. CASE ResetSecond \/ ResetFirst
  BY <1>9 DEF ResetSecond, ResetFirst, Goto
<1>10. CASE Return \/ Kill
  BY <1>10 DEF Return, Kill, Leave
<1> QED
  BY <1>1, <1>2, <1>3, <1>4, <1>5, <1>6, <1>7, <1>8, <1>9, <1>10 DEF Next

\* Only Delete and the two ways of setting READONLY back end a call well.
LEMMA OnlyTheNameStep == ASSUME IInv, Next PROVE OnlyTheName'
<1> USE ConstantsAssumption
    DEF IInv, TypeOK, CallInv, disk, Looking, Deleting, Resetting, OnlyTheName, Lifted
<1>1. CASE Delete
  BY <1>1 DEF Delete, Goto, NamesInv, NoPaths, Links, Used
<1>2. CASE ResetSecond
  BY <1>2 DEF ResetSecond, Goto, SetReadOnly, NamesInv, Used
<1>3. CASE ResetFirst
  BY <1>3 DEF ResetFirst, Goto, SetReadOnly, NamesInv, Used
<1>4. CASE Restore \/ Fail \/ FailReset
  BY <1>4 DEF Restore, Fail, FailReset, Throw
<1>5. CASE \/ \E n \in Names : CallForceDelete(n)
           \/ GetFileAttributes \/ FindFirstFileName \/ FindNextFileName
           \/ LiftReadOnly \/ FailDelete \/ SecondIsGone \/ Return \/ Kill
  BY <1>5 DEF CallForceDelete, GetFileAttributes, FindFirstFileName, FindNextFileName,
              LiftReadOnly, FailDelete, SecondIsGone, Return, Kill, Leave, Goto
<1> QED
  BY <1>1, <1>2, <1>3, <1>4, <1>5 DEF Next

\* The inductive invariant holds.
THEOREM Invariance == Spec => []IInv
<1>1. IInv /\ [Next]_vars => IInv'
  <2> SUFFICES ASSUME IInv, [Next]_vars PROVE IInv'
    OBVIOUS
  <2>1. CASE Next
    BY <2>1, TypeStep, CallStep, NamesStep, OnlyTheNameStep DEF IInv
  <2>2. CASE UNCHANGED vars
    BY <2>2 DEF vars, disk, IInv, TypeOK, CallInv, NamesInv, OnlyTheName, Lifted, Links, Used
  <2> QED
    BY <2>1, <2>2
<1> QED
  BY <1>1, InitIInv, PTL DEF Spec

\* Every variable keeps its type; READONLY is never set for a file that has
\* gone, nor by a name that has.
THEOREM TypeCorrect == Spec => []TypeOK
<1>1. IInv => TypeOK
  BY DEF IInv
<1> QED
  BY <1>1, Invariance, PTL

\* A call without an exception has removed its name and nothing else.
THEOREM RemovesOnlyTheName == Spec => []OnlyTheName
<1>1. IInv => OnlyTheName
  BY DEF IInv
<1> QED
  BY <1>1, Invariance, PTL

-----------------------------------------------------------------------------
(* The refinement. *)

\* At first nothing is lifted.
LEMMA InitAbstract == Init => Abstract!Init
  BY DEF Init, Abstract!Init, Lifted, Used, Abstract!Used

\* A step removes a name, loses READONLY where it cannot be helped, or changes
\* nothing of the abstract disk.
LEMMA StepAbstract ==
  ASSUME IInv, IInv', [Next]_vars
  PROVE  [Abstract!Next]_<<link, readOnly \union Lifted, reliable>>
<1> DEFINE same == UNCHANGED <<link, readOnly \union Lifted, reliable>>
<1> USE ConstantsAssumption
    DEF IInv, TypeOK, CallInv, disk, Looking, Deleting, Resetting, Lifted
<1>1. CASE \E n \in Names : CallForceDelete(n)
  BY <1>1 DEF CallForceDelete
<1>2. CASE GetFileAttributes
  BY <1>2 DEF GetFileAttributes
<1>3. CASE FindFirstFileName \/ FindNextFileName
  BY <1>3 DEF FindFirstFileName, FindNextFileName, Goto
<1>4. CASE LiftReadOnly
  BY <1>4 DEF LiftReadOnly, Goto, SetReadOnly, Used
<1>5. CASE Delete
  <2>1. Abstract!Remove(path)
    BY <1>5 DEF Delete, Goto, Used, Abstract!Remove, Abstract!Used, NamesInv, Links, NoPaths
  <2> QED
    BY <1>5, <2>1 DEF Delete, Abstract!Next
<1>6. CASE FailDelete \/ SecondIsGone
  BY <1>6 DEF FailDelete, SecondIsGone, Goto
<1>7. CASE Restore
  BY <1>7 DEF Restore, Throw, SetReadOnly, Used
<1>8. CASE ResetSecond \/ ResetFirst
  BY <1>8 DEF ResetSecond, ResetFirst, Goto, SetReadOnly, NamesInv, Used
<1>9. CASE Fail \/ Return
  BY <1>9 DEF Fail, Return, Throw, Leave
<1>10. CASE FailReset \/ Kill
  <2>1. CASE Lifted = {}
    BY <1>10, <2>1 DEF FailReset, Kill, Throw, Leave
  <2>2. CASE Lifted # {}
    <3>1. ~reliable
      BY <1>10, <2>2 DEF FailReset, Kill, NamesInv
    <3>2. file \in Ids /\ Abstract!Lose(file)
      BY <1>10, <2>2, <3>1 DEF FailReset, Kill, Throw, Leave, Abstract!Lose, Used
    <3> QED
      BY <3>2 DEF Abstract!Next
  <2> QED
    BY <2>1, <2>2
<1>11. CASE UNCHANGED vars
  BY <1>11 DEF vars, Used
<1> QED
  BY <1>1, <1>2, <1>3, <1>4, <1>5, <1>6, <1>7, <1>8, <1>9, <1>10, <1>11 DEF Next

\* ForceDelete implements the removal of one name in one step.
THEOREM Refinement == Spec => Implements
  BY Invariance, InitAbstract, StepAbstract, PTL DEF Spec, Implements, Abstract!Spec
=============================================================================
