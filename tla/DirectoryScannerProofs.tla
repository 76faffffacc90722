----------------------- MODULE DirectoryScannerProofs -----------------------
(***************************************************************************)
(* DirectoryScanner for every directory, filter and combination of flags,  *)
(* whether or not its owner waits before the destructor.                   *)
(***************************************************************************)
EXTENDS DirectoryScanner, TLAPS

USE DEF OwnerPc, WorkerPc, Scanning, State

\* An entry that is not skipped is listed with what the flags ask for.
LEMMA ListedEntry ==
  ASSUME ConstantsAssumption, NEW o \in Order, NEW e \in o.contents, ~Skipped(e, o.filter)
  PROVE  ScannedFile(e, o.flags) \in Scanned
BY DEF Order, ConstantsAssumption, Entry, Skipped, ScannedFile, Scanned

\* The types hold initially.
LEMMA TypeInit == Init => TypeOK
BY DEF Init, TypeOK

\* Reading one entry more adds it to the list of its kind, or to none.
LEMMA OneEntryMore ==
  ASSUME NEW o \in Order, NEW rest1, rest1 \subseteq o.contents, NEW e \in rest1
  PROVE  LET before == ListingOf(o.contents \ rest1, o)
             after  == ListingOf(o.contents \ (rest1 \ {e}), o)
             f      == {ScannedFile(e, o.flags)}
         IN  /\ Skipped(e, o.filter) => after = before
             /\ ~Skipped(e, o.filter) /\ e.directory =>
                  /\ after.directories = before.directories \union f
                  /\ after.files = before.files
             /\ ~Skipped(e, o.filter) /\ ~e.directory =>
                  /\ after.files = before.files \union f
                  /\ after.directories = before.directories
<1> DEFINE S == o.contents \ rest1
           T == o.contents \ (rest1 \ {e})
<1>1. T = S \union {e}
  OBVIOUS
<1>2. ScannedFile(e, o.flags).directory = e.directory
  BY DEF ScannedFile
<1>3. Skipped(e, o.filter) <=> e.name \notin o.filter \ Dots
  BY DEF Skipped
<1> HIDE DEF S, T
<1>4. CASE Skipped(e, o.filter)
  <2>1. Listed(T, o) = Listed(S, o)
    BY <1>1, <1>3, <1>4 DEF Listed
  <2>2. QED
    BY <1>4, <2>1 DEF ListingOf, S, T
<1>5. CASE ~Skipped(e, o.filter)
  <2>1. Listed(T, o) = Listed(S, o) \union {ScannedFile(e, o.flags)}
    BY <1>1, <1>3, <1>5 DEF Listed
  <2>2. /\ ListingOf(T, o).directories = {f \in Listed(T, o) : f.directory}
        /\ ListingOf(T, o).files = {f \in Listed(T, o) : ~f.directory}
        /\ ListingOf(S, o).directories = {f \in Listed(S, o) : f.directory}
        /\ ListingOf(S, o).files = {f \in Listed(S, o) : ~f.directory}
    BY DEF ListingOf
  <2>3. CASE e.directory
    BY <1>2, <1>5, <2>1, <2>2, <2>3 DEF S, T
  <2>4. CASE ~e.directory
    BY <1>2, <1>5, <2>1, <2>2, <2>4 DEF S, T
  <2>5. QED
    BY <2>3, <2>4
<1>6. QED
  BY <1>4, <1>5

\* Every step keeps the types.
LEMMA TypeStep == IInv /\ [Next]_vars => TypeOK'
<1> SUFFICES ASSUME IInv, [Next]_vars PROVE TypeOK'
  OBVIOUS
<1> USE DEF IInv, TypeOK, owner, context, lists, worker
<1>1. CASE Scan
  BY <1>1 DEF Scan
<1>2. CASE Wait
  BY <1>2 DEF Wait
<1>3. CASE Shutdown
  BY <1>3 DEF Shutdown
<1>4. CASE SetRunning
  BY <1>4 DEF SetRunning
<1>5. CASE NotifyRunning
  BY <1>5 DEF NotifyRunning, NotifyWorker
<1>6. CASE WaitForIdle
  BY <1>6 DEF WaitForIdle
<1>7. CASE TakeResult
  BY <1>7 DEF TakeResult, Result
<1>8. CASE NotifyShutdown
  BY <1>8 DEF NotifyShutdown, NotifyWorker
<1>9. CASE Join
  BY <1>9 DEF Join
<1>10. CASE WaitForOrder
  BY <1>10 DEF WaitForOrder
<1>11. CASE OpenDirectory
  BY <1>11, ConstantsAssumption DEF OpenDirectory, ConstantsAssumption, Order
<1>12. CASE ListEntry
  <2>1. PICK e \in rest :
          /\ rest' = rest \ {e}
          /\ Skipped(e, order.filter) => directories' = directories /\ files' = files
          /\ ~Skipped(e, order.filter) =>
               \/ directories' = directories \union {ScannedFile(e, order.flags)} /\ files' = files
               \/ files' = files \union {ScannedFile(e, order.flags)} /\ directories' = directories
    BY <1>12 DEF ListEntry
  <2>2. e \in order.contents
    BY <1>12 DEF ListEntry, ListsInv
  <2>3. ~Skipped(e, order.filter) => ScannedFile(e, order.flags) \in Scanned
    BY <2>2, ListedEntry, ConstantsAssumption
  <2>4. directories' \subseteq Scanned /\ files' \subseteq Scanned
    <3>1. directories \subseteq Scanned /\ files \subseteq Scanned
      OBVIOUS
    <3>2. CASE directories' = directories /\ files' = files
      BY <3>1, <3>2
    <3>3. CASE /\ ~Skipped(e, order.filter)
               /\ \/ directories' = directories \union {ScannedFile(e, order.flags)} /\ files' = files
                  \/ files' = files \union {ScannedFile(e, order.flags)} /\ directories' = directories
      <4> DEFINE f == ScannedFile(e, order.flags)
      <4>1. f \in Scanned
        BY <2>3, <3>3
      <4>2. {f} \subseteq Scanned
        BY <4>1
      <4> HIDE DEF f
      <4>3. directories \union {f} \subseteq Scanned /\ files \union {f} \subseteq Scanned
        BY <3>1, <4>2
      <4>4. QED
        BY <3>1, <3>3, <4>3 DEF f
    <3>4. QED
      BY <2>1, <3>2, <3>3
  <2>5. QED
    BY <1>12, <2>1, <2>4 DEF ListEntry
<1>13. CASE FailScan
  BY <1>13 DEF FailScan
<1>14. CASE EndOfDirectory
  BY <1>14 DEF EndOfDirectory
<1>15. CASE StoreException
  BY <1>15 DEF StoreException
<1>16. CASE SetIdle
  BY <1>16 DEF SetIdle
<1>17. CASE NotifyIdle
  BY <1>17 DEF NotifyIdle, Woken
<1>18. CASE Spurious
  BY <1>18 DEF Spurious, NotifyWorker, Woken
<1>19. CASE UNCHANGED vars
  BY <1>19 DEF vars
<1>20. QED
  BY <1>1, <1>2, <1>3, <1>4, <1>5, <1>6, <1>7, <1>8, <1>9, <1>10, <1>11, <1>12, <1>13, <1>14, <1>15, <1>16, <1>17, <1>18, <1>19 DEF Next, Caller, Owner, Worker

\* Every step hands the turn on as TurnInv says.
LEMMA TurnStep == IInv /\ [Next]_vars => TurnInv'
<1> SUFFICES ASSUME IInv, [Next]_vars PROVE TurnInv'
  OBVIOUS
<1> USE DEF IInv, TypeOK, TurnInv, Ending, owner, context, lists, worker
<1>1. CASE Scan
  BY <1>1 DEF Scan
<1>2. CASE Wait
  BY <1>2 DEF Wait
<1>3. CASE Shutdown
  BY <1>3 DEF Shutdown
<1>4. CASE SetRunning
  BY <1>4 DEF SetRunning
<1>5. CASE NotifyRunning
  BY <1>5 DEF NotifyRunning, NotifyWorker
<1>6. CASE WaitForIdle
  BY <1>6 DEF WaitForIdle
<1>7. CASE TakeResult
  BY <1>7 DEF TakeResult, Result
<1>8. CASE NotifyShutdown
  BY <1>8 DEF NotifyShutdown, NotifyWorker
<1>9. CASE Join
  BY <1>9 DEF Join
<1>10. CASE WaitForOrder
  BY <1>10 DEF WaitForOrder
<1>11. CASE OpenDirectory
  BY <1>11 DEF OpenDirectory
<1>12. CASE ListEntry
  BY <1>12 DEF ListEntry
<1>13. CASE FailScan
  BY <1>13 DEF FailScan
<1>14. CASE EndOfDirectory
  BY <1>14 DEF EndOfDirectory
<1>15. CASE StoreException
  BY <1>15 DEF StoreException
<1>16. CASE SetIdle
  BY <1>16 DEF SetIdle
<1>17. CASE NotifyIdle
  BY <1>17 DEF NotifyIdle, Woken
<1>18. CASE Spurious
  BY <1>18 DEF Spurious, NotifyWorker, Woken
<1>19. CASE UNCHANGED vars
  BY <1>19 DEF vars
<1>20. QED
  BY <1>1, <1>2, <1>3, <1>4, <1>5, <1>6, <1>7, <1>8, <1>9, <1>10, <1>11, <1>12, <1>13, <1>14, <1>15, <1>16, <1>17, <1>18, <1>19 DEF Next, Caller, Owner, Worker

\* Every step keeps the lists in line with what has been read.
LEMMA ListsStep == IInv /\ [Next]_vars => ListsInv'
<1> SUFFICES ASSUME IInv, [Next]_vars PROVE ListsInv'
  OBVIOUS
<1> USE DEF IInv, TypeOK, TurnInv, ListsInv, Fresh, Complete, Ending, owner, context, lists, worker
<1>1. CASE Scan
  BY <1>1 DEF Scan
<1>2. CASE Wait
  BY <1>2 DEF Wait
<1>3. CASE Shutdown
  BY <1>3 DEF Shutdown
<1>4. CASE SetRunning
  BY <1>4 DEF SetRunning
<1>5. CASE NotifyRunning
  BY <1>5 DEF NotifyRunning, NotifyWorker
<1>6. CASE WaitForIdle
  BY <1>6 DEF WaitForIdle
<1>7. CASE TakeResult
  BY <1>7 DEF TakeResult, Result
<1>8. CASE NotifyShutdown
  BY <1>8 DEF NotifyShutdown, NotifyWorker
<1>9. CASE Join
  BY <1>9 DEF Join
<1>10. CASE WaitForOrder
  BY <1>10 DEF WaitForOrder
<1>11. CASE OpenDirectory
  <2>1. CASE wpc' = "throw"
    BY <1>11, <2>1 DEF OpenDirectory
  <2>2. CASE wpc' = "list" /\ rest' = order.contents
    <3>1. order.contents \ order.contents = {}
      OBVIOUS
    <3>2. ListingOf(order.contents \ order.contents, order) = [directories |-> {}, files |-> {}]
      BY <3>1 DEF ListingOf, Listed
    <3>3. directories = {} /\ files = {} /\ ~exceptionPtr /\ state # "Idle"
      BY <1>11 DEF OpenDirectory
    <3>4. QED
      BY <1>11, <2>2, <3>2, <3>3 DEF OpenDirectory
  <2>3. QED
    BY <1>11, <2>1, <2>2 DEF OpenDirectory
<1>12. CASE ListEntry
  <2>1. PICK e \in rest :
          /\ rest' = rest \ {e}
          /\ IF Skipped(e, order.filter)
             THEN UNCHANGED lists
             ELSE LET f == {ScannedFile(e, order.flags)}
                  IN  IF e.directory
                      THEN directories' = directories \union f /\ UNCHANGED files
                      ELSE files' = files \union f /\ UNCHANGED directories
    BY <1>12 DEF ListEntry
  <2>2. /\ wpc = "list" /\ rest \subseteq order.contents
        /\ directories = ListingOf(order.contents \ rest, order).directories
        /\ files = ListingOf(order.contents \ rest, order).files
    BY <1>12 DEF ListEntry
  <2>3. /\ directories' = ListingOf(order.contents \ (rest \ {e}), order).directories
        /\ files' = ListingOf(order.contents \ (rest \ {e}), order).files
    BY <2>1, <2>2, OneEntryMore
  <2>4. [directories |-> directories', files |-> files']
          = ListingOf(order.contents \ rest', order)
    BY <2>1, <2>3 DEF ListingOf
  <2>5. QED
    BY <1>12, <2>1, <2>2, <2>4 DEF ListEntry
<1>13. CASE FailScan
  BY <1>13 DEF FailScan
<1>14. CASE EndOfDirectory
  <2>1. order.contents \ rest = order.contents
    BY <1>14 DEF EndOfDirectory
  <2>2. [directories |-> directories, files |-> files] = Listing(order)
    BY <1>14, <2>1 DEF EndOfDirectory, Listing
  <2>3. QED
    BY <1>14, <2>2 DEF EndOfDirectory
<1>15. CASE StoreException
  BY <1>15 DEF StoreException
<1>16. CASE SetIdle
  BY <1>16 DEF SetIdle
<1>17. CASE NotifyIdle
  BY <1>17 DEF NotifyIdle, Woken
<1>18. CASE Spurious
  BY <1>18 DEF Spurious, NotifyWorker, Woken
<1>19. CASE UNCHANGED vars
  BY <1>19 DEF vars
<1>20. QED
  BY <1>1, <1>2, <1>3, <1>4, <1>5, <1>6, <1>7, <1>8, <1>9, <1>10, <1>11, <1>12, <1>13, <1>14, <1>15, <1>16, <1>17, <1>18, <1>19 DEF Next, Caller, Owner, Worker

\* The scanner's inductive invariant.
THEOREM Invariance == Spec => []IInv
<1>1. Init => IInv
  BY TypeInit DEF Init, IInv, TurnInv, ListsInv, Fresh, Complete, Ending
<1>2. IInv /\ [Next]_vars => IInv'
  BY TypeStep, TurnStep, ListsStep DEF IInv
<1>3. QED
  BY <1>1, <1>2, PTL DEF Spec

\* Every variable keeps its type.
THEOREM TypeCorrect == Spec => []TypeOK
BY Invariance, PTL DEF IInv

\* The worker never uses a Context that Wait has deleted.
THEOREM ContextLives == Spec => []ContextInUse
<1>1. IInv => ContextInUse
  BY DEF IInv, TypeOK, TurnInv, ContextInUse
<1>2. QED
  BY <1>1, Invariance, PTL

\* The assert of Scan holds for an owner that waits for its scans.
THEOREM ScansWhenIdle == Spec => []ScanWhenIdle
<1>1. IInv => ScanWhenIdle
  BY DEF IInv, TurnInv, ScanWhenIdle
<1>2. QED
  BY <1>1, Invariance, PTL

\* A Wait without an exception hands over the whole directory.
THEOREM WholeListings == Spec => []WholeListing
<1>1. IInv => WholeListing
  BY DEF IInv, TurnInv, ListsInv, Complete, WholeListing
<1>2. QED
  BY <1>1, Invariance, PTL

\* Every step of the scanner is a step of the service, or a stutter.
LEMMA ServiceStep == IInv /\ [Next]_vars => [Service!Next]_(Service!vars)
<1> SUFFICES ASSUME IInv, [Next]_vars PROVE [Service!Next]_(Service!vars)
  OBVIOUS
<1>1. CASE Scan
  BY <1>1 DEF Scan, Service!Next, Service!Call, NoListing
<1>2. CASE TakeResult
  <2>1. CASE ~pending
    BY <1>2, <2>1 DEF TakeResult, Result, lists, IInv, TypeOK, Service!vars
  <2>2. CASE pending /\ exceptionPtr
    BY <1>2, <2>2 DEF TakeResult, Result, lists, IInv, TurnInv, Service!Next, Service!Answer
  <2>3. CASE pending /\ ~exceptionPtr
    <3>1. [directories |-> directories, files |-> files] = Listing(order)
      BY <1>2, <2>3 DEF TakeResult, IInv, TurnInv, ListsInv, Complete
    <3>2. QED
      BY <1>2, <2>3, <3>1 DEF TakeResult, Result, lists, Service!Next, Service!Answer
  <2>4. QED
    BY <2>1, <2>2, <2>3
<1>3. CASE ListEntry
  BY <1>3 DEF ListEntry, owner, context, IInv, TurnInv, Service!vars
<1>4. CASE \/ Wait \/ Shutdown \/ SetRunning \/ NotifyRunning \/ WaitForIdle \/ NotifyShutdown \/ Join
           \/ WaitForOrder \/ OpenDirectory \/ FailScan \/ EndOfDirectory \/ StoreException
           \/ SetIdle \/ NotifyIdle \/ Spurious \/ UNCHANGED vars
  BY <1>4 DEF Wait, Shutdown, SetRunning, NotifyRunning, WaitForIdle, NotifyShutdown, Join,
     WaitForOrder, OpenDirectory, FailScan, EndOfDirectory, StoreException, SetIdle, NotifyIdle,
     Spurious, vars, owner, context, lists, Service!vars
<1>5. QED
  BY <1>1, <1>2, <1>3, <1>4 DEF Next, Caller, Owner, Worker

\* DirectoryScanner implements ScanService.
THEOREM Refinement == Spec => Implements
<1>1. Init => Service!Init
  BY DEF Init, Service!Init, NoListing
<1>2. QED
  BY <1>1, ServiceStep, Invariance, PTL DEF Spec, Implements, Service!Spec
=============================================================================
