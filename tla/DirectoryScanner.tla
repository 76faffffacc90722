-------------------------- MODULE DirectoryScanner --------------------------
(***************************************************************************)
(* DirectoryScanner: an owner (Backup) orders the scan of a directory and  *)
(* goes on with other work; one worker thread fills the two lists that the *)
(* owner has lent; the owner waits for it before it looks at them.  One    *)
(* mutex and one condition variable, m_stateChanged, on which both wait    *)
(* and which each notifies with notify_one; the notifier does not wait, so *)
(* only the other one can be woken.  A critical section is a step, and so  *)
(* is each access made without the mutex.  A thread whose pc ends in       *)
(* "Wait" is waiting on m_stateChanged.                                    *)
(*                                                                         *)
(* A directory and a list are sets: ScanDirectory takes the entries in     *)
(* the order the file system has them, and ThreeWayMerge sorts the lists   *)
(* before anything is looked up in them.                                   *)
(***************************************************************************)
EXTENDS Integers

CONSTANTS
  Names, Dots,    \* names of entries; "." and ".."
  Streams,        \* names of alternate streams
  Descriptors,    \* security descriptors
  Directories,    \* contents a directory may have
  FlagSets,       \* combinations of Flags in use
  Filters,        \* sets of names that a filter accepts
  OwnerWaits      \* does the owner wait for its scan before the destructor?

\* A FILE_ID_EXTD_DIR_INFO, and what is asked for by the name of the file.
Entry == [name : Names \union Dots, directory : BOOLEAN,
          streams : SUBSET Streams, security : Descriptors]
Flags == {"kFolderSecurity", "kFileSecurity", "kFolderStreams"}

ASSUME ConstantsAssumption ==
  /\ Directories \subseteq SUBSET Entry
  /\ FlagSets \subseteq SUBSET Flags
  /\ Filters \subseteq SUBSET (Names \union Dots)
  /\ OwnerWaits \in BOOLEAN

VARIABLES
  \* the owner: Scan, Wait and the destructor; what its last Wait gave it
  opc, outcome,
  \* m_state
  state,
  \* m_pContext: is there one, its path and parameters, its exceptionPtr
  pending, order, exceptionPtr,
  \* the lists lent to the worker
  directories, files,
  \* the worker: Run and ScanDirectory; the entries it has still to read
  wpc, rest

owner   == <<opc, outcome>>
context == <<pending, order, exceptionPtr>>
lists   == <<directories, files>>
worker  == <<wpc, rest>>
vars    == <<owner, state, context, lists, worker>>

Order == [contents : Directories, flags : FlagSets, filter : Filters]
State == {"Idle", "Running", "Shutdown"}

OwnerPc  == {"out", "run", "runNotify", "waitTest", "waitWait", "take",
             "shutdownNotify", "join", "gone"}
Scanning == {"open", "list", "throw", "store"}
WorkerPc == {"idleTest", "idleWait", "notify", "stopped"} \union Scanning

-----------------------------------------------------------------------------
(* The entries. *)

\* Lines 75-77 and 85-87.
SkippedBug(e, filter) == e.name \notin filter
Skipped(e, filter)    == e.name \in Dots \/ e.name \notin filter

\* Lines 89-134 and 247-260.  The streams are alternate ones: the first of a
\* file is passed over, that of a directory is not.
ScannedFile(e, flags) ==
  [name      |-> e.name,
   directory |-> e.directory,
   streams   |-> IF ~e.directory \/ "kFolderStreams" \in flags THEN e.streams ELSE {},
   security  |-> IF (IF e.directory THEN "kFolderSecurity" ELSE "kFileSecurity") \in flags
                 THEN {e.security} ELSE {}]

Scanned == [name : Names, directory : BOOLEAN,
            streams : SUBSET Streams, security : SUBSET Descriptors]

Init ==
  /\ opc = "out" /\ outcome = "none"
  /\ state = "Idle"
  /\ pending = FALSE /\ order \in Order /\ exceptionPtr = FALSE
  /\ directories = {} /\ files = {}
  /\ wpc = "idleTest" /\ rest = {}

-----------------------------------------------------------------------------
(* The owner. *)

\* Lines 356-359, with two empty lists and never before the last scan has
\* been waited for.
Scan ==
  /\ opc = "out" /\ ~pending
  /\ pending' = TRUE /\ order' \in Order /\ exceptionPtr' = FALSE
  /\ directories' = {} /\ files' = {}
  /\ opc' = "run" /\ outcome' = "none"
  /\ UNCHANGED <<state, worker>>

\* Lines 362-365.
SetRunning ==
  /\ opc = "run"
  /\ state' = "Running" /\ opc' = "runNotify"
  /\ UNCHANGED <<outcome, context, lists, worker>>

NotifyWorkerBug == UNCHANGED wpc
NotifyWorker == wpc' = IF wpc = "idleWait" THEN "idleTest" ELSE wpc

\* Line 366.
NotifyRunning ==
  /\ opc = "runNotify"
  /\ NotifyWorker /\ opc' = "out"
  /\ UNCHANGED <<outcome, state, context, lists, rest>>

\* Line 369, with or without a scan to wait for.
Wait ==
  /\ opc = "out"
  /\ opc' = "waitTest"
  /\ UNCHANGED <<outcome, state, context, lists, worker>>

\* Lines 370-380: test and wait are one critical section.
WaitForIdle ==
  /\ opc = "waitTest"
  /\ opc' = IF state = "Running" THEN "waitWait"
            ELSE IF state = "Shutdown" THEN "out" ELSE "take"
  /\ UNCHANGED <<outcome, state, context, lists, worker>>

ResultBug == IF pending THEN "lists" ELSE outcome
Result == IF ~pending THEN outcome ELSE IF exceptionPtr THEN "exception" ELSE "lists"

\* Lines 382-388: the Context is looked at without the mutex, and deleted.
TakeResult ==
  /\ opc = "take"
  /\ outcome' = Result /\ pending' = FALSE /\ exceptionPtr' = FALSE
  /\ opc' = "out"
  /\ UNCHANGED <<order, state, lists, worker>>

\* Lines 342-346.
Shutdown ==
  /\ opc = "out" /\ (OwnerWaits => ~pending)
  /\ state' = "Shutdown" /\ opc' = "shutdownNotify"
  /\ UNCHANGED <<outcome, context, lists, worker>>

\* Line 348.
NotifyShutdown ==
  /\ opc = "shutdownNotify"
  /\ NotifyWorker /\ opc' = "join"
  /\ UNCHANGED <<outcome, state, context, lists, rest>>

\* Lines 349-354.
Join ==
  /\ opc = "join" /\ wpc = "stopped"
  /\ opc' = "gone"
  /\ UNCHANGED <<outcome, state, context, lists, worker>>

-----------------------------------------------------------------------------
(* The worker. *)

\* Lines 393-403.
WaitForOrder ==
  /\ wpc = "idleTest"
  /\ wpc' = IF state = "Idle" THEN "idleWait"
            ELSE IF state = "Shutdown" THEN "stopped" ELSE "open"
  /\ UNCHANGED <<owner, state, context, lists, rest>>

\* Lines 58-61.
OpenDirectory ==
  /\ wpc = "open"
  /\ \/ wpc' = "list" /\ rest' = order.contents
     \/ wpc' = "throw" /\ UNCHANGED rest
  /\ UNCHANGED <<owner, state, context, lists>>

\* Lines 73-147: an entry is skipped, or added to one of the lists.
ListEntry ==
  /\ wpc = "list"
  /\ \E e \in rest :
       /\ rest' = rest \ {e}
       /\ IF Skipped(e, order.filter)
          THEN UNCHANGED lists
          ELSE LET f == {ScannedFile(e, order.flags)}
               IN  IF e.directory THEN directories' = directories \union f /\ UNCHANGED files
                                  ELSE files' = files \union f /\ UNCHANGED directories
  /\ UNCHANGED <<owner, state, context, wpc>>

\* Lines 66-69, 94-97, 111-113, 116-118 and 130-132: reading the directory, the streams or
\* the security of an entry fails.
FailScan ==
  /\ wpc = "list"
  /\ wpc' = "throw"
  /\ UNCHANGED <<owner, state, context, lists, rest>>

\* Lines 66-71, no more files.
EndOfDirectory ==
  /\ wpc = "list" /\ rest = {}
  /\ wpc' = "store"
  /\ UNCHANGED <<owner, state, context, lists, rest>>

\* Lines 408-410.
StoreException ==
  /\ wpc = "throw"
  /\ exceptionPtr' = TRUE /\ wpc' = "store"
  /\ UNCHANGED <<owner, state, pending, order, lists, rest>>

\* Lines 412-416: whatever m_state is, it becomes idle.
SetIdle ==
  /\ wpc = "store"
  /\ state' = "Idle" /\ wpc' = "notify"
  /\ UNCHANGED <<owner, context, lists, rest>>

WokenBug(pc) == IF pc = "waitWait" THEN "take" ELSE pc
Woken(pc)    == IF pc = "waitWait" THEN "waitTest" ELSE pc

\* Line 418.
NotifyIdle ==
  /\ wpc = "notify"
  /\ opc' = Woken(opc) /\ wpc' = "idleTest"
  /\ UNCHANGED <<outcome, state, context, lists, rest>>

-----------------------------------------------------------------------------
\* A wait may return without a notification.
Spurious ==
  \/ /\ opc = "waitWait" /\ opc' = Woken(opc)
     /\ UNCHANGED <<outcome, state, context, lists, worker>>
  \/ /\ wpc = "idleWait" /\ NotifyWorker
     /\ UNCHANGED <<owner, state, context, lists, rest>>

Caller == Scan \/ Wait \/ Shutdown
Owner  == \/ SetRunning \/ NotifyRunning \/ WaitForIdle \/ TakeResult
          \/ NotifyShutdown \/ Join
Worker == \/ WaitForOrder \/ OpenDirectory \/ ListEntry \/ FailScan
          \/ EndOfDirectory \/ StoreException \/ SetIdle \/ NotifyIdle

Next == Caller \/ Owner \/ Worker \/ Spurious

\* Both threads go on when they can; the owner need not order, wait or end.
Fairness == WF_vars(Owner) /\ WF_vars(Worker)

Spec == Init /\ [][Next]_vars /\ Fairness

-----------------------------------------------------------------------------
(* Properties. *)

TypeOK ==
  /\ opc \in OwnerPc /\ outcome \in {"none", "lists", "exception"}
  /\ state \in State
  /\ pending \in BOOLEAN /\ order \in Order /\ exceptionPtr \in BOOLEAN
  /\ directories \subseteq Scanned /\ files \subseteq Scanned
  /\ wpc \in WorkerPc /\ rest \subseteq Entry

\* The worker has a Context as long as it uses it (lines 407-410): Wait takes
\* it away only after the scan, and no Wait returns while the scan goes on.
ContextInUse ==
  wpc \in Scanning => pending /\ opc \notin {"run", "take"}

\* The assert of line 357: after a Wait the next Scan finds the scanner idle.
ScanWhenIdle == opc = "out" /\ ~pending => state = "Idle"

\* What an order asks for, said without the scan.
Listed(S, o) == {ScannedFile(e, o.flags) : e \in {x \in S : x.name \in o.filter \ Dots}}
ListingOf(S, o) ==
  [directories |-> {f \in Listed(S, o) : f.directory},
   files       |-> {f \in Listed(S, o) : ~f.directory}]
Listing(o) == ListingOf(o.contents, o)

\* What a Wait without an exception hands over is the whole directory, and
\* of this order, not of an earlier one.
WholeListing ==
  opc = "take" /\ pending /\ ~exceptionPtr
    => [directories |-> directories, files |-> files] = Listing(order)

\* Every order is answered once and right, and no answer changes afterwards,
\* as would the lists if the worker went on filling them.
NoListing == [directories |-> {}, files |-> {}]
Service == INSTANCE ScanService WITH
  Orders  <- Order,
  open    <- pending,
  answer  <- outcome,
  listing <- IF outcome = "lists" THEN [directories |-> directories, files |-> files]
             ELSE NoListing

Implements == Service!Spec

\* A Wait comes to its end: no notification is lost between the two threads.
WaitEnds == opc \in {"waitTest", "waitWait"} ~> opc = "out"

\* The destructor comes to its end.
ShutdownCompletes == opc = "shutdownNotify" ~> opc = "gone"

-----------------------------------------------------------------------------
(* The inductive invariant. *)

\* The state says whose turn it is.
Ending == {"shutdownNotify", "join", "gone"}
TurnInv ==
  /\ wpc \in Scanning => pending /\ state \in {"Running", "Shutdown"}
  /\ state = "Running" => pending /\ opc \in {"runNotify", "out", "waitTest", "waitWait"}
  /\ opc \in {"run", "take"} \/ (opc = "out" /\ ~pending) => state = "Idle"
  /\ opc = "run" => pending
  /\ state = "Shutdown" \/ wpc = "stopped" => opc \in Ending
  /\ pending => outcome = "none"

\* What the lists hold before, during and after the scan.
Fresh    == opc = "run" \/ wpc = "open" \/ (state = "Running" /\ wpc \notin Scanning)
Complete == \/ wpc = "store"
            \/ state = "Idle" /\ pending /\ opc # "run"
ListsInv ==
  /\ Fresh => directories = {} /\ files = {} /\ ~exceptionPtr
  /\ wpc = "list" =>
       /\ rest \subseteq order.contents /\ ~exceptionPtr
       /\ [directories |-> directories, files |-> files]
            = ListingOf(order.contents \ rest, order)
  /\ Complete /\ ~exceptionPtr =>
       [directories |-> directories, files |-> files] = Listing(order)

IInv == TypeOK /\ TurnInv /\ ListsInv
=============================================================================
