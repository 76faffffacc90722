---------------------------- MODULE FileComparer ----------------------------
(***************************************************************************)
(* FileComparer: the caller's thread ("master") compares two files whose   *)
(* contents two reader threads fetch into a pair of buffers each, so that  *)
(* one half is read while the other is compared.  One mutex, two condition *)
(* variables: m_master (only the master waits on it) and m_clients (both   *)
(* readers).  A critical section is one step; so is each access made       *)
(* without the mutex.  ReadFile, memcmp and the store of an exception_ptr  *)
(* last from the step that enters their pc to the step that leaves it.     *)
(* A thread that waits on a condition variable has a pc that ends in       *)
(* "Wait"; being notified moves it back to the test of its loop.           *)
(***************************************************************************)
EXTENDS Integers, Sequences

CONSTANTS
  Files,              \* contents a file may have, sequences of bytes
  ChunkSizes,         \* least common multiples of the volumes' alignments
  kTargetBufferSize,
  kThreadDone

ASSUME ConstantsAssumption ==
  /\ Files \subseteq Seq(Nat)
  /\ ChunkSizes \subseteq Nat \ {0}
  /\ kTargetBufferSize \in Nat
  /\ kThreadDone \in Nat /\ kThreadDone > kTargetBufferSize

VARIABLES
  \* the master: Compare, CompareFiles and the destructor
  mpc, readIndex, result,
  \* m_state
  state,
  \* the Context of the current call; files are the contents of path[0..1]
  files, bufferSize, size, buffer, exceptionPtr,
  \* the readers: Run and ReadFileContent, offset is the position of hFile
  rpc, writeIndex, offset

master  == <<mpc, readIndex, result>>
context == <<files, bufferSize, size, buffer, exceptionPtr>>
reader  == <<rpc, writeIndex, offset>>
vars    == <<master, state, context, reader>>

Index == {0, 1}
State == {"Idle", "Running", "Abort", "Shutdown"}

MasterLoop == {"dataTest", "dataWait", "excTest", "sizeTest", "cmp",
               "release", "releaseNotify"}
MasterDecided == {"abort", "abortNotify", "join", "joinWait"}
MasterInside == {"start"} \union MasterLoop \union MasterDecided
MasterPc == {"out", "shutdownNotify", "threadJoin", "gone"} \union MasterInside

ReaderInside == {"open", "freeTest", "freeWait", "stateTest", "read",
                 "publish", "notify", "eof", "throw", "abort", "abortNotify"}
ReaderPc == {"idleTest", "idleWait", "leave", "notifyDone", "stopped"}
              \union ReaderInside

\* The buffer size of line 112: the largest multiple of the chunk size.
BufferSizeBug(chunk) == (kTargetBufferSize \div chunk + 1) * chunk
BufferSize(chunk) == (kTargetBufferSize \div chunk) * chunk

\* readIndex ^= 1, writeIndex ^= 1, index ^ 1
Other(x) == 1 - x

\* A buffer holds the bytes of its file from one position on.
Region == [from : Nat, len : 0 .. kTargetBufferSize]
Empty  == [from |-> 0, len |-> 0]

Init ==
  /\ mpc = "out" /\ readIndex = 0 /\ result = "none"
  /\ state = [i \in Index |-> "Idle"]
  /\ files \in [Index -> Files]
  /\ bufferSize = 0
  /\ size = [b \in Index |-> [i \in Index |-> 0]]
  /\ buffer = [b \in Index |-> [i \in Index |-> Empty]]
  /\ exceptionPtr = [i \in Index |-> FALSE]
  /\ rpc = [i \in Index |-> "idleTest"]
  /\ writeIndex = [i \in Index |-> 0]
  /\ offset = [i \in Index |-> 0]

-----------------------------------------------------------------------------
(* Condition variables. *)

ClientWait == {"idleWait", "freeWait"}
Woken(pc)  == IF pc = "idleWait" THEN "idleTest"
              ELSE IF pc = "freeWait" THEN "freeTest" ELSE pc

\* m_clients.notify_all()
NotifyClientsBug == \/ \E i \in Index : /\ rpc[i] \in ClientWait
                                       /\ rpc' = [rpc EXCEPT ![i] = Woken(@)]
                    \/ (\A i \in Index : rpc[i] \notin ClientWait) /\ UNCHANGED rpc
NotifyClients == rpc' = [i \in Index |-> Woken(rpc[i])]

NotifyMasterBug == mpc' = IF mpc = "joinWait" THEN "join" ELSE mpc

\* m_master.notify_one(): at most the master waits there.
NotifyMaster == mpc' = IF mpc = "dataWait" THEN "dataTest"
                       ELSE IF mpc = "joinWait" THEN "join" ELSE mpc

-----------------------------------------------------------------------------
(* The master. *)

\* Lines 98-138: a new Context, both threads set to running.  The steps
\* before it (volumes, allocation) may throw and then leave all unchanged.
Compare ==
  /\ mpc = "out"
  /\ files' \in [Index -> Files]
  /\ \E chunk \in ChunkSizes : bufferSize' = BufferSize(chunk)
  /\ size' = [b \in Index |-> [i \in Index |-> 0]]
  /\ buffer' = [b \in Index |-> [i \in Index |-> Empty]]
  /\ exceptionPtr' = [i \in Index |-> FALSE]
  /\ state' = [i \in Index |-> "Running"]
  /\ mpc' = "start" /\ readIndex' = 0
  /\ UNCHANGED <<result, reader>>

\* Line 139.
StartNotify ==
  /\ mpc = "start"
  /\ NotifyClients /\ mpc' = "dataTest"
  /\ UNCHANGED <<readIndex, result, state, context, writeIndex, offset>>

\* Line 174.
NoData(b)    == \E i \in Index : size[b][i] = 0
DataMissingBug == (\A i \in Index : size[readIndex][i] = 0) /\ \E i \in Index : state[i] = "Running"
DataMissing  == NoData(readIndex) /\ \E i \in Index : state[i] = "Running"

\* Lines 172-178: the predicate is tested and the wait begun under the mutex.
WaitForData ==
  /\ mpc = "dataTest"
  /\ mpc' = IF DataMissing THEN "dataWait" ELSE "excTest"
  /\ UNCHANGED <<readIndex, result, state, context, reader>>

\* Line 182, without the mutex: an exception_ptr that its thread is just
\* storing may be seen as set or as not set.
CheckException ==
  /\ mpc = "excTest"
  /\ \E seen \in [Index -> BOOLEAN] :
       /\ \A i \in Index : rpc[i] # "throw" => seen[i] = exceptionPtr[i]
       /\ IF \E i \in Index : seen[i]
          THEN mpc' = "join" /\ result' = "exception"
          ELSE mpc' = "sizeTest" /\ UNCHANGED result
  /\ UNCHANGED <<readIndex, state, context, reader>>

\* Lines 190-215.
CheckSize ==
  /\ mpc = "sizeTest"
  /\ \/ /\ size[readIndex][0] # size[readIndex][1]
        /\ mpc' = "abort" /\ result' = "different"
     \/ /\ size[readIndex][0] = size[readIndex][1]
        /\ size[readIndex][0] = kThreadDone
        /\ mpc' = "join" /\ result' = "equal"
     \/ /\ size[readIndex][0] = size[readIndex][1]
        /\ size[readIndex][0] # kThreadDone
        /\ mpc' = "cmp" /\ UNCHANGED result
  /\ UNCHANGED <<readIndex, state, context, reader>>

SameBytesBug(b) == \A k \in 1 .. size[b][0] - 1 :
                     files[0][buffer[b][0].from + k] = files[1][buffer[b][1].from + k]
SameBytes(b) == \A k \in 1 .. size[b][0] :
                  files[0][buffer[b][0].from + k] = files[1][buffer[b][1].from + k]

\* Line 216, memcmp.
CompareBuffers ==
  /\ mpc = "cmp"
  /\ IF SameBytes(readIndex)
     THEN mpc' = "release" /\ UNCHANGED result
     ELSE mpc' = "abort" /\ result' = "different"
  /\ UNCHANGED <<readIndex, state, context, reader>>

\* Lines 193-203 and, the same, 218-228.
AbortThreads ==
  /\ mpc = "abort"
  /\ state' = [i \in Index |-> IF state[i] = "Running" THEN "Abort" ELSE state[i]]
  /\ mpc' = "abortNotify"
  /\ UNCHANGED <<readIndex, result, context, reader>>

AbortNotify ==
  /\ mpc = "abortNotify"
  /\ NotifyClients /\ mpc' = "join"
  /\ UNCHANGED <<readIndex, result, state, context, writeIndex, offset>>

\* Lines 232-239: hand both buffers back, go on with the other half.
ReleaseBuffers ==
  /\ mpc = "release"
  /\ size' = [size EXCEPT ![readIndex] = [i \in Index |-> 0]]
  /\ mpc' = "releaseNotify"
  /\ UNCHANGED <<readIndex, result, state, files, bufferSize, buffer,
                 exceptionPtr, reader>>

ReleaseNotify ==
  /\ mpc = "releaseNotify"
  /\ NotifyClients /\ mpc' = "dataTest" /\ readIndex' = Other(readIndex)
  /\ UNCHANGED <<result, state, context, writeIndex, offset>>

AllIdleBug == \E i \in Index : state[i] = "Idle"
AllIdle == \A i \in Index : state[i] = "Idle"

\* Lines 141-166: wait for both threads to be idle, then return or rethrow;
\* the Context goes out of scope.
JoinThreads ==
  /\ mpc = "join"
  /\ IF AllIdle
     THEN mpc' = "out" /\ result' = "none"
     ELSE mpc' = "joinWait" /\ UNCHANGED result
  /\ UNCHANGED <<readIndex, state, context, reader>>

\* Lines 78-85.
Shutdown ==
  /\ mpc = "out"
  /\ state' = [i \in Index |-> "Shutdown"]
  /\ mpc' = "shutdownNotify"
  /\ UNCHANGED <<readIndex, result, context, reader>>

ShutdownNotify ==
  /\ mpc = "shutdownNotify"
  /\ NotifyClients /\ mpc' = "threadJoin"
  /\ UNCHANGED <<readIndex, result, state, context, writeIndex, offset>>

\* Lines 87-95.
Destroyed ==
  /\ mpc = "threadJoin"
  /\ \A i \in Index : rpc[i] = "stopped"
  /\ mpc' = "gone"
  /\ UNCHANGED <<readIndex, result, state, context, reader>>

-----------------------------------------------------------------------------
(* The readers. *)

Goto(i, pc) == rpc' = [rpc EXCEPT ![i] = pc]

\* Lines 246-258.
WaitForCompare(i) ==
  /\ rpc[i] = "idleTest"
  /\ Goto(i, IF state[i] = "Idle" THEN "idleWait"
             ELSE IF state[i] = "Shutdown" THEN "stopped" ELSE "open")
  /\ UNCHANGED <<master, state, context, writeIndex, offset>>

\* Lines 276-282.
OpenFile(i) ==
  /\ rpc[i] = "open"
  /\ Goto(i, "freeTest") \/ Goto(i, "throw")
  /\ writeIndex' = [writeIndex EXCEPT ![i] = 0]
  /\ offset' = [offset EXCEPT ![i] = 0]
  /\ UNCHANGED <<master, state, context>>

\* Line 287.
NoFreeBufferBug(i) == size[writeIndex[i]][Other(i)] # 0 /\ state[i] = "Running"
NoFreeBuffer(i) == size[writeIndex[i]][i] # 0 /\ state[i] = "Running"

\* Lines 285-291.
WaitForFreeBuffer(i) ==
  /\ rpc[i] = "freeTest"
  /\ Goto(i, IF NoFreeBuffer(i) THEN "freeWait" ELSE "stateTest")
  /\ UNCHANGED <<master, state, context, writeIndex, offset>>

\* Lines 292-295, without the mutex.
CheckState(i) ==
  /\ rpc[i] = "stateTest"
  /\ Goto(i, IF state[i] # "Running" THEN "leave" ELSE "read")
  /\ UNCHANGED <<master, state, context, writeIndex, offset>>

Smaller(a, b) == IF a < b THEN a ELSE b

\* Lines 297-302, ReadFile fails, or fills the buffer up to its size or up to
\* the end of the file; no bytes mean the end of the file.
ReadFile(i) ==
  /\ rpc[i] = "read"
  /\ \/ /\ Goto(i, "throw") /\ UNCHANGED <<buffer, offset>>
     \/ LET bytesRead == Smaller(bufferSize, Len(files[i]) - offset[i])
        IN  /\ buffer' = [buffer EXCEPT ![writeIndex[i]][i] =
                            [from |-> offset[i], len |-> bytesRead]]
            /\ offset' = [offset EXCEPT ![i] = @ + bytesRead]
            /\ Goto(i, IF bytesRead = 0 THEN "eof" ELSE "publish")
  /\ UNCHANGED <<master, state, files, bufferSize, size, exceptionPtr, writeIndex>>

SetSize(i, n) == size' = [size EXCEPT ![writeIndex[i]][i] = n]

\* Lines 302-309.
EndOfFile(i) ==
  /\ rpc[i] = "eof"
  /\ SetSize(i, kThreadDone) /\ Goto(i, "leave")
  /\ UNCHANGED <<master, state, files, bufferSize, buffer, exceptionPtr,
                 writeIndex, offset>>

\* Lines 311-316.
PublishBuffer(i) ==
  /\ rpc[i] = "publish"
  /\ SetSize(i, buffer[writeIndex[i]][i].len) /\ Goto(i, "notify")
  /\ UNCHANGED <<master, state, files, bufferSize, buffer, exceptionPtr,
                 writeIndex, offset>>

\* Lines 318-319.
NotifyData(i) ==
  /\ rpc[i] = "notify"
  /\ NotifyMaster /\ Goto(i, "freeTest")
  /\ writeIndex' = [writeIndex EXCEPT ![i] = Other(@)]
  /\ UNCHANGED <<readIndex, result, state, context, offset>>

\* Line 323: the exception_ptr is stored without the mutex.
StoreException(i) ==
  /\ rpc[i] = "throw"
  /\ exceptionPtr' = [exceptionPtr EXCEPT ![i] = TRUE] /\ Goto(i, "abort")
  /\ UNCHANGED <<master, state, files, bufferSize, size, buffer, writeIndex, offset>>

\* Lines 325-331.
AbortOther(i) ==
  /\ rpc[i] = "abort"
  /\ state' = IF state[Other(i)] = "Running"
              THEN [state EXCEPT ![Other(i)] = "Abort"] ELSE state
  /\ Goto(i, "abortNotify")
  /\ UNCHANGED <<master, context, writeIndex, offset>>

\* Line 332, m_clients.notify_one(): only the other reader can be waiting.
AbortOtherNotify(i) ==
  /\ rpc[i] = "abortNotify"
  /\ rpc' = [rpc EXCEPT ![i] = "leave", ![Other(i)] = Woken(@)]
  /\ UNCHANGED <<master, state, context, writeIndex, offset>>

\* Lines 264-270: the state becomes idle, the old one is looked at.
BecomeIdle(i) ==
  /\ rpc[i] = "leave"
  /\ state' = [state EXCEPT ![i] = "Idle"]
  /\ Goto(i, IF state[i] = "Shutdown" THEN "stopped" ELSE "notifyDone")
  /\ UNCHANGED <<master, context, writeIndex, offset>>

\* Line 271.
NotifyDone(i) ==
  /\ rpc[i] = "notifyDone"
  /\ NotifyMaster /\ Goto(i, "idleTest")
  /\ UNCHANGED <<readIndex, result, state, context, writeIndex, offset>>

-----------------------------------------------------------------------------
\* A wait may return without a notification.
Spurious ==
  \/ /\ mpc \in {"dataWait", "joinWait"} /\ NotifyMaster
     /\ UNCHANGED <<readIndex, result, state, context, reader>>
  \/ /\ \E i \in Index : rpc[i] \in ClientWait /\ Goto(i, Woken(rpc[i]))
     /\ UNCHANGED <<master, state, context, writeIndex, offset>>

\* What the caller decides to do, and what it then has to go through.
Caller == Compare \/ Shutdown
Master == \/ StartNotify \/ WaitForData \/ CheckException \/ CheckSize
          \/ CompareBuffers \/ AbortThreads \/ AbortNotify
          \/ ReleaseBuffers \/ ReleaseNotify \/ JoinThreads
          \/ ShutdownNotify \/ Destroyed

Reader(i) == \/ WaitForCompare(i) \/ OpenFile(i) \/ WaitForFreeBuffer(i)
             \/ CheckState(i) \/ ReadFile(i) \/ EndOfFile(i)
             \/ PublishBuffer(i) \/ NotifyData(i) \/ StoreException(i)
             \/ AbortOther(i) \/ AbortOtherNotify(i) \/ BecomeIdle(i)
             \/ NotifyDone(i)

Next == Caller \/ Master \/ (\E i \in Index : Reader(i)) \/ Spurious

\* Every thread that can run does; the caller need not call, and nothing is
\* owed to a spurious wake-up.
Fairness == WF_vars(Master) /\ \A i \in Index : WF_vars(Reader(i))

Spec == Init /\ [][Next]_vars /\ Fairness

-----------------------------------------------------------------------------
(* Properties. *)

TypeOK ==
  /\ mpc \in MasterPc /\ readIndex \in Index
  /\ result \in {"none", "equal", "different", "exception"}
  /\ state \in [Index -> State]
  /\ files \in [Index -> Files] /\ bufferSize \in 0 .. kTargetBufferSize
  /\ size \in [Index -> [Index -> 0 .. kTargetBufferSize \union {kThreadDone}]]
  /\ buffer \in [Index -> [Index -> Region]]
  /\ exceptionPtr \in [Index -> BOOLEAN]
  /\ rpc \in [Index -> ReaderPc]
  /\ writeIndex \in [Index -> Index] /\ offset \in [Index -> Nat]

\* Compare returns only when no thread can touch its Context any more, and
\* finds both threads idle when it is called again (asserts of lines 99-100).
CleanReturn ==
  \A i \in Index :
    /\ mpc = "out" => state[i] = "Idle"
    /\ rpc[i] \in ReaderInside => mpc \in MasterInside

\* ReadFile never fills a buffer that memcmp is reading.
BuffersExclusive ==
  mpc = "cmp" => \A i \in Index : ~(rpc[i] = "read" /\ writeIndex[i] = readIndex)

\* What the sizes loaded without the mutex (lines 190-215) rely on: the master
\* leaves its wait with two filled buffers or an exception to report, and
\* memcmp gets data that both files have delivered.
DataReady ==
  /\ mpc = "excTest" => ~NoData(readIndex) \/ \E i \in Index : exceptionPtr[i]
  /\ mpc = "sizeTest" => ~NoData(readIndex)
  /\ mpc = "cmp" => /\ size[readIndex][0] \in 1 .. bufferSize
                    /\ size[readIndex][1] = size[readIndex][0]

SameContent(f, g) == Len(f) = Len(g) /\ \A k \in 1 .. Len(f) : f[k] = g[k]

Failed == {i \in Index : exceptionPtr[i] \/ rpc[i] = "throw"}

\* Whatever the interleaving, and whichever value a racing exception_ptr
\* shows: "equal" is said only of two files with the same bytes both of which
\* were read without a failure, "different" only of files that differ, and an
\* exception is thrown only if a file could not be read.
ResultCorrect ==
  /\ result = "equal" => SameContent(files[0], files[1]) /\ Failed = {}
  /\ result = "different" => ~SameContent(files[0], files[1])
  /\ result = "exception" => Failed # {}

\* A buffer handed to the master keeps its size and bytes until the master
\* hands it back (or the next call makes a new Context).
PublishedStable ==
  [][\A b, i \in Index :
       size[b][i] # 0 /\ mpc \in MasterInside
         => \/ size'[b][i] = size[b][i] /\ buffer'[b][i] = buffer[b][i]
            \/ mpc = "release" /\ b = readIndex]_vars

\* FileComparer implements the service: every call is answered once and right.
Service == INSTANCE ComparisonService WITH
  failed <- IF mpc \in MasterInside THEN Failed ELSE {},
  answer <- IF mpc \notin MasterInside THEN "none"
            ELSE IF result = "none" THEN "open" ELSE result

Implements == Service!Spec

\* The destructor comes to its end: both threads are joined.
ShutdownCompletes == mpc = "shutdownNotify" ~> mpc = "gone"

-----------------------------------------------------------------------------
(* The inductive invariant. *)

Running == mpc \in MasterLoop \union {"start"}

\* The half the master uses, or will once it has notified the readers.
Front == IF mpc = "releaseNotify" THEN Other(readIndex) ELSE readIndex

Filled(b, i) == size[b][i] # 0
Done(i)      == \E b \in Index : size[b][i] = kThreadDone

\* Reader i takes part in the current call, or has done so.
Entered(i) == rpc[i] \in ReaderInside \union {"leave"}
Started(i) == state[i] = "Idle" \/ (Entered(i) /\ rpc[i] # "open")

\* The half reader i fills next.
Back(i) == IF rpc[i] = "notify" \/ size[writeIndex[i]][i] = kThreadDone
           THEN Other(writeIndex[i]) ELSE writeIndex[i]

\* Where in its file the next unpublished, and the next unread, byte is.
NextFrom(i) == IF ~Started(i) THEN 0
               ELSE IF rpc[i] \in {"publish", "eof"} THEN buffer[writeIndex[i]][i].from
               ELSE offset[i]
Position(i) == IF Filled(Front, i) THEN buffer[Front][i].from ELSE NextFrom(i)

\* Which thread may be where.
ThreadsInv ==
  /\ result = "none" <=> mpc \notin MasterDecided
  /\ \A i \in Index :
       /\ Entered(i) => state[i] \in {"Running", "Abort"}
       /\ state[i] \in {"Running", "Abort"} => mpc \in MasterInside
       /\ mpc = "out" => state[i] = "Idle"
       /\ state[i] = "Shutdown" <=> mpc \in {"shutdownNotify", "threadJoin", "gone"}

\* The filled buffers of a file are consecutive, from Front on, up to Back.
RingOf(i) ==
  /\ ~Started(i) => Front = 0 /\ \A b \in Index : ~Filled(b, i)
  /\ Filled(Other(Front), i) => Filled(Front, i)
  /\ Started(i) => (Back(i) = Front <=> (Filled(Front, i) <=> Filled(Other(Front), i)))
  /\ rpc[i] \in {"read", "publish", "eof"} => ~Filled(writeIndex[i], i)
  /\ rpc[i] = "stateTest" /\ state[i] = "Running" => ~Filled(writeIndex[i], i)
  /\ rpc[i] = "notify" => size[writeIndex[i]][i] # kThreadDone

\* A failure is recorded once, and the end of a file excludes it.
StopOf(i) ==
  /\ ~Started(i) \/ rpc[i] = "throw" => ~exceptionPtr[i]
  /\ Entered(i) => (exceptionPtr[i] => rpc[i] \in {"abort", "abortNotify", "leave"})
  /\ rpc[i] \in {"abort", "abortNotify"} => exceptionPtr[i]
  /\ Done(i) => /\ ~exceptionPtr[i] /\ rpc[i] \notin ReaderInside
                /\ size[writeIndex[i]][i] = kThreadDone
                /\ size[Other(writeIndex[i])][i] # kThreadDone

\* Why a thread has stopped while the comparison is going on.
ReasonOf(i) ==
  Running =>
    /\ state[i] = "Abort" => exceptionPtr[Other(i)]
    /\ rpc[i] = "leave" \/ state[i] = "Idle" => Done(i) \/ \E j \in Index : exceptionPtr[j]

\* What the buffers hold: consecutive parts of the file.
RegionOf(b, i) ==
  /\ buffer[b][i].from <= Len(files[i])
  /\ buffer[b][i].len = Smaller(bufferSize, Len(files[i]) - buffer[b][i].from)

End(b, i) == buffer[b][i].from + buffer[b][i].len

ContentOf(i) ==
  /\ \A b \in Index :
       Filled(b, i) =>
         /\ RegionOf(b, i)
         /\ size[b][i] = IF buffer[b][i].len = 0 THEN kThreadDone ELSE buffer[b][i].len
  /\ rpc[i] \in {"publish", "eof"} =>
       /\ RegionOf(writeIndex[i], i)
       /\ offset[i] = End(writeIndex[i], i)
       /\ buffer[writeIndex[i]][i].len = 0 <=> rpc[i] = "eof"
  /\ Started(i) => offset[i] <= Len(files[i])
  /\ Filled(Other(Front), i) =>
       /\ buffer[Other(Front)][i].from = End(Front, i)
       /\ NextFrom(i) = End(Other(Front), i)
  /\ Filled(Front, i) /\ ~Filled(Other(Front), i) => NextFrom(i) = End(Front, i)

ReadersInv ==
  mpc \in MasterInside =>
    \A i \in Index : RingOf(i) /\ StopOf(i) /\ ReasonOf(i) /\ ContentOf(i)

\* How far the comparison has come.
ProgressInv ==
  /\ Running =>
       /\ Position(0) = Position(1)
       /\ \A k \in 1 .. Position(0) : files[0][k] = files[1][k]
  /\ mpc \in {"cmp", "release"} => /\ size[readIndex][0] = size[readIndex][1]
                                   /\ size[readIndex][0] \notin {0, kThreadDone}
  /\ mpc = "release" => SameBytes(readIndex)

IInv == TypeOK /\ ThreadsInv /\ ReadersInv /\ ProgressInv /\ DataReady

\* What the right answer needs on top: no sector is larger than the target
\* buffer size, so that a read of no bytes does mean the end of the file.
SectorsFit == \A chunk \in ChunkSizes : chunk <= kTargetBufferSize
AnswerInv == /\ mpc \in MasterInside => bufferSize > 0
             /\ result = "equal" => \A i \in Index : Done(i)
=============================================================================
