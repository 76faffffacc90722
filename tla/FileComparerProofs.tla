------------------------- MODULE FileComparerProofs -------------------------
(***************************************************************************)
(* FileComparer for every set of files, every buffer size and every sector *)
(* size.                                                                   *)
(***************************************************************************)
EXTENDS FileComparer, SequenceTheorems, TLAPS

\* The smallest buffer of line 112 is not larger than kTargetBufferSize.
LEMMA BufferSizeBound ==
  ASSUME NEW chunk \in ChunkSizes
  PROVE  BufferSize(chunk) \in 0 .. kTargetBufferSize
<1>1. chunk \in Nat /\ chunk > 0 /\ kTargetBufferSize \in Nat
  BY ConstantsAssumption
<1> DEFINE q == kTargetBufferSize \div chunk
<1>2. q \in Nat /\ chunk * q <= kTargetBufferSize
  BY <1>1
<1>3. q * chunk \in Nat /\ q * chunk <= kTargetBufferSize
  BY <1>1, <1>2
<1>4. QED
  BY <1>3, ConstantsAssumption DEF BufferSize

\* The types of the variables that say where the threads are.
LEMMA Types ==
  ASSUME IInv
  PROVE  /\ rpc \in [Index -> ReaderPc] /\ state \in [Index -> State]
         /\ mpc \in MasterPc /\ readIndex \in Index /\ writeIndex \in [Index -> Index]
         /\ exceptionPtr \in [Index -> BOOLEAN]
BY DEF IInv, TypeOK

\* The types of what a call keeps in its Context.
LEMMA ContextTypes ==
  ASSUME IInv
  PROVE  /\ size \in [Index -> [Index -> 0 .. kTargetBufferSize \union {kThreadDone}]]
         /\ buffer \in [Index -> [Index -> Region]] /\ offset \in [Index -> Nat]
         /\ files \in [Index -> Seq(Nat)] /\ bufferSize \in 0 .. kTargetBufferSize
BY ConstantsAssumption DEF IInv, TypeOK

\* The smaller of two numbers is one of them.
LEMMA SmallerFact ==
  ASSUME NEW a \in Nat, NEW b \in Nat
  PROVE  /\ Smaller(a, b) \in Nat /\ Smaller(a, b) <= a /\ Smaller(a, b) <= b
         /\ Smaller(a, b) = a \/ Smaller(a, b) = b
BY DEF Smaller

\* A file has a length.
LEMMA FileLength ==
  ASSUME TypeOK, NEW i \in Index
  PROVE  files[i] \in Seq(Nat) /\ Len(files[i]) \in Nat
BY ConstantsAssumption DEF TypeOK

\* The types hold initially.
LEMMA TypeInit == Init => TypeOK
BY ConstantsAssumption DEF Init, TypeOK, Index, State, MasterPc, MasterInside, ReaderPc, Empty, Region

USE DEF Index, State, MasterPc, MasterInside, MasterLoop, MasterDecided, ReaderPc, ReaderInside, Region, Goto

\* ReadFile returns at most what the buffer holds and the file has left.
LEMMA BytesRead ==
  ASSUME IInv, NEW i \in Index, rpc[i] = "read"
  PROVE  /\ Len(files[i]) \in Nat /\ offset[i] \in Nat /\ offset[i] <= Len(files[i])
         /\ bufferSize \in 0 .. kTargetBufferSize
         /\ Len(files[i]) - offset[i] \in Nat
         /\ Smaller(bufferSize, Len(files[i]) - offset[i]) \in 0 .. kTargetBufferSize
         /\ Smaller(bufferSize, Len(files[i]) - offset[i]) <= Len(files[i]) - offset[i]
<1>1. /\ Len(files[i]) \in Nat /\ offset[i] \in Nat
      /\ bufferSize \in 0 .. kTargetBufferSize
  BY FileLength DEF IInv, TypeOK
<1>2. mpc \in MasterInside /\ Started(i)
  BY DEF IInv, ThreadsInv, Started, Entered
<1>3. offset[i] <= Len(files[i])
  BY <1>2 DEF IInv, ReadersInv, ContentOf
<1>4. Len(files[i]) - offset[i] \in Nat
  BY <1>1, <1>3
<1>5. ASSUME NEW b \in Nat PROVE /\ Smaller(bufferSize, b) \in 0 .. kTargetBufferSize
                                  /\ Smaller(bufferSize, b) <= b
  BY <1>1, ConstantsAssumption DEF Smaller
<1>6. QED
  BY <1>1, <1>3, <1>4, <1>5

\* ReadFile keeps the types.
LEMMA ReadFileType ==
  ASSUME IInv, NEW i \in Index, ReadFile(i)
  PROVE  TypeOK'
<1> DEFINE n == Smaller(bufferSize, Len(files[i]) - offset[i])
<1>1. n \in 0 .. kTargetBufferSize /\ n \in Nat /\ offset[i] \in Nat
  BY BytesRead, ConstantsAssumption DEF ReadFile
<1>2. TypeOK
  BY DEF IInv
<1>3. CASE UNCHANGED <<buffer, offset>>
  BY <1>2, <1>3 DEF ReadFile, TypeOK, master
<1>4. CASE /\ buffer' = [buffer EXCEPT ![writeIndex[i]][i] = [from |-> offset[i], len |-> n]]
           /\ offset' = [offset EXCEPT ![i] = @ + n]
  <2> HIDE DEF n
  <2>1. buffer' \in [Index -> [Index -> Region]]
    BY <1>1, <1>2, <1>4 DEF TypeOK
  <2>2. offset' \in [Index -> Nat]
    BY <1>1, <1>2, <1>4 DEF TypeOK
  <2>3. rpc' \in [Index -> ReaderPc]
    BY <1>2 DEF ReadFile, TypeOK
  <2>4. UNCHANGED <<master, state, files, bufferSize, size, exceptionPtr, writeIndex>>
    BY DEF ReadFile
  <2>5. QED
    BY <1>2, <2>1, <2>2, <2>3, <2>4 DEF TypeOK, master
<1>5. QED
  BY <1>3, <1>4 DEF ReadFile

\* Every step keeps the types.
LEMMA TypeStep == IInv /\ [Next]_vars => TypeOK'
<1> SUFFICES ASSUME IInv, [Next]_vars PROVE TypeOK'
  OBVIOUS
<1> USE DEF IInv, TypeOK, master, context, reader, Woken, NotifyClients, NotifyMaster, Other
<1>1. CASE Compare
  BY <1>1, BufferSizeBound, ConstantsAssumption DEF Compare, Empty
<1>2. CASE Shutdown
  BY <1>2 DEF Shutdown
<1>3. CASE StartNotify
  BY <1>3 DEF StartNotify
<1>4. CASE WaitForData
  BY <1>4 DEF WaitForData
<1>5. CASE CheckException
  BY <1>5 DEF CheckException
<1>6. CASE CheckSize
  BY <1>6 DEF CheckSize
<1>7. CASE CompareBuffers
  BY <1>7 DEF CompareBuffers
<1>8. CASE AbortThreads
  BY <1>8 DEF AbortThreads
<1>9. CASE AbortNotify
  BY <1>9 DEF AbortNotify
<1>10. CASE ReleaseBuffers
  BY <1>10, ConstantsAssumption DEF ReleaseBuffers
<1>11. CASE ReleaseNotify
  BY <1>11 DEF ReleaseNotify
<1>12. CASE JoinThreads
  BY <1>12 DEF JoinThreads
<1>13. CASE ShutdownNotify
  BY <1>13 DEF ShutdownNotify
<1>14. CASE Destroyed
  BY <1>14 DEF Destroyed
<1>15. ASSUME NEW i \in Index, Reader(i) PROVE TypeOK'
  <2>1. CASE WaitForCompare(i)
    BY <2>1 DEF WaitForCompare
  <2>2. CASE OpenFile(i)
    BY <2>2 DEF OpenFile
  <2>3. CASE WaitForFreeBuffer(i)
    BY <2>3 DEF WaitForFreeBuffer
  <2>4. CASE CheckState(i)
    BY <2>4 DEF CheckState
  <2>5. CASE ReadFile(i)
    BY <2>5, ReadFileType
  <2>6. CASE EndOfFile(i)
    BY <2>6 DEF EndOfFile, SetSize
  <2>7. CASE PublishBuffer(i)
    <3>1. buffer[writeIndex[i]][i].len \in 0 .. kTargetBufferSize
      OBVIOUS
    <3>2. size' \in [Index -> [Index -> 0 .. kTargetBufferSize \union {kThreadDone}]]
      BY <2>7, <3>1 DEF PublishBuffer, SetSize
    <3>3. QED
      BY <2>7, <3>2 DEF PublishBuffer
  <2>8. CASE NotifyData(i)
    BY <2>8 DEF NotifyData
  <2>9. CASE StoreException(i)
    BY <2>9 DEF StoreException
  <2>10. CASE AbortOther(i)
    BY <2>10 DEF AbortOther
  <2>11. CASE AbortOtherNotify(i)
    BY <2>11 DEF AbortOtherNotify
  <2>12. CASE BecomeIdle(i)
    BY <2>12 DEF BecomeIdle
  <2>13. CASE NotifyDone(i)
    BY <2>13 DEF NotifyDone
  <2>14. QED
    BY <1>15, <2>1, <2>2, <2>3, <2>4, <2>5, <2>6, <2>7, <2>8, <2>9, <2>10, <2>11, <2>12, <2>13 DEF Reader
<1>16. CASE Spurious
  BY <1>16 DEF Spurious, ClientWait
<1>17. CASE UNCHANGED vars
  BY <1>17 DEF vars
<1>18. QED
  BY <1>1, <1>2, <1>3, <1>4, <1>5, <1>6, <1>7, <1>8, <1>9, <1>10, <1>11, <1>12, <1>13, <1>14, <1>15, <1>16, <1>17
  DEF Next, Caller, Master

\* Every step keeps the threads where they may be.
LEMMA ThreadsStep == IInv /\ [Next]_vars => ThreadsInv'
<1> SUFFICES ASSUME IInv, [Next]_vars PROVE ThreadsInv'
  OBVIOUS
<1> USE DEF ThreadsInv, Entered, master, context, reader, Woken, NotifyClients, NotifyMaster, Other, IInv
<1>1. CASE Compare
  BY <1>1, Types DEF Compare
<1>2. CASE Shutdown
  BY <1>2, Types DEF Shutdown
<1>3. CASE StartNotify
  BY <1>3, Types DEF StartNotify
<1>4. CASE WaitForData
  BY <1>4, Types DEF WaitForData, DataMissing, NoData
<1>5. CASE CheckException
  BY <1>5, Types DEF CheckException
<1>6. CASE CheckSize
  BY <1>6, Types DEF CheckSize
<1>7. CASE CompareBuffers
  BY <1>7, Types DEF CompareBuffers
<1>8. CASE AbortThreads
  BY <1>8, Types DEF AbortThreads
<1>9. CASE AbortNotify
  BY <1>9, Types DEF AbortNotify
<1>10. CASE ReleaseBuffers
  BY <1>10, Types DEF ReleaseBuffers
<1>11. CASE ReleaseNotify
  BY <1>11, Types DEF ReleaseNotify
<1>12. CASE JoinThreads
  BY <1>12, Types DEF JoinThreads, AllIdle
<1>13. CASE ShutdownNotify
  BY <1>13, Types DEF ShutdownNotify
<1>14. CASE Destroyed
  BY <1>14, Types DEF Destroyed
<1>15. ASSUME NEW i \in Index, Reader(i) PROVE ThreadsInv'
  <2>1. CASE WaitForCompare(i)
    BY <2>1, Types DEF WaitForCompare
  <2>2. CASE OpenFile(i)
    BY <2>2, Types DEF OpenFile
  <2>3. CASE WaitForFreeBuffer(i)
    BY <2>3, Types DEF WaitForFreeBuffer, NoFreeBuffer
  <2>4. CASE CheckState(i)
    BY <2>4, Types DEF CheckState
  <2>5. CASE ReadFile(i)
    BY <2>5, Types DEF ReadFile
  <2>6. CASE EndOfFile(i)
    BY <2>6, Types DEF EndOfFile, SetSize
  <2>7. CASE PublishBuffer(i)
    BY <2>7, Types DEF PublishBuffer, SetSize
  <2>8. CASE NotifyData(i)
    BY <2>8, Types DEF NotifyData
  <2>9. CASE StoreException(i)
    BY <2>9, Types DEF StoreException
  <2>10. CASE AbortOther(i)
    BY <2>10, Types DEF AbortOther
  <2>11. CASE AbortOtherNotify(i)
    BY <2>11, Types DEF AbortOtherNotify
  <2>12. CASE BecomeIdle(i)
    BY <2>12, Types DEF BecomeIdle
  <2>13. CASE NotifyDone(i)
    BY <2>13, Types DEF NotifyDone
  <2>14. QED
    BY <1>15, <2>1, <2>2, <2>3, <2>4, <2>5, <2>6, <2>7, <2>8, <2>9, <2>10, <2>11, <2>12, <2>13 DEF Reader
<1>16. CASE Spurious
  BY <1>16, Types DEF Spurious, ClientWait
<1>17. CASE UNCHANGED vars
  BY <1>17 DEF vars
<1>18. QED
  BY <1>1, <1>2, <1>3, <1>4, <1>5, <1>6, <1>7, <1>8, <1>9, <1>10, <1>11, <1>12, <1>13, <1>14, <1>15, <1>16, <1>17 DEF Next, Caller, Master

-----------------------------------------------------------------------------
(* A step is quiet for a reader if it changes nothing of what the reader's  *)
(* part of the invariant speaks about, apart from waking or aborting it.    *)

Quiet(j) ==
  /\ mpc \in MasterInside /\ mpc' \in MasterInside
  /\ Front' = Front
  /\ \A b \in Index : size'[b][j] = size[b][j] /\ buffer'[b][j] = buffer[b][j]
  /\ writeIndex'[j] = writeIndex[j] /\ offset'[j] = offset[j]
  /\ files' = files /\ bufferSize' = bufferSize
  /\ exceptionPtr'[j] = exceptionPtr[j]
  /\ rpc'[j] = rpc[j] \/ (rpc[j] \in ClientWait /\ rpc'[j] = Woken(rpc[j]))
  /\ state'[j] = state[j] \/ (state[j] = "Running" /\ state'[j] = "Abort")

\* What is said of a reader does not change while its part of the state is
\* left alone.
LEMMA QuietPredicates ==
  ASSUME IInv, NEW j \in Index, Quiet(j)
  PROVE  /\ Started(j)' = Started(j) /\ Entered(j)' = Entered(j)
         /\ Done(j)' = Done(j) /\ Back(j)' = Back(j) /\ NextFrom(j)' = NextFrom(j)
         /\ Position(j)' = Position(j)
         /\ \A b \in Index : Filled(b, j)' = Filled(b, j) /\ End(b, j)' = End(b, j)
         /\ Front \in Index /\ Other(Front) \in Index /\ writeIndex[j] \in Index
<1>1. Front \in Index /\ Other(Front) \in Index /\ writeIndex[j] \in Index
  BY Types DEF Front, Other
<1>2. Started(j)' = Started(j) /\ Entered(j)' = Entered(j)
  BY Types DEF Quiet, Started, Entered, Woken, ClientWait
<1>3. \A b \in Index : Filled(b, j)' = Filled(b, j) /\ End(b, j)' = End(b, j)
  BY DEF Quiet, Filled, End
<1>4. Done(j)' = Done(j)
  BY DEF Quiet, Done
<1>5. Back(j)' = Back(j)
  BY <1>1 DEF Quiet, Back, Woken, ClientWait
<1>6. NextFrom(j)' = NextFrom(j)
  BY <1>1, <1>2 DEF Quiet, NextFrom, Woken, ClientWait
<1>7. Position(j)' = Position(j)
  BY <1>1, <1>3, <1>6 DEF Quiet, Position
<1>8. QED
  BY <1>1, <1>2, <1>3, <1>4, <1>5, <1>6, <1>7

\* A reader whose part of the state is left alone keeps its invariants.
LEMMA QuietReader ==
  ASSUME IInv, NEW j \in Index, Quiet(j)
  PROVE  RingOf(j)' /\ StopOf(j)' /\ ContentOf(j)'
<1>1. RingOf(j) /\ StopOf(j) /\ ContentOf(j)
  BY DEF Quiet, IInv, ReadersInv
<1>2. RingOf(j)'
  BY <1>1, QuietPredicates DEF Quiet, RingOf, Woken, ClientWait
<1>3. StopOf(j)'
  BY <1>1, QuietPredicates DEF Quiet, StopOf, Woken, ClientWait, Other
<1>4. ContentOf(j)'
  BY <1>1, QuietPredicates DEF Quiet, ContentOf, RegionOf, Woken, ClientWait
<1>5. QED
  BY <1>2, <1>3, <1>4

\* Within a call, the master touches a reader's part only in ReleaseBuffers.
LEMMA QuietMaster ==
  ASSUME IInv, NEW j \in Index, Master, mpc \in MasterInside, mpc' \in MasterInside,
         ~ReleaseBuffers
  PROVE  Quiet(j)
<1> USE Types DEF Quiet, master, context, reader, Front, Other, NotifyClients
<1>1. CASE StartNotify
  BY <1>1 DEF StartNotify, Woken, ClientWait
<1>2. CASE WaitForData
  BY <1>2 DEF WaitForData
<1>3. CASE CheckException
  BY <1>3 DEF CheckException
<1>4. CASE CheckSize
  BY <1>4 DEF CheckSize
<1>5. CASE CompareBuffers
  BY <1>5 DEF CompareBuffers
<1>6. CASE AbortThreads
  BY <1>6 DEF AbortThreads
<1>7. CASE AbortNotify
  BY <1>7 DEF AbortNotify, Woken, ClientWait
<1>8. CASE ReleaseNotify
  BY <1>8 DEF ReleaseNotify, Woken, ClientWait
<1>9. CASE JoinThreads
  BY <1>9 DEF JoinThreads
<1>10. QED
  BY <1>1, <1>2, <1>3, <1>4, <1>5, <1>6, <1>7, <1>8, <1>9
  DEF Master, ShutdownNotify, Destroyed

\* A spurious wake-up touches nobody's part.
LEMMA QuietSpurious ==
  ASSUME IInv, NEW j \in Index, Spurious, mpc \in MasterInside
  PROVE  Quiet(j)
BY Types DEF Quiet, Spurious, master, context, reader, Front, NotifyMaster, ClientWait

\* A reader does not touch the part of the other one.
LEMMA QuietOther ==
  ASSUME IInv, NEW i \in Index, NEW j \in Index, i # j, Reader(i), mpc \in MasterInside
  PROVE  Quiet(j)
<1> USE Types, ContextTypes DEF Quiet, master, context, reader, Front, NotifyMaster
<1>1. CASE WaitForCompare(i)
  BY <1>1 DEF WaitForCompare
<1>2. CASE OpenFile(i)
  BY <1>2 DEF OpenFile
<1>3. CASE WaitForFreeBuffer(i)
  BY <1>3 DEF WaitForFreeBuffer
<1>4. CASE CheckState(i)
  BY <1>4 DEF CheckState
<1>5. CASE ReadFile(i)
  BY <1>5 DEF ReadFile
<1>6. CASE EndOfFile(i)
  BY <1>6 DEF EndOfFile, SetSize
<1>7. CASE PublishBuffer(i)
  BY <1>7 DEF PublishBuffer, SetSize
<1>8. CASE NotifyData(i)
  BY <1>8 DEF NotifyData
<1>9. CASE StoreException(i)
  BY <1>9 DEF StoreException
<1>10. CASE AbortOther(i)
  BY <1>10 DEF AbortOther, Other
<1>11. CASE AbortOtherNotify(i)
  BY <1>11 DEF AbortOtherNotify, Other, Woken, ClientWait
<1>12. CASE BecomeIdle(i)
  BY <1>12 DEF BecomeIdle
<1>13. CASE NotifyDone(i)
  BY <1>13 DEF NotifyDone
<1>14. QED
  BY <1>1, <1>2, <1>3, <1>4, <1>5, <1>6, <1>7, <1>8, <1>9, <1>10, <1>11, <1>12, <1>13 DEF Reader

-----------------------------------------------------------------------------
(* ReadFile fills the buffer with the next bytes of the file. *)

\* ReadFile appends the next bytes of the file to what is buffered.
LEMMA ReadContent ==
  ASSUME IInv, NEW i \in Index, ReadFile(i), RingOf(i), ContentOf(i), mpc \in MasterInside
  PROVE  ContentOf(i)'
<1> DEFINE w == writeIndex[i]
           n == Smaller(bufferSize, Len(files[i]) - offset[i])
<1>1. /\ rpc[i] = "read" /\ ~Filled(w, i) /\ Started(i) /\ Started(i)' /\ w \in Index
      /\ Front' = Front /\ Front \in Index /\ Other(Front) \in Index
  BY Types DEF ReadFile, RingOf, Started, Entered, master, Front, Other
<1>2. /\ files' = files /\ size' = size /\ bufferSize' = bufferSize /\ writeIndex' = writeIndex
      /\ state' = state
  BY DEF ReadFile
<1>3. /\ n \in 0 .. kTargetBufferSize /\ n \in Nat /\ n <= Len(files[i]) - offset[i]
      /\ offset[i] \in Nat /\ Len(files[i]) \in Nat /\ offset[i] <= Len(files[i])
  BY <1>1, BytesRead, ConstantsAssumption
<1>4. CASE rpc'[i] = "throw" /\ UNCHANGED <<buffer, offset>>
  BY <1>1, <1>2, <1>4 DEF ContentOf, RegionOf, End, Filled, NextFrom
<1>5. CASE /\ rpc'[i] = (IF n = 0 THEN "eof" ELSE "publish")
           /\ buffer' = [buffer EXCEPT ![w][i] = [from |-> offset[i], len |-> n]]
           /\ offset' = [offset EXCEPT ![i] = @ + n]
  <2>1. /\ buffer'[w][i] = [from |-> offset[i], len |-> n]
        /\ \A b \in Index : b # w => buffer'[b][i] = buffer[b][i]
        /\ offset'[i] = offset[i] + n
    BY <1>1, <1>5, ContextTypes
  <2>2. RegionOf(w, i)' /\ End(w, i)' = offset[i] + n /\ buffer'[w][i].len = n
    BY <1>2, <1>3, <2>1 DEF RegionOf, End
  <2>3. \A b \in Index : Filled(b, i) => b # w
    BY <1>1
  <2>4. \A b \in Index : Filled(b, i)' = Filled(b, i)
    BY <1>2 DEF Filled
  <2>5. NextFrom(i) = offset[i] /\ NextFrom(i)' = offset[i]
    BY <1>1, <1>2, <1>5, <2>1 DEF NextFrom
  <2>6. \A b \in Index : b # w => RegionOf(b, i)' = RegionOf(b, i) /\ End(b, i)' = End(b, i)
    BY <1>2, <2>1 DEF RegionOf, End
  <2>7. offset'[i] <= Len(files'[i])
    BY <1>2, <1>3, <2>1
  <2> HIDE DEF w, n
  <2>8. ASSUME NEW b \in Index, Filled(b, i)'
        PROVE  /\ RegionOf(b, i)'
               /\ size'[b][i] = IF buffer'[b][i].len = 0 THEN kThreadDone ELSE buffer'[b][i].len
    BY <1>2, <2>1, <2>3, <2>4, <2>6, <2>8 DEF ContentOf
  <2>9. /\ RegionOf(w, i)'
        /\ offset'[i] = End(w, i)'
        /\ buffer'[w][i].len = 0 <=> rpc'[i] = "eof"
    BY <1>5, <2>1, <2>2
  <2>10. Filled(Other(Front), i)' =>
           /\ buffer'[Other(Front)][i].from = End(Front, i)'
           /\ NextFrom(i)' = End(Other(Front), i)'
    BY <1>1, <2>1, <2>3, <2>4, <2>5, <2>6 DEF ContentOf, RingOf
  <2>11. Filled(Front, i)' /\ ~Filled(Other(Front), i)' => NextFrom(i)' = End(Front, i)'
    BY <1>1, <2>1, <2>3, <2>4, <2>5, <2>6 DEF ContentOf
  <2>12. QED
    BY <1>1, <1>2, <2>7, <2>8, <2>9, <2>10, <2>11 DEF ContentOf, w
<1>6. rpc \in [Index -> ReaderPc]
  BY Types
<1>7. QED
  BY <1>4, <1>5, <1>6 DEF ReadFile

\* ReadFile does not move the place up to which the file has been compared.
LEMMA ReadPosition ==
  ASSUME IInv, NEW i \in Index, ReadFile(i), RingOf(i), mpc \in MasterInside
  PROVE  Position(i)' = Position(i)
<1>1. /\ rpc[i] = "read" /\ ~Filled(writeIndex[i], i) /\ Started(i) /\ Started(i)'
      /\ writeIndex[i] \in Index /\ Front' = Front /\ Front \in Index
  BY Types DEF ReadFile, RingOf, Started, Entered, master, Front, Other
<1>2. size' = size /\ writeIndex' = writeIndex
  BY DEF ReadFile
<1>3. \A b \in Index : b # writeIndex[i] => buffer'[b][i] = buffer[b][i]
  BY <1>1, ContextTypes DEF ReadFile
<1>4. rpc'[i] \in {"publish", "eof"} => buffer'[writeIndex[i]][i].from = offset[i]
  BY <1>1, Types, ContextTypes DEF ReadFile
<1>5. rpc'[i] \in {"publish", "eof"} \/ (rpc'[i] = "throw" /\ offset' = offset)
  BY Types DEF ReadFile
<1>6. NextFrom(i)' = NextFrom(i)
  BY <1>1, <1>2, <1>4, <1>5 DEF NextFrom
<1>7. Filled(Front, i)' = Filled(Front, i)
  BY <1>1, <1>2 DEF Filled
<1>8. QED
  BY <1>1, <1>3, <1>6, <1>7 DEF Position

-----------------------------------------------------------------------------
(* What a reader's own steps do to its part of the invariant. *)

\* A reader leaves the call, its files and the master's half alone.
LEMMA OwnFrame ==
  ASSUME IInv, NEW i \in Index, Reader(i), mpc \in MasterInside
  PROVE  /\ mpc' \in MasterInside /\ Front' = Front /\ Front \in Index
         /\ Other(Front)' = Other(Front)
         /\ Other(Front) \in Index /\ writeIndex[i] \in Index
         /\ files' = files /\ bufferSize' = bufferSize /\ readIndex' = readIndex
         /\ Running' = Running /\ result' = result
BY Types DEF Reader, WaitForCompare, OpenFile, WaitForFreeBuffer, CheckState, ReadFile, EndOfFile,
             PublishBuffer, NotifyData, StoreException, AbortOther, AbortOtherNotify,
             BecomeIdle, NotifyDone, NotifyMaster, master, context, Front, Other, Running

\* A reader's own steps keep its invariants and its compared part.
LEMMA OwnStep ==
  ASSUME IInv, NEW i \in Index, Reader(i), mpc \in MasterInside
  PROVE  /\ RingOf(i)' /\ StopOf(i)' /\ ContentOf(i)'
         /\ Position(i)' = Position(i)
<1> USE Types, OwnFrame
<1>a. RingOf(i) /\ StopOf(i) /\ ContentOf(i)
  BY DEF IInv, ReadersInv
<1>b. kThreadDone \in Nat /\ kThreadDone > kTargetBufferSize /\ kThreadDone # 0
  BY ConstantsAssumption

<1>1. CASE WaitForCompare(i)
  <2>1. RingOf(i)'
    BY <1>a, <1>1, ContextTypes DEF context, WaitForCompare, RingOf, StopOf, Started, Entered, Filled, Back
  <2>2. StopOf(i)'
    BY <1>a, <1>b, <1>1 DEF context, WaitForCompare, RingOf, StopOf, Started, Entered, Filled, Done
  <2>3. ContentOf(i)'
    BY <1>a, <1>1, ContextTypes DEF context, WaitForCompare, RingOf, ContentOf, RegionOf, End, Started, Entered, Filled, NextFrom
  <2>4. Position(i)' = Position(i)
    BY <1>a, <1>1, ContextTypes DEF context, WaitForCompare, RingOf, Position, Started, Entered, Filled, NextFrom
  <2>5. QED
    BY <2>1, <2>2, <2>3, <2>4
<1>2. CASE OpenFile(i)
  <2>1. /\ ~Started(i) /\ Front = 0 /\ state[i] # "Idle" /\ ~exceptionPtr[i]
        /\ \A b \in Index : ~Filled(b, i)
    BY <1>a, <1>2 DEF OpenFile, IInv, ThreadsInv, Entered, Started, RingOf, StopOf
  <2>2. /\ writeIndex'[i] = 0 /\ offset'[i] = 0 /\ rpc'[i] \in {"freeTest", "throw"}
        /\ state' = state /\ size' = size /\ buffer' = buffer /\ exceptionPtr' = exceptionPtr
    BY <1>2, ContextTypes DEF OpenFile, context
  <2>3. Front = 0 \/ Front = 1
    OBVIOUS
  <2>4. \A b \in Index : size[b][i] = 0
    BY <2>1 DEF Filled
  <2>5. RingOf(i)'
    BY <1>b, <2>1, <2>2, <2>3, <2>4 DEF RingOf, Started, Filled, Back, Other
  <2>6. StopOf(i)'
    BY <1>b, <2>1, <2>2, <2>4 DEF StopOf, Done
  <2>7. Len(files[i]) \in Nat
    BY FileLength DEF IInv
  <2>8. ContentOf(i)'
    BY <2>2, <2>3, <2>4, <2>7 DEF ContentOf, Filled, Other
  <2>9. Position(i)' = Position(i)
    BY <2>1, <2>2, <2>3, <2>4 DEF Position, NextFrom, Filled, Started, Entered
  <2>10. QED
    BY <2>5, <2>6, <2>8, <2>9
<1>3. CASE WaitForFreeBuffer(i)
  <2>1. RingOf(i)'
    BY <1>a, <1>3, ContextTypes DEF context, WaitForFreeBuffer, NoFreeBuffer, RingOf, StopOf, Started, Entered, Filled, Back
  <2>2. StopOf(i)'
    BY <1>a, <1>3, ContextTypes DEF context, WaitForFreeBuffer, NoFreeBuffer, RingOf, StopOf, Started, Entered, Filled, Done
  <2>3. ContentOf(i)'
    BY <1>a, <1>3, ContextTypes DEF context, WaitForFreeBuffer, NoFreeBuffer, RingOf, ContentOf, RegionOf, End, Started, Entered, Filled, NextFrom
  <2>4. Position(i)' = Position(i)
    BY <1>a, <1>3, ContextTypes DEF context, WaitForFreeBuffer, NoFreeBuffer, RingOf, Position, Started, Entered, Filled, NextFrom
  <2>5. QED
    BY <2>1, <2>2, <2>3, <2>4
<1>4. CASE CheckState(i)
  <2>1. RingOf(i)'
    BY <1>a, <1>4, ContextTypes DEF context, CheckState, RingOf, StopOf, Started, Entered, Filled, Back
  <2>2. StopOf(i)'
    BY <1>a, <1>4, ContextTypes DEF context, CheckState, RingOf, StopOf, Started, Entered, Filled, Done
  <2>3. ContentOf(i)'
    BY <1>a, <1>4, ContextTypes DEF context, CheckState, RingOf, ContentOf, RegionOf, End, Started, Entered, Filled, NextFrom
  <2>4. Position(i)' = Position(i)
    BY <1>a, <1>4, ContextTypes DEF context, CheckState, RingOf, Position, Started, Entered, Filled, NextFrom
  <2>5. QED
    BY <2>1, <2>2, <2>3, <2>4
<1>5. CASE ReadFile(i)
  <2>1. RingOf(i)'
    BY <1>a, <1>5, ContextTypes DEF context, ReadFile, RingOf, StopOf, Started, Entered, Filled, Back
  <2>2. StopOf(i)'
    BY <1>a, <1>5, ContextTypes DEF context, ReadFile, RingOf, StopOf, Started, Entered, Filled, Done
  <2>3. ContentOf(i)'
    BY <1>a, <1>5, ReadContent
  <2>4. Position(i)' = Position(i)
    BY <1>a, <1>5, ReadPosition
  <2>5. QED
    BY <2>1, <2>2, <2>3, <2>4
<1>6. CASE EndOfFile(i)
  <2> DEFINE w == writeIndex[i]
  <2>1. /\ rpc[i] = "eof" /\ rpc'[i] = "leave" /\ Started(i) /\ Started(i)'
        /\ size[w][i] = 0 /\ w \in Index
    BY <1>a, <1>6 DEF EndOfFile, RingOf, Filled, Started, Entered
  <2>2. /\ size'[w][i] = kThreadDone
        /\ \A b \in Index : b # w => size'[b][i] = size[b][i]
    BY <1>6, <2>1, ContextTypes DEF EndOfFile, SetSize
  <2>3. /\ state' = state /\ buffer' = buffer /\ exceptionPtr' = exceptionPtr
        /\ writeIndex' = writeIndex /\ offset' = offset /\ w' = w /\ Other(w)' = Other(w)
    BY <1>6 DEF EndOfFile, Other
  <2>4. /\ RegionOf(w, i) /\ offset[i] = End(w, i)
        /\ buffer[w][i].len = 0 <=> rpc[i] = "eof"
        /\ buffer[w][i].len \in 0 .. kTargetBufferSize
    BY <1>a, <2>1, ContextTypes DEF ContentOf
  <2>5. /\ size'[w][i] # 0 /\ (size'[w][i] = kThreadDone <=> rpc[i] = "eof")
        /\ size'[w][i] = IF buffer[w][i].len = 0 THEN kThreadDone ELSE buffer[w][i].len
    BY <1>b, <2>1, <2>2, <2>4, ConstantsAssumption
  <2>6. \A b \in Index : size[b][i] # kThreadDone
    BY <1>a, <2>1 DEF StopOf, Done
  <2>7. (w = 0 \/ w = 1) /\ (Front = 0 \/ Front = 1)
    BY <2>1
  <2>8. Filled(w, i)' /\ ~Filled(w, i) /\ (Filled(Other(w), i)' <=> Filled(Other(w), i))
    <3>1. Filled(w, i)' <=> size'[w][i] # 0
      BY <2>3 DEF Filled
    <3>2. Filled(Other(w), i)' <=> size'[Other(w)][i] # 0
      BY <2>3 DEF Filled
    <3>3. size'[Other(w)][i] = size[Other(w)][i]
      BY <2>2, <2>7 DEF Other
    <3>4. QED
      BY <2>1, <2>5, <3>1, <3>2, <3>3 DEF Filled
  <2>9. Back(i) = w /\ Back(i)' = Other(w)
    BY <1>b, <2>1, <2>3, <2>5 DEF Back, Other
  <2> HIDE DEF w
  <2>10. RingOf(i)'
    BY <1>a, <2>1, <2>2, <2>3, <2>5, <2>7, <2>8, <2>9 DEF RingOf, Filled, Other, w
  <2>11. StopOf(i)'
    BY <1>a, <1>b, <2>1, <2>2, <2>3, <2>5, <2>6, <2>7 DEF StopOf, Done, Entered, Other, w
  <2>12. NextFrom(i)' = offset[i] /\ NextFrom(i) = buffer[w][i].from
    BY <2>1, <2>3 DEF NextFrom, w
  <2>13. ContentOf(i)'
    <3>1. \A b \in Index : RegionOf(b, i)' = RegionOf(b, i) /\ End(b, i)' = End(b, i)
      BY <2>3 DEF RegionOf, End
    <3>2. ASSUME NEW b \in Index, Filled(b, i)'
          PROVE  /\ RegionOf(b, i)'
                 /\ size'[b][i] = IF buffer'[b][i].len = 0 THEN kThreadDone ELSE buffer'[b][i].len
      BY <1>a, <2>2, <2>3, <2>4, <2>5, <3>1, <3>2 DEF ContentOf, Filled
    <3>3. Started(i)' => offset'[i] <= Len(files'[i])
      BY <1>a, <2>1, <2>3 DEF ContentOf
    <3>4. Filled(Other(Front), i)' =>
            /\ buffer'[Other(Front)][i].from = End(Front, i)'
            /\ NextFrom(i)' = End(Other(Front), i)'
      BY <1>a, <2>1, <2>3, <2>4, <2>7, <2>8, <2>9, <2>12, <3>1 DEF ContentOf, RingOf
    <3>5. Filled(Front, i)' /\ ~Filled(Other(Front), i)' => NextFrom(i)' = End(Front, i)'
      BY <1>a, <2>1, <2>3, <2>4, <2>7, <2>8, <2>9, <2>12, <3>1 DEF ContentOf, RingOf
    <3>6. QED
      BY <2>1, <3>2, <3>3, <3>4, <3>5 DEF ContentOf
  <2>14. Position(i)' = Position(i)
    <3>1. Filled(Front, i)' <=> size'[Front][i] # 0
      BY DEF Filled
    <3>2. CASE w = Front
      BY <2>1, <2>3, <2>5, <2>12, <3>1, <3>2 DEF Position, Filled
    <3>3. CASE w = Other(Front) /\ Other(w) = Front
      <4>1. Filled(Front, i)
        BY <1>a, <2>1, <2>7, <2>8, <2>9, <3>3 DEF RingOf, Filled, Other
      <4>2. Filled(Front, i)'
        BY <2>2, <2>7, <3>1, <3>3, <4>1 DEF Filled, Other
      <4>3. QED
        BY <2>3, <4>1, <4>2 DEF Position
    <3>4. QED
      BY <2>7, <3>2, <3>3 DEF Other
  <2>15. QED
    BY <2>10, <2>11, <2>13, <2>14
<1>7. CASE PublishBuffer(i)
  <2> DEFINE w == writeIndex[i]
  <2>1. /\ rpc[i] = "publish" /\ rpc'[i] = "notify" /\ Started(i) /\ Started(i)'
        /\ size[w][i] = 0 /\ w \in Index
    BY <1>a, <1>7 DEF PublishBuffer, RingOf, Filled, Started, Entered
  <2>2. /\ size'[w][i] = buffer[w][i].len
        /\ \A b \in Index : b # w => size'[b][i] = size[b][i]
    BY <1>7, <2>1, ContextTypes DEF PublishBuffer, SetSize
  <2>3. /\ state' = state /\ buffer' = buffer /\ exceptionPtr' = exceptionPtr
        /\ writeIndex' = writeIndex /\ offset' = offset /\ w' = w /\ Other(w)' = Other(w)
    BY <1>7 DEF PublishBuffer, Other
  <2>4. /\ RegionOf(w, i) /\ offset[i] = End(w, i)
        /\ buffer[w][i].len = 0 <=> rpc[i] = "eof"
        /\ buffer[w][i].len \in 0 .. kTargetBufferSize
    BY <1>a, <2>1, ContextTypes DEF ContentOf
  <2>5. /\ size'[w][i] # 0 /\ (size'[w][i] = kThreadDone <=> rpc[i] = "eof")
        /\ size'[w][i] = IF buffer[w][i].len = 0 THEN kThreadDone ELSE buffer[w][i].len
    BY <1>b, <2>1, <2>2, <2>4, ConstantsAssumption
  <2>6. \A b \in Index : size[b][i] # kThreadDone
    BY <1>a, <2>1 DEF StopOf, Done
  <2>7. (w = 0 \/ w = 1) /\ (Front = 0 \/ Front = 1)
    BY <2>1
  <2>8. Filled(w, i)' /\ ~Filled(w, i) /\ (Filled(Other(w), i)' <=> Filled(Other(w), i))
    <3>1. Filled(w, i)' <=> size'[w][i] # 0
      BY <2>3 DEF Filled
    <3>2. Filled(Other(w), i)' <=> size'[Other(w)][i] # 0
      BY <2>3 DEF Filled
    <3>3. size'[Other(w)][i] = size[Other(w)][i]
      BY <2>2, <2>7 DEF Other
    <3>4. QED
      BY <2>1, <2>5, <3>1, <3>2, <3>3 DEF Filled
  <2>9. Back(i) = w /\ Back(i)' = Other(w)
    BY <1>b, <2>1, <2>3, <2>5 DEF Back, Other
  <2> HIDE DEF w
  <2>10. RingOf(i)'
    BY <1>a, <2>1, <2>2, <2>3, <2>5, <2>7, <2>8, <2>9 DEF RingOf, Filled, Other, w
  <2>11. StopOf(i)'
    BY <1>a, <1>b, <2>1, <2>2, <2>3, <2>5, <2>6, <2>7 DEF StopOf, Done, Entered, Other, w
  <2>12. NextFrom(i)' = offset[i] /\ NextFrom(i) = buffer[w][i].from
    BY <2>1, <2>3 DEF NextFrom, w
  <2>13. ContentOf(i)'
    <3>1. \A b \in Index : RegionOf(b, i)' = RegionOf(b, i) /\ End(b, i)' = End(b, i)
      BY <2>3 DEF RegionOf, End
    <3>2. ASSUME NEW b \in Index, Filled(b, i)'
          PROVE  /\ RegionOf(b, i)'
                 /\ size'[b][i] = IF buffer'[b][i].len = 0 THEN kThreadDone ELSE buffer'[b][i].len
      BY <1>a, <2>2, <2>3, <2>4, <2>5, <3>1, <3>2 DEF ContentOf, Filled
    <3>3. Started(i)' => offset'[i] <= Len(files'[i])
      BY <1>a, <2>1, <2>3 DEF ContentOf
    <3>4. Filled(Other(Front), i)' =>
            /\ buffer'[Other(Front)][i].from = End(Front, i)'
            /\ NextFrom(i)' = End(Other(Front), i)'
      BY <1>a, <2>1, <2>3, <2>4, <2>7, <2>8, <2>9, <2>12, <3>1 DEF ContentOf, RingOf
    <3>5. Filled(Front, i)' /\ ~Filled(Other(Front), i)' => NextFrom(i)' = End(Front, i)'
      BY <1>a, <2>1, <2>3, <2>4, <2>7, <2>8, <2>9, <2>12, <3>1 DEF ContentOf, RingOf
    <3>6. QED
      BY <2>1, <3>2, <3>3, <3>4, <3>5 DEF ContentOf
  <2>14. Position(i)' = Position(i)
    <3>1. Filled(Front, i)' <=> size'[Front][i] # 0
      BY DEF Filled
    <3>2. CASE w = Front
      BY <2>1, <2>3, <2>5, <2>12, <3>1, <3>2 DEF Position, Filled
    <3>3. CASE w = Other(Front) /\ Other(w) = Front
      <4>1. Filled(Front, i)
        BY <1>a, <2>1, <2>7, <2>8, <2>9, <3>3 DEF RingOf, Filled, Other
      <4>2. Filled(Front, i)'
        BY <2>2, <2>7, <3>1, <3>3, <4>1 DEF Filled, Other
      <4>3. QED
        BY <2>3, <4>1, <4>2 DEF Position
    <3>4. QED
      BY <2>7, <3>2, <3>3 DEF Other
  <2>15. QED
    BY <2>10, <2>11, <2>13, <2>14
<1>8. CASE NotifyData(i)
  <2>1. RingOf(i)'
    BY <1>a, <1>b, <1>8 DEF context, NotifyData, NotifyMaster, RingOf, StopOf, Started, Entered, Filled, Back, Done, Other
  <2>2. StopOf(i)'
    BY <1>a, <1>8, ContextTypes DEF context, NotifyData, NotifyMaster, RingOf, StopOf, Started, Entered, Filled, Done
  <2>3. ContentOf(i)'
    BY <1>a, <1>8, ContextTypes DEF context, NotifyData, NotifyMaster, RingOf, ContentOf, RegionOf, End, Started, Entered, Filled, NextFrom
  <2>4. Position(i)' = Position(i)
    BY <1>a, <1>8, ContextTypes DEF context, NotifyData, NotifyMaster, RingOf, Position, Started, Entered, Filled, NextFrom
  <2>5. QED
    BY <2>1, <2>2, <2>3, <2>4
<1>9. CASE StoreException(i)
  <2>1. RingOf(i)'
    BY <1>a, <1>9, ContextTypes DEF context, StoreException, RingOf, StopOf, Started, Entered, Filled, Back
  <2>2. StopOf(i)'
    BY <1>a, <1>9, ContextTypes DEF context, StoreException, RingOf, StopOf, Started, Entered, Filled, Done
  <2>3. ContentOf(i)'
    BY <1>a, <1>9, ContextTypes DEF context, StoreException, RingOf, ContentOf, RegionOf, End, Started, Entered, Filled, NextFrom
  <2>4. Position(i)' = Position(i)
    BY <1>a, <1>9, ContextTypes DEF context, StoreException, RingOf, Position, Started, Entered, Filled, NextFrom
  <2>5. QED
    BY <2>1, <2>2, <2>3, <2>4
<1>10. CASE AbortOther(i)
  <2>1. RingOf(i)'
    BY <1>a, <1>10, ContextTypes DEF context, AbortOther, Other, RingOf, StopOf, Started, Entered, Filled, Back
  <2>2. StopOf(i)'
    BY <1>a, <1>10, ContextTypes DEF context, AbortOther, Other, RingOf, StopOf, Started, Entered, Filled, Done
  <2>3. ContentOf(i)'
    BY <1>a, <1>10, ContextTypes DEF context, AbortOther, Other, RingOf, ContentOf, RegionOf, End, Started, Entered, Filled, NextFrom
  <2>4. Position(i)' = Position(i)
    BY <1>a, <1>10, ContextTypes DEF context, AbortOther, Other, RingOf, Position, Started, Entered, Filled, NextFrom
  <2>5. QED
    BY <2>1, <2>2, <2>3, <2>4
<1>11. CASE AbortOtherNotify(i)
  <2>1. RingOf(i)'
    BY <1>a, <1>11, ContextTypes DEF context, AbortOtherNotify, Other, Woken, RingOf, StopOf, Started, Entered, Filled, Back
  <2>2. StopOf(i)'
    BY <1>a, <1>11, ContextTypes DEF context, AbortOtherNotify, Other, Woken, RingOf, StopOf, Started, Entered, Filled, Done
  <2>3. ContentOf(i)'
    BY <1>a, <1>11, ContextTypes DEF context, AbortOtherNotify, Other, Woken, RingOf, ContentOf, RegionOf, End, Started, Entered, Filled, NextFrom
  <2>4. Position(i)' = Position(i)
    BY <1>a, <1>11, ContextTypes DEF context, AbortOtherNotify, Other, Woken, RingOf, Position, Started, Entered, Filled, NextFrom
  <2>5. QED
    BY <2>1, <2>2, <2>3, <2>4
<1>12. CASE BecomeIdle(i)
  <2>1. RingOf(i)'
    BY <1>a, <1>12, ContextTypes DEF context, BecomeIdle, RingOf, StopOf, Started, Entered, Filled, Back
  <2>2. StopOf(i)'
    BY <1>a, <1>12, ContextTypes DEF context, BecomeIdle, RingOf, StopOf, Started, Entered, Filled, Done
  <2>3. ContentOf(i)'
    BY <1>a, <1>12, ContextTypes DEF context, BecomeIdle, RingOf, ContentOf, RegionOf, End, Started, Entered, Filled, NextFrom
  <2>4. Position(i)' = Position(i)
    BY <1>a, <1>12, ContextTypes DEF context, BecomeIdle, RingOf, Position, Started, Entered, Filled, NextFrom
  <2>5. QED
    BY <2>1, <2>2, <2>3, <2>4
<1>13. CASE NotifyDone(i)
  <2>1. RingOf(i)'
    BY <1>a, <1>13, ContextTypes DEF context, NotifyDone, NotifyMaster, RingOf, StopOf, Started, Entered, Filled, Back
  <2>2. StopOf(i)'
    BY <1>a, <1>13, ContextTypes DEF context, NotifyDone, NotifyMaster, RingOf, StopOf, Started, Entered, Filled, Done
  <2>3. ContentOf(i)'
    BY <1>a, <1>13, ContextTypes DEF context, NotifyDone, NotifyMaster, RingOf, ContentOf, RegionOf, End, Started, Entered, Filled, NextFrom
  <2>4. Position(i)' = Position(i)
    BY <1>a, <1>13, ContextTypes DEF context, NotifyDone, NotifyMaster, RingOf, Position, Started, Entered, Filled, NextFrom
  <2>5. QED
    BY <2>1, <2>2, <2>3, <2>4
<1>14. QED
  BY <1>1, <1>2, <1>3, <1>4, <1>5, <1>6, <1>7, <1>8, <1>9, <1>10, <1>11, <1>12, <1>13 DEF Reader

-----------------------------------------------------------------------------
(* The readers' part of the invariant, and with it the place where the two  *)
(* files are compared next.                                                 *)

\* A filled buffer is left alone by the readers.
LEMMA ReaderKeepsFilled ==
  ASSUME IInv, NEW i \in Index, Reader(i), mpc \in MasterInside,
         NEW b \in Index, NEW j \in Index, Filled(b, j)
  PROVE  size'[b][j] = size[b][j] /\ buffer'[b][j] = buffer[b][j]
<1>1. CASE i # j
  BY <1>1, QuietOther DEF Quiet
<1>2. CASE i = j
  <2>1. RingOf(i)
    BY DEF IInv, ReadersInv
  <2>2. rpc[i] \in {"read", "publish", "eof"} => b # writeIndex[i]
    BY <2>1, <1>2 DEF RingOf
  <2> USE Types, ContextTypes DEF Reader, context
  <2>3. CASE ReadFile(i)
    BY <1>2, <2>2, <2>3 DEF ReadFile
  <2>4. CASE EndOfFile(i)
    BY <1>2, <2>2, <2>4 DEF EndOfFile, SetSize
  <2>5. CASE PublishBuffer(i)
    BY <1>2, <2>2, <2>5 DEF PublishBuffer, SetSize
  <2>6. CASE ~(ReadFile(i) \/ EndOfFile(i) \/ PublishBuffer(i))
    BY <2>6 DEF WaitForCompare, OpenFile, WaitForFreeBuffer, CheckState, NotifyData,
                StoreException, AbortOther, AbortOtherNotify, BecomeIdle, NotifyDone
  <2>7. QED
    BY <2>3, <2>4, <2>5, <2>6
<1>3. QED
  BY <1>1, <1>2

\* ReleaseBuffers keeps the reader's invariants and moves the compared part on
\* by the size of the released buffer.
LEMMA ReleaseReader ==
  ASSUME IInv, NEW i \in Index, ReleaseBuffers
  PROVE  /\ RingOf(i)' /\ StopOf(i)' /\ ContentOf(i)'
         /\ Filled(readIndex, i)
         /\ buffer[readIndex][i].len = size[readIndex][i]
         /\ Position(i) = buffer[readIndex][i].from
         /\ Position(i)' = End(readIndex, i)
<1> DEFINE r == readIndex
           o == Other(readIndex)
<1>1. /\ mpc = "release" /\ mpc' = "releaseNotify" /\ r' = r /\ o' = o /\ o # r
      /\ r \in Index /\ o \in Index /\ Front = r /\ Front' = o /\ Other(Front)' = r
      /\ writeIndex[i] \in Index /\ (writeIndex[i] = r \/ writeIndex[i] = o) /\ Other(o) = r
  BY Types DEF ReleaseBuffers, Front, Other
<1>2. /\ size'[r][i] = 0 /\ size'[o][i] = size[o][i]
      /\ state' = state /\ files' = files /\ bufferSize' = bufferSize /\ buffer' = buffer
      /\ exceptionPtr' = exceptionPtr /\ rpc' = rpc /\ writeIndex' = writeIndex /\ offset' = offset
  BY <1>1, ContextTypes DEF ReleaseBuffers, reader
<1>3. RingOf(i) /\ StopOf(i) /\ ContentOf(i)
  BY <1>1 DEF IInv, ReadersInv
<1>4. size[r][i] \notin {0, kThreadDone} /\ kThreadDone # 0
  BY <1>1, ConstantsAssumption DEF IInv, ProgressInv
<1>5. Filled(r, i) /\ Started(i) /\ Started(i)' /\ (Entered(i)' <=> Entered(i))
  BY <1>1, <1>2, <1>3, <1>4 DEF RingOf, Filled, Started, Entered
<1>6. buffer[r][i].len = size[r][i]
  BY <1>1, <1>3, <1>4, <1>5 DEF ContentOf
<1>7. Position(i) = buffer[r][i].from
  BY <1>1, <1>5 DEF Position
<1>8. Back(i)' = Back(i)
  BY <1>1, <1>2, <1>4 DEF Back, Other
<1>9. NextFrom(i)' = NextFrom(i)
  BY <1>2, <1>5 DEF NextFrom
<1>10. ~Filled(r, i)' /\ (Filled(o, i)' <=> Filled(o, i))
  BY <1>1, <1>2 DEF Filled
<1>11. Back(i) \in Index
  BY <1>1 DEF Back, Other
<1>12. RingOf(i)'
  BY <1>1, <1>2, <1>3, <1>4, <1>5, <1>8, <1>10, <1>11 DEF RingOf, Filled, Other
<1>13. StopOf(i)'
  BY <1>1, <1>2, <1>3, <1>4, <1>5 DEF StopOf, Done, Other
<1>14. ContentOf(i)'
  BY <1>1, <1>2, <1>3, <1>5, <1>9, <1>10 DEF ContentOf, Filled, RegionOf, End, Other
<1>15. Position(i)' = End(r, i)
  BY <1>1, <1>2, <1>3, <1>5, <1>9, <1>10 DEF Position, ContentOf, Filled, Other
<1>16. QED
  BY <1>5, <1>6, <1>7, <1>12, <1>13, <1>14, <1>15

\* Every step that stays inside Compare keeps the readers' invariants, and
\* moves the position of a file only when the master hands buffers back.
LEMMA InsideStep ==
  ASSUME IInv, NEW j \in Index, Next, mpc \in MasterInside, mpc' \in MasterInside
  PROVE  /\ RingOf(j)' /\ StopOf(j)' /\ ContentOf(j)'
         /\ ReleaseBuffers \/ Position(j)' = Position(j)
<1>1. CASE ReleaseBuffers
  BY <1>1, ReleaseReader
<1>2. CASE Master /\ ~ReleaseBuffers
  BY <1>2, QuietMaster, QuietReader, QuietPredicates
<1>3. ASSUME NEW i \in Index, Reader(i), i # j
      PROVE  RingOf(j)' /\ StopOf(j)' /\ ContentOf(j)' /\ Position(j)' = Position(j)
  BY <1>3, QuietOther, QuietReader, QuietPredicates
<1>4. CASE Reader(j)
  BY <1>4, OwnStep
<1>5. CASE Spurious
  BY <1>5, QuietSpurious, QuietReader, QuietPredicates
<1>6. ~Caller
  BY DEF Caller, Compare, Shutdown
<1>7. QED
  BY <1>1, <1>2, <1>3, <1>4, <1>5, <1>6 DEF Next

\* No step enters Compare but the call itself.
LEMMA Entering ==
  ASSUME IInv, [Next]_vars, mpc \notin MasterInside, mpc' \in MasterInside
  PROVE  Compare
BY Types DEF Next, Caller, Master, Reader, Spurious, vars, master, Shutdown, StartNotify,
   WaitForData, CheckException, CheckSize, CompareBuffers, AbortThreads, AbortNotify, ReleaseBuffers,
   ReleaseNotify, JoinThreads, ShutdownNotify, Destroyed, WaitForCompare, OpenFile,
   WaitForFreeBuffer, CheckState, ReadFile, EndOfFile, PublishBuffer, NotifyData, StoreException,
   AbortOther, AbortOtherNotify, BecomeIdle, NotifyDone, NotifyMaster

\* A new call finds both readers with nothing read and nothing published.
LEMMA CompareReaders ==
  ASSUME IInv, NEW j \in Index, Compare
  PROVE  /\ RingOf(j)' /\ StopOf(j)' /\ ReasonOf(j)' /\ ContentOf(j)'
         /\ Position(j)' = 0
<1>1. /\ ~Entered(j)' /\ ~Started(j)' /\ state'[j] = "Running" /\ rpc' = rpc
      /\ rpc[j] \notin ReaderInside \union {"leave"}
  BY Types DEF Compare, IInv, ThreadsInv, Entered, Started, reader
<1>2. /\ \A b \in Index : size'[b][j] = 0
      /\ ~exceptionPtr'[j] /\ Front' = 0 /\ kThreadDone # 0 /\ mpc' = "start"
  BY ConstantsAssumption DEF Compare, Front
<1>3. ~Done(j)' /\ (\A b \in Index : ~Filled(b, j)')
  BY <1>2 DEF Done, Filled
<1>4. ~Filled(Front, j)' /\ ~Filled(Other(Front), j)'
  BY <1>2 DEF Filled, Other
<1>5. RingOf(j)'
  BY <1>1, <1>2, <1>3, <1>4 DEF RingOf
<1>6. StopOf(j)'
  BY <1>1, <1>2, <1>3 DEF StopOf
<1>7. ReasonOf(j)'
  BY <1>1 DEF ReasonOf
<1>8. ContentOf(j)'
  BY <1>1, <1>3, <1>4 DEF ContentOf
<1>9. Position(j)' = 0
  BY <1>1, <1>4 DEF Position, NextFrom
<1>10. QED
  BY <1>5, <1>6, <1>7, <1>8, <1>9

-----------------------------------------------------------------------------
\* Exceptions are recorded until the next call.
LEMMA ReaderKeepsExceptions ==
  ASSUME IInv, NEW i \in Index, Reader(i), NEW j \in Index, exceptionPtr[j]
  PROVE  exceptionPtr'[j]
BY Types DEF Reader, WaitForCompare, OpenFile, WaitForFreeBuffer, CheckState, ReadFile, EndOfFile,
   PublishBuffer, NotifyData, StoreException, AbortOther, AbortOtherNotify, BecomeIdle,
   NotifyDone, context

\* The only steps that abort a reader, or stop one, while a comparison runs.
LEMMA ReasonReader ==
  ASSUME IInv, NEW i \in Index, Reader(i), NEW j \in Index, Running
  PROVE  ReasonOf(j)'
<1>1. mpc \in MasterInside /\ Running'
  BY OwnFrame DEF Running
<1>2. /\ RingOf(i) /\ StopOf(i) /\ ReasonOf(i) /\ ReasonOf(j) /\ StopOf(j)
  BY <1>1 DEF IInv, ReadersInv
<1>3. (\E k \in Index : exceptionPtr[k]) => (\E k \in Index : exceptionPtr'[k])
  BY ReaderKeepsExceptions
<1>4. kThreadDone # 0
  BY ConstantsAssumption
<1>5. Done(j) => Done(j)'
  <2>1. ASSUME NEW b \in Index, size[b][j] = kThreadDone PROVE size'[b][j] = kThreadDone
    BY <1>1, <1>4, <2>1, ReaderKeepsFilled DEF Filled
  <2>2. QED
    BY <2>1 DEF Done
<1>6. state'[j] = "Abort" => exceptionPtr'[Other(j)]
  <2>1. CASE state[j] = "Abort"
    BY <1>2, <2>1, ReaderKeepsExceptions DEF ReasonOf, Other
  <2>2. CASE AbortOther(i)
    BY <1>2, <2>2, Types DEF AbortOther, ReasonOf, StopOf, Other, context
  <2>3. CASE state[j] # "Abort" /\ ~AbortOther(i)
    BY <2>3, Types DEF Reader, WaitForCompare, OpenFile, WaitForFreeBuffer, CheckState, ReadFile,
       EndOfFile, PublishBuffer, NotifyData, StoreException, AbortOtherNotify, BecomeIdle, NotifyDone
  <2>4. QED
    BY <2>1, <2>2, <2>3
<1>7. rpc'[j] = "leave" \/ state'[j] = "Idle" => Done(j)' \/ \E k \in Index : exceptionPtr'[k]
  <2>1. CASE rpc[j] = "leave" \/ state[j] = "Idle"
    BY <1>2, <1>3, <1>5, <2>1 DEF ReasonOf
  <2>2. CASE rpc[j] # "leave" /\ state[j] # "Idle" /\ i # j
    BY <2>2, <1>1, QuietOther DEF Quiet, Woken, ClientWait
  <2>3. CASE rpc[j] # "leave" /\ state[j] # "Idle" /\ i = j
    <3>1. CASE CheckState(j)
      <4>1. rpc'[j] = "leave" => state[j] = "Abort"
        BY <3>1, Types DEF CheckState, IInv, ThreadsInv, Entered
      <4>2. QED
        BY <1>2, <1>3, <2>3, <3>1, <4>1 DEF ReasonOf, Other, CheckState
    <3>2. CASE EndOfFile(j)
      BY <3>2, Types, ContextTypes DEF EndOfFile, SetSize, Done
    <3>3. CASE AbortOtherNotify(j)
      BY <1>2, <1>3, <2>3, <3>3 DEF AbortOtherNotify, StopOf
    <3>4. CASE ~(CheckState(j) \/ EndOfFile(j) \/ AbortOtherNotify(j))
      BY <2>3, <3>4, Types DEF Reader, WaitForCompare, OpenFile, WaitForFreeBuffer, ReadFile,
         PublishBuffer, NotifyData, StoreException, AbortOther, BecomeIdle, NotifyDone, Other
    <3>5. QED
      BY <3>1, <3>2, <3>3, <3>4
  <2>4. QED
    BY <2>1, <2>2, <2>3
<1>8. QED
  BY <1>6, <1>7 DEF ReasonOf

\* Within a call, a stopped reader keeps a reason to have stopped.
LEMMA ReasonStep ==
  ASSUME IInv, NEW j \in Index, Next, mpc \in MasterInside, mpc' \in MasterInside
  PROVE  ReasonOf(j)'
<1>1. ASSUME NEW i \in Index, Reader(i) PROVE ReasonOf(j)'
  BY <1>1, ReasonReader, OwnFrame DEF ReasonOf
<1>2. CASE Spurious
  BY <1>2, Types DEF Spurious, IInv, ReadersInv, ReasonOf, Running, Done, NotifyMaster, ClientWait,
     Woken, master, context, reader
<1>3. CASE Master
  <2>1. Running' => Running
    BY <1>3 DEF Running, Master, StartNotify, WaitForData, CheckException, CheckSize, CompareBuffers,
       AbortThreads, AbortNotify, ReleaseBuffers, ReleaseNotify, JoinThreads, ShutdownNotify,
       Destroyed
  <2>2. Running' => state' = state /\ exceptionPtr' = exceptionPtr
    BY <1>3 DEF Running, Master, StartNotify, WaitForData, CheckException, CheckSize, CompareBuffers,
       AbortThreads, AbortNotify, ReleaseBuffers, ReleaseNotify, JoinThreads, ShutdownNotify,
       Destroyed, context
  <2>3. rpc'[j] = "leave" => rpc[j] = "leave"
    BY <1>3, Types DEF Master, StartNotify, WaitForData, CheckException, CheckSize, CompareBuffers,
       AbortThreads, AbortNotify, ReleaseBuffers, ReleaseNotify, JoinThreads, ShutdownNotify,
       Destroyed, NotifyClients, Woken, reader
  <2>4. Done(j) => Done(j)'
    <3>1. CASE ReleaseBuffers
      <4>1. size[readIndex][j] # kThreadDone
        BY <3>1, Types DEF ReleaseBuffers, IInv, ProgressInv
      <4>2. QED
        BY <3>1, <4>1, Types, ContextTypes DEF ReleaseBuffers, Done
    <3>2. CASE ~ReleaseBuffers
      BY <1>3, <3>2, QuietMaster, QuietPredicates
    <3>3. QED
      BY <3>1, <3>2
  <2>5. QED
    BY <2>1, <2>2, <2>3, <2>4 DEF IInv, ReadersInv, ReasonOf
<1>4. QED
  BY <1>1, <1>2, <1>3 DEF Next, Caller, Compare, Shutdown

\* Every step keeps the invariants of both readers.
LEMMA ReadersStep == IInv /\ [Next]_vars => ReadersInv'
<1> SUFFICES ASSUME IInv, [Next]_vars, mpc' \in MasterInside, NEW j \in Index
             PROVE  RingOf(j)' /\ StopOf(j)' /\ ReasonOf(j)' /\ ContentOf(j)'
  BY DEF ReadersInv
<1>1. CASE mpc \notin MasterInside
  BY <1>1, Entering, CompareReaders
<1>2. CASE mpc \in MasterInside /\ Next
  BY <1>2, InsideStep, ReasonStep
<1>3. CASE mpc \in MasterInside /\ UNCHANGED vars
  <2>1. Quiet(j)
    BY <1>3 DEF Quiet, vars, master, context, reader, Front, Other
  <2>2. ReasonOf(j)
    BY <1>3 DEF IInv, ReadersInv
  <2>3. ReasonOf(j)'
    BY <1>3, <2>2 DEF ReasonOf, Running, Done, vars, master, context, reader
  <2>4. QED
    BY <2>1, <2>3, QuietReader
<1>4. QED
  BY <1>1, <1>2, <1>3

-----------------------------------------------------------------------------
\* What the master knows when it looks at the buffers.
LEMMA DataStep == IInv /\ [Next]_vars => DataReady'
<1> SUFFICES ASSUME IInv, [Next]_vars PROVE DataReady'
  OBVIOUS
<1>1. DataReady /\ readIndex \in Index /\ kThreadDone # 0 /\ kThreadDone \in Nat
  BY Types, ConstantsAssumption DEF IInv
<1>2. ASSUME NEW i \in Index, Reader(i) PROVE DataReady'
  <2>1. CASE mpc \in {"excTest", "sizeTest", "cmp"}
    <3>1. /\ readIndex' = readIndex /\ mpc' = mpc /\ bufferSize' = bufferSize
      BY <1>2, <2>1, OwnFrame DEF Reader, WaitForCompare, OpenFile, WaitForFreeBuffer, CheckState,
         ReadFile, EndOfFile, PublishBuffer, NotifyData, StoreException, AbortOther,
         AbortOtherNotify, BecomeIdle, NotifyDone, NotifyMaster, master
    <3>2. \A j \in Index : size[readIndex][j] # 0 => size'[readIndex][j] = size[readIndex][j]
      BY <1>1, <1>2, <2>1, ReaderKeepsFilled DEF Filled
    <3>3. (\E j \in Index : exceptionPtr[j]) => (\E j \in Index : exceptionPtr'[j])
      BY <1>2, ReaderKeepsExceptions
    <3>4. mpc = "cmp" => size[readIndex][0] # 0 /\ size[readIndex][1] # 0
      BY <1>1, ContextTypes DEF DataReady
    <3>5. QED
      BY <1>1, <2>1, <3>1, <3>2, <3>3, <3>4 DEF DataReady, NoData
  <2>2. CASE mpc \notin {"excTest", "sizeTest", "cmp"}
    BY <1>2, <2>2 DEF DataReady, Reader, WaitForCompare, OpenFile, WaitForFreeBuffer, CheckState,
       ReadFile, EndOfFile, PublishBuffer, NotifyData, StoreException, AbortOther,
       AbortOtherNotify, BecomeIdle, NotifyDone, NotifyMaster, master
  <2>3. QED
    BY <2>1, <2>2
<1>3. CASE WaitForData
  <2>1. SUFFICES ASSUME ~DataMissing, NoData(readIndex), \A i \in Index : ~exceptionPtr[i]
                 PROVE  FALSE
    BY <1>3 DEF WaitForData, DataReady, context, NoData
  <2>2. Running /\ mpc = "dataTest" /\ Front = readIndex
    BY <1>3 DEF WaitForData, Running, Front
  <2>3. PICK i \in Index : size[readIndex][i] = 0
    BY <2>1 DEF NoData
  <2>4. RingOf(i) /\ StopOf(i) /\ ReasonOf(i)
    BY <2>2 DEF IInv, ReadersInv
  <2>5. state[i] = "Idle"
    <3>1. state[i] # "Running"
      BY <2>1 DEF DataMissing
    <3>2. state[i] # "Abort"
      BY <2>1, <2>2, <2>4 DEF ReasonOf, Other
    <3>3. state[i] # "Shutdown"
      BY <2>2 DEF IInv, ThreadsInv
    <3>4. QED
      BY <3>1, <3>2, <3>3, Types
  <2>6. Done(i)
    BY <2>1, <2>2, <2>4, <2>5 DEF ReasonOf
  <2>7. size[writeIndex[i]][i] = kThreadDone
    BY <2>4, <2>6 DEF StopOf
  <2>8. writeIndex[i] = Other(Front)
    BY <1>1, <2>2, <2>3, <2>7, Types DEF Other
  <2>9. QED
    BY <1>1, <2>2, <2>3, <2>4, <2>7, <2>8 DEF RingOf, Filled
<1>4. CASE CheckException
  <2>1. \A i \in Index : rpc[i] = "throw" => ~exceptionPtr[i]
    BY <1>4 DEF CheckException, IInv, ReadersInv, StopOf
  <2>2. QED
    BY <1>1, <1>4, <2>1 DEF CheckException, DataReady, context, NoData, reader
<1>5. CASE CheckSize
  <2>1. CASE mpc' # "cmp"
    BY <1>5, <2>1 DEF CheckSize, DataReady
  <2>2. CASE mpc' = "cmp"
    <3> DEFINE r == readIndex
    <3>1. /\ size[r][0] = size[r][1] /\ size[r][0] # kThreadDone /\ mpc = "sizeTest"
          /\ UNCHANGED <<readIndex, context>>
      BY <1>5, <2>2 DEF CheckSize
    <3>2. size[r][0] # 0 /\ Filled(r, 0)
      BY <1>1, <3>1 DEF DataReady, NoData, Filled
    <3>3. ContentOf(0)
      BY <3>1 DEF IInv, ReadersInv
    <3>4. size[r][0] = buffer[r][0].len /\ RegionOf(r, 0)
      BY <1>1, <3>1, <3>2, <3>3 DEF ContentOf
    <3>5. buffer[r][0].len \in Nat /\ buffer[r][0].from \in Nat /\ bufferSize \in Nat
      BY <1>1, ContextTypes, ConstantsAssumption
    <3>6. Len(files[0]) \in Nat
      BY FileLength DEF IInv
    <3>7. Len(files[0]) - buffer[r][0].from \in Nat
      BY <3>4, <3>5, <3>6 DEF RegionOf
    <3>8. buffer[r][0].len <= bufferSize
      BY <3>4, <3>5, <3>7, SmallerFact DEF RegionOf
    <3>9. QED
      BY <2>2, <3>1, <3>2, <3>4, <3>5, <3>8 DEF DataReady, context
  <2>3. QED
    BY <2>1, <2>2
<1>6. CASE Spurious
  BY <1>1, <1>6 DEF Spurious, DataReady, NotifyMaster, master, context, reader, NoData
<1>7. CASE UNCHANGED vars
  BY <1>1, <1>7 DEF vars, DataReady, master, context, reader, NoData
<1>8. CASE \/ Caller \/ StartNotify \/ CompareBuffers \/ AbortThreads \/ AbortNotify
           \/ ReleaseBuffers \/ ReleaseNotify \/ JoinThreads \/ ShutdownNotify \/ Destroyed
  BY <1>8 DEF Caller, Compare, Shutdown, StartNotify, CompareBuffers, AbortThreads, AbortNotify,
     ReleaseBuffers, ReleaseNotify, JoinThreads, ShutdownNotify, Destroyed, DataReady
<1>9. QED
  BY <1>2, <1>3, <1>4, <1>5, <1>6, <1>7, <1>8 DEF Next, Master

-----------------------------------------------------------------------------
\* The comparison moves on by equal bytes only.
LEMMA ProgressStep == IInv /\ [Next]_vars => ProgressInv'
<1> SUFFICES ASSUME IInv, [Next]_vars PROVE ProgressInv'
  OBVIOUS
<1>1. ProgressInv /\ readIndex \in Index /\ kThreadDone # 0
  BY Types, ConstantsAssumption DEF IInv
<1>2. CASE UNCHANGED vars
  <2>1. ASSUME Running PROVE Position(0)' = Position(0) /\ Position(1)' = Position(1)
    <3>1. \A j \in Index : Quiet(j)
      BY <1>2, <2>1 DEF Quiet, vars, master, context, reader, Front, Other, Running
    <3>2. QED
      BY <3>1, QuietPredicates
  <2>2. Running' = Running
    BY <1>2 DEF Running, vars, master
  <2>3. UNCHANGED <<mpc, readIndex, size, buffer, files>>
    BY <1>2 DEF vars, master, context
  <2>4. QED
    BY <1>1, <2>1, <2>2, <2>3 DEF ProgressInv, SameBytes
<1>3. CASE Compare
  BY <1>3, CompareReaders DEF Compare, ProgressInv, Running
<1>4. CASE ReleaseBuffers
  <2> DEFINE r == readIndex
             p == buffer[r][0].from
             n == size[r][0]
  <2>1. /\ mpc = "release" /\ files' = files
        /\ size[r][0] = size[r][1] /\ SameBytes(r)
        /\ Position(0) = Position(1)
        /\ \A k \in 1 .. Position(0) : files[0][k] = files[1][k]
    BY <1>1, <1>4 DEF ReleaseBuffers, ProgressInv, Running
  <2>2. \A i \in Index : /\ buffer[r][i].len = size[r][i]
                         /\ Position(i) = buffer[r][i].from
                         /\ Position(i)' = buffer[r][i].from + buffer[r][i].len
    BY <1>4, ReleaseReader DEF End
  <2>3. /\ Position(0) = p /\ Position(0)' = p + n /\ Position(1)' = p + n
        /\ buffer[r][1].from = p
    BY <2>1, <2>2
  <2>4. p \in Nat /\ n \in Nat
    <3>1. buffer[r][0] \in Region /\ size[r][0] \in 0 .. kTargetBufferSize \union {kThreadDone}
      BY <1>1, ContextTypes
    <3>2. QED
      BY <3>1, ConstantsAssumption
  <2>5. \A k \in 1 .. n : files[0][p + k] = files[1][p + k]
    BY <2>1, <2>3 DEF SameBytes
  <2>6. \A k \in 1 .. p : files[0][k] = files[1][k]
    BY <2>1, <2>3
  <2> HIDE DEF p, n
  <2>7. ASSUME NEW k \in 1 .. (p + n) PROVE files[0][k] = files[1][k]
    <3>1. CASE k <= p
      BY <2>4, <2>6, <2>7, <3>1
    <3>2. CASE k > p
      <4>1. k - p \in 1 .. n /\ p + (k - p) = k
        BY <2>4, <2>7, <3>2
      <4>2. QED
        BY <2>5, <4>1
    <3>3. QED
      BY <2>4, <2>7, <3>1, <3>2
  <2>8. mpc' = "releaseNotify"
    BY <1>4 DEF ReleaseBuffers
  <2>9. QED
    BY <2>1, <2>3, <2>7, <2>8 DEF ProgressInv, Running
<1>5. CASE Next /\ ~ReleaseBuffers /\ ~Compare
  <2>1. Running' => Running
    BY <1>5, Types DEF Running, Next, Caller, Master, Reader, Spurious, master, Shutdown, StartNotify,
       WaitForData, CheckException, CheckSize, CompareBuffers, AbortThreads, AbortNotify,
       ReleaseNotify, JoinThreads, ShutdownNotify, Destroyed, WaitForCompare, OpenFile,
       WaitForFreeBuffer, CheckState, ReadFile, EndOfFile, PublishBuffer, NotifyData,
       StoreException, AbortOther, AbortOtherNotify, BecomeIdle, NotifyDone, NotifyMaster
  <2>2. ASSUME Running, Running'
        PROVE  Position(0)' = Position(0) /\ Position(1)' = Position(1)
    BY <1>5, <2>2, InsideStep DEF Running
  <2>3. files' = files
    BY <1>5 DEF Next, Caller, Master, Reader, Spurious, context, Shutdown, StartNotify,
       WaitForData, CheckException, CheckSize, CompareBuffers, AbortThreads, AbortNotify,
       ReleaseNotify, JoinThreads, ShutdownNotify, Destroyed, WaitForCompare, OpenFile,
       WaitForFreeBuffer, CheckState, ReadFile, EndOfFile, PublishBuffer, NotifyData,
       StoreException, AbortOther, AbortOtherNotify, BecomeIdle, NotifyDone
  <2>4. /\ Running' => /\ Position(0)' = Position(1)'
                      /\ \A k \in 1 .. Position(0)' : files'[0][k] = files'[1][k]
    BY <1>1, <2>1, <2>2, <2>3 DEF ProgressInv
  <2>5. /\ mpc' \in {"cmp", "release"} =>
             /\ size'[readIndex'][0] = size'[readIndex'][1]
             /\ size'[readIndex'][0] \notin {0, kThreadDone}
        /\ mpc' = "release" => SameBytes(readIndex)'
    <3>1. CASE CheckSize
      BY <1>1, <3>1 DEF CheckSize, context, IInv, DataReady, NoData
    <3>2. CASE CompareBuffers
      BY <1>1, <3>2 DEF CompareBuffers, context, ProgressInv, SameBytes
    <3>3. ASSUME NEW i \in Index, Reader(i), mpc' \in {"cmp", "release"}
          PROVE  /\ size'[readIndex'][0] = size'[readIndex'][1]
                 /\ size'[readIndex'][0] \notin {0, kThreadDone}
                 /\ mpc' = "release" => SameBytes(readIndex)'
      <4>1. mpc' = mpc /\ readIndex' = readIndex
        BY <3>3, Types DEF Reader, WaitForCompare, OpenFile, WaitForFreeBuffer, CheckState,
           ReadFile, EndOfFile, PublishBuffer, NotifyData, StoreException, AbortOther,
           AbortOtherNotify, BecomeIdle, NotifyDone, NotifyMaster, master
      <4>2. size[readIndex][0] = size[readIndex][1] /\ size[readIndex][0] \notin {0, kThreadDone}
        BY <1>1, <3>3, <4>1 DEF ProgressInv
      <4>3. \A j \in Index : /\ size'[readIndex][j] = size[readIndex][j]
                             /\ buffer'[readIndex][j] = buffer[readIndex][j]
        BY <1>1, <3>3, <4>1, <4>2, ReaderKeepsFilled DEF Filled
      <4>4. QED
        BY <1>1, <2>3, <3>3, <4>1, <4>2, <4>3 DEF ProgressInv, SameBytes
    <3>4. CASE Spurious
      BY <1>1, <3>4 DEF Spurious, NotifyMaster, ProgressInv, SameBytes, master, context
    <3>5. CASE \/ Shutdown \/ StartNotify \/ WaitForData \/ CheckException \/ AbortThreads
               \/ AbortNotify \/ ReleaseNotify \/ JoinThreads \/ ShutdownNotify \/ Destroyed
      BY <3>5 DEF Shutdown, StartNotify, WaitForData, CheckException, AbortThreads,
         AbortNotify, ReleaseNotify, JoinThreads, ShutdownNotify, Destroyed
    <3>6. QED
      BY <1>5, <3>1, <3>2, <3>3, <3>4, <3>5 DEF Next, Caller, Master
  <2>6. QED
    BY <2>4, <2>5 DEF ProgressInv
<1>6. QED
  BY <1>2, <1>3, <1>4, <1>5

\* The inductive invariant holds initially.
LEMMA InvInit == Init => IInv
<1>1. Init => TypeOK
  BY TypeInit
<1>2. Init => ThreadsInv /\ ReadersInv /\ ProgressInv /\ DataReady
  BY DEF Init, ThreadsInv, Entered, ReadersInv, ProgressInv, Running, DataReady
<1>3. QED
  BY <1>1, <1>2 DEF IInv

\* The protocol's inductive invariant, for every set of files, every target
\* buffer size and all sector sizes.
THEOREM Invariance == Spec => []IInv
<1>1. IInv /\ [Next]_vars => IInv'
  BY TypeStep, ThreadsStep, ReadersStep, ProgressStep, DataStep DEF IInv
<1>2. QED
  BY InvInit, <1>1, PTL DEF Spec

\* Every variable keeps its type.
THEOREM TypeCorrect == Spec => []TypeOK
BY Invariance, PTL DEF IInv

\* The master finds what it relies on when it looks at the buffers.
THEOREM DataAlwaysReady == Spec => []DataReady
BY Invariance, PTL DEF IInv

\* No buffer is read and compared at the same time.
THEOREM ExclusiveBuffers == Spec => []BuffersExclusive
<1>1. IInv => BuffersExclusive
  <2> SUFFICES ASSUME IInv, mpc = "cmp", NEW i \in Index, rpc[i] = "read",
                      writeIndex[i] = readIndex
               PROVE  FALSE
    BY DEF BuffersExclusive
  <2>1. ~Filled(writeIndex[i], i)
    BY DEF IInv, ReadersInv, RingOf
  <2>2. size[readIndex][i] # 0
    BY ConstantsAssumption DEF IInv, ProgressInv
  <2>3. QED
    BY <2>1, <2>2 DEF Filled
<1>2. QED
  BY <1>1, Invariance, PTL

\* The Context outlives its use, and a call starts with two idle threads.
THEOREM CleanReturns == Spec => []CleanReturn
<1>1. IInv => CleanReturn
  BY Types DEF IInv, ThreadsInv, Entered, CleanReturn
<1>2. QED
  BY <1>1, Invariance, PTL

-----------------------------------------------------------------------------
(* The answer.  A read of no bytes means the end of the file only if the    *)
(* buffer is not empty, hence SectorsFit.                                   *)

\* Where a sector fits into the target size, a buffer is not empty.
LEMMA BufferNotEmpty ==
  ASSUME SectorsFit, NEW chunk \in ChunkSizes
  PROVE  BufferSize(chunk) > 0
<1>1. chunk \in Nat /\ chunk > 0 /\ kTargetBufferSize \in Nat /\ chunk <= kTargetBufferSize
  BY ConstantsAssumption DEF SectorsFit
<1> DEFINE q == kTargetBufferSize \div chunk
<1>2. q \in Nat /\ q >= 1
  BY <1>1
<1>3. q * chunk > 0
  BY <1>1, <1>2
<1>4. QED
  BY <1>3 DEF BufferSize

\* Where the buffers of a half that both readers have filled come from.
LEMMA FilledHalf ==
  ASSUME IInv, Running, mpc # "releaseNotify", ~NoData(readIndex)
  PROVE  \E p \in Nat :
           /\ \A k \in 1 .. p : files[0][k] = files[1][k]
           /\ \A i \in Index :
                LET n == Smaller(bufferSize, Len(files[i]) - p)
                IN  /\ Len(files[i]) \in Nat /\ p <= Len(files[i])
                    /\ buffer[readIndex][i].from = p
                    /\ n \in Nat /\ n <= Len(files[i]) - p /\ n # kThreadDone
                    /\ size[readIndex][i] = IF n = 0 THEN kThreadDone ELSE n
<1> DEFINE r == readIndex
           p == buffer[r][0].from
<1>1. mpc \in MasterInside /\ Front = r /\ r \in Index
  BY Types DEF Running, Front
<1>2. \A i \in Index : Filled(r, i)
  BY DEF NoData, Filled
<1>3. \A i \in Index : Position(i) = buffer[r][i].from
  BY <1>1, <1>2 DEF Position
<1>4. \A i \in Index : buffer[r][i].from = p
  BY <1>3 DEF IInv, ProgressInv
<1>5. \A k \in 1 .. p : files[0][k] = files[1][k]
  BY <1>3 DEF IInv, ProgressInv
<1>6. p \in Nat
  BY <1>1, ContextTypes
<1>7. ASSUME NEW i \in Index
      PROVE  LET n == Smaller(bufferSize, Len(files[i]) - p)
             IN  /\ Len(files[i]) \in Nat /\ p <= Len(files[i])
                 /\ buffer[r][i].from = p
                 /\ n \in Nat /\ n <= Len(files[i]) - p /\ n # kThreadDone
                 /\ size[r][i] = IF n = 0 THEN kThreadDone ELSE n
  <2>1. ContentOf(i)
    BY <1>1 DEF IInv, ReadersInv
  <2>2. Len(files[i]) \in Nat
    BY FileLength DEF IInv
  <2>3. RegionOf(r, i) /\ size[r][i] = IF buffer[r][i].len = 0 THEN kThreadDone ELSE buffer[r][i].len
    BY <1>1, <1>2, <2>1 DEF ContentOf
  <2>4. p <= Len(files[i]) /\ buffer[r][i].len = Smaller(bufferSize, Len(files[i]) - p)
    BY <1>4, <2>3 DEF RegionOf
  <2>5. Len(files[i]) - p \in Nat
    BY <1>6, <2>2, <2>4
  <2>6. bufferSize \in Nat /\ bufferSize <= kTargetBufferSize
    BY ContextTypes, ConstantsAssumption
  <2>7. buffer[r][i].len \in Nat /\ buffer[r][i].len <= Len(files[i]) - p
        /\ buffer[r][i].len <= bufferSize
    BY <2>4, <2>5, <2>6, SmallerFact
  <2>8. buffer[r][i].len # kThreadDone
    BY <2>6, <2>7, ConstantsAssumption
  <2>9. QED
    BY <1>4, <2>2, <2>3, <2>4, <2>7, <2>8
<1>8. QED
  BY <1>5, <1>6, <1>7

\* Buffers of different sizes mean files of different contents.
LEMMA SizesDiffer ==
  ASSUME IInv, CheckSize, size[readIndex][0] # size[readIndex][1]
  PROVE  ~SameContent(files[0], files[1])
<1>1. Running /\ mpc # "releaseNotify" /\ ~NoData(readIndex)
  BY DEF CheckSize, Running, IInv, DataReady
<1>2. QED
  BY <1>1, FilledHalf DEF SameContent

\* Buffers of different bytes mean files of different contents.
LEMMA BytesDiffer ==
  ASSUME IInv, CompareBuffers, ~SameBytes(readIndex)
  PROVE  ~SameContent(files[0], files[1])
<1>1. /\ Running /\ mpc = "cmp" /\ size[readIndex][0] = size[readIndex][1]
      /\ size[readIndex][0] \notin {0, kThreadDone}
  BY DEF CompareBuffers, Running, IInv, ProgressInv
<1>2. ~NoData(readIndex)
  BY <1>1 DEF NoData
<1>3. PICK p \in Nat : \A i \in Index :
        LET n == Smaller(bufferSize, Len(files[i]) - p)
        IN  /\ Len(files[i]) \in Nat /\ p <= Len(files[i])
            /\ buffer[readIndex][i].from = p
            /\ n \in Nat /\ n <= Len(files[i]) - p /\ n # kThreadDone
            /\ size[readIndex][i] = IF n = 0 THEN kThreadDone ELSE n
  BY <1>1, <1>2, FilledHalf
<1>4. PICK k \in 1 .. size[readIndex][0] : files[0][p + k] # files[1][p + k]
  BY <1>3 DEF SameBytes
<1>5. size[readIndex][0] \in Nat /\ p + size[readIndex][0] <= Len(files[0]) /\ Len(files[0]) \in Nat
  BY <1>1, <1>3
<1>6. p + k \in 1 .. Len(files[0])
  BY <1>4, <1>5
<1>7. QED
  BY <1>4, <1>6 DEF SameContent

\* The end of both files in the same half means files of the same contents.
LEMMA BothDone ==
  ASSUME IInv, AnswerInv, CheckSize, size[readIndex][0] = kThreadDone,
         size[readIndex][1] = kThreadDone
  PROVE  SameContent(files[0], files[1]) /\ \A i \in Index : Done(i)
<1>1. Running /\ mpc # "releaseNotify" /\ ~NoData(readIndex) /\ bufferSize > 0
  BY DEF CheckSize, Running, IInv, DataReady, AnswerInv
<1>2. PICK p \in Nat :
        /\ \A k \in 1 .. p : files[0][k] = files[1][k]
        /\ \A i \in Index :
             LET n == Smaller(bufferSize, Len(files[i]) - p)
             IN  /\ Len(files[i]) \in Nat /\ p <= Len(files[i])
                 /\ buffer[readIndex][i].from = p
                 /\ n \in Nat /\ n <= Len(files[i]) - p /\ n # kThreadDone
                 /\ size[readIndex][i] = IF n = 0 THEN kThreadDone ELSE n
  BY <1>1, FilledHalf
<1>3. \A i \in Index : Smaller(bufferSize, Len(files[i]) - p) = 0
  BY <1>2
<1>4. bufferSize \in Nat
  BY ContextTypes, ConstantsAssumption
<1>5. \A i \in Index : Len(files[i]) = p
  BY <1>1, <1>2, <1>3, <1>4 DEF Smaller
<1>6. QED
  BY <1>2, <1>5, Types DEF SameContent, Done

\* A failure is not forgotten before the next call.
LEMMA FailuresStay ==
  ASSUME IInv, [Next]_vars, ~Compare, NEW j \in Index, j \in Failed
  PROVE  j \in Failed'
<1>1. ASSUME NEW i \in Index, Reader(i) PROVE j \in Failed'
  <2>1. CASE exceptionPtr[j]
    BY <1>1, <2>1, ReaderKeepsExceptions DEF Failed
  <2>2. CASE rpc[j] = "throw" /\ i = j
    BY <1>1, <2>2, Types DEF Failed, Reader, WaitForCompare, OpenFile, WaitForFreeBuffer, CheckState,
       ReadFile, EndOfFile, PublishBuffer, NotifyData, StoreException, AbortOther,
       AbortOtherNotify, BecomeIdle, NotifyDone
  <2>3. CASE rpc[j] = "throw" /\ i # j
    <3>1. mpc \in MasterInside
      BY <2>3 DEF IInv, ThreadsInv, Entered
    <3>2. QED
      BY <1>1, <2>3, <3>1, QuietOther DEF Quiet, Failed, ClientWait
  <2>4. QED
    BY <2>1, <2>2, <2>3 DEF Failed
<1>2. CASE Spurious
  BY <1>2, Types DEF Spurious, Failed, ClientWait, context, reader
<1>3. CASE UNCHANGED vars
  BY <1>3 DEF vars, Failed, context, reader
<1>4. CASE Shutdown \/ Master
  BY <1>4, Types DEF Failed, Master, Shutdown, StartNotify, WaitForData, CheckException, CheckSize,
     CompareBuffers, AbortThreads, AbortNotify, ReleaseBuffers, ReleaseNotify, JoinThreads,
     ShutdownNotify, Destroyed, NotifyClients, Woken, reader, context
<1>5. QED
  BY <1>1, <1>2, <1>3, <1>4 DEF Next, Caller

\* What leaves the Context's files and buffer size alone, and the answer.
LEMMA CallFrame ==
  ASSUME [Next]_vars, ~Compare
  PROVE  /\ files' = files /\ bufferSize' = bufferSize
         /\ mpc' \in MasterInside => mpc \in MasterInside
         /\ result' = result \/ CheckException \/ CheckSize \/ CompareBuffers \/ JoinThreads
<1>1. ASSUME NEW i \in Index, Reader(i)
      PROVE  files' = files /\ bufferSize' = bufferSize /\ result' = result
             /\ (mpc' \in MasterInside => mpc \in MasterInside)
  BY <1>1 DEF Reader, WaitForCompare, OpenFile, WaitForFreeBuffer, CheckState,
     ReadFile, EndOfFile, PublishBuffer, NotifyData, StoreException, AbortOther,
     AbortOtherNotify, BecomeIdle, NotifyDone, NotifyMaster, master, context
<1>2. CASE Spurious
  BY <1>2 DEF Spurious, NotifyMaster, master, context
<1>3. CASE UNCHANGED vars
  BY <1>3 DEF vars, master, context
<1>4. CASE Shutdown \/ Master
  BY <1>4 DEF Master, Shutdown, StartNotify, WaitForData, CheckException, CheckSize,
     CompareBuffers, AbortThreads, AbortNotify, ReleaseBuffers, ReleaseNotify, JoinThreads,
     ShutdownNotify, Destroyed, context
<1>5. QED
  BY <1>1, <1>2, <1>3, <1>4 DEF Next, Caller

\* A reader that has reached the end of its file stays there until the call
\* returns.
LEMMA DoneStays ==
  ASSUME IInv, [Next]_vars, mpc \in MasterDecided, NEW j \in Index, Done(j)
  PROVE  Done(j)'
<1>1. kThreadDone # 0
  BY ConstantsAssumption
<1>2. PICK b \in Index : size[b][j] = kThreadDone
  BY DEF Done
<1>3. ASSUME NEW i \in Index, Reader(i) PROVE size'[b][j] = kThreadDone
  BY <1>1, <1>2, <1>3, ReaderKeepsFilled DEF Filled
<1>4. CASE Spurious
  BY <1>2, <1>4 DEF Spurious, context, Done
<1>5. CASE UNCHANGED vars
  BY <1>2, <1>5 DEF vars, context, Done
<1>6. CASE Caller \/ Master
  BY <1>2, <1>6 DEF Done, Caller, Compare, Master, Shutdown, StartNotify, WaitForData, CheckException,
     CheckSize, CompareBuffers, AbortThreads, AbortNotify, ReleaseBuffers, ReleaseNotify,
     JoinThreads, ShutdownNotify, Destroyed, context
<1>7. QED
  BY <1>2, <1>3, <1>4, <1>5, <1>6 DEF Next, Done

\* The answer is right after every step, if it was before.
LEMMA AnswerStep ==
  ASSUME SectorsFit, IInv, AnswerInv, ResultCorrect, [Next]_vars
  PROVE  AnswerInv' /\ ResultCorrect'
<1>1. IInv'
  BY TypeStep, ThreadsStep, ReadersStep, ProgressStep, DataStep DEF IInv
<1>2. CASE Compare
  <2>1. bufferSize' > 0
    BY <1>2, BufferNotEmpty DEF Compare
  <2>2. result' = "none"
    BY <1>2 DEF Compare, IInv, ThreadsInv
  <2>3. QED
    BY <2>1, <2>2 DEF AnswerInv, ResultCorrect
<1>3. CASE ~Compare
  <2>1. /\ files' = files /\ bufferSize' = bufferSize
        /\ mpc' \in MasterInside => mpc \in MasterInside
        /\ result' = result \/ CheckException \/ CheckSize \/ CompareBuffers \/ JoinThreads
    BY <1>3, CallFrame
  <2>2. mpc' \in MasterInside => bufferSize' > 0
    BY <2>1 DEF AnswerInv
  <2>3. SameContent(files[0], files[1])' = SameContent(files[0], files[1])
    BY <2>1 DEF SameContent
  <2>4. Failed # {} => Failed' # {}
    <3>1. \A j \in Index : j \in Failed => j \in Failed'
      BY <1>3, FailuresStay
    <3>2. Failed \subseteq Index
      BY DEF Failed
    <3>3. QED
      BY <3>1, <3>2
  <2>5. result' = "equal" => /\ \A i \in Index : Done(i)'
                             /\ SameContent(files[0], files[1])
    <3>1. CASE result' = result
      <4>1. result = "equal" => mpc \in MasterDecided
        BY DEF IInv, ThreadsInv
      <4>2. QED
        BY <3>1, <4>1, DoneStays DEF AnswerInv, ResultCorrect
    <3>2. CASE CheckSize
      <4>1. ASSUME result' = "equal", result # "equal"
            PROVE  size[readIndex][0] = kThreadDone /\ size[readIndex][1] = kThreadDone
        BY <3>2, <4>1 DEF CheckSize
      <4>2. ASSUME NEW i \in Index, Done(i) PROVE Done(i)'
        BY <3>2, <4>2 DEF CheckSize, Done, context
      <4>3. QED
        BY <3>1, <3>2, <4>1, <4>2, BothDone
    <3>3. CASE CheckException \/ CompareBuffers \/ JoinThreads
      BY <3>1, <3>3 DEF CheckException, CompareBuffers, JoinThreads
    <3>4. QED
      BY <2>1, <3>1, <3>2, <3>3
  <2>6. result' = "equal" => Failed' = {}
    <3>1. ASSUME result' = "equal" PROVE Failed' = {}
      <4>1. mpc' \in MasterInside
        BY <1>1, <3>1 DEF IInv, ThreadsInv
      <4>2. \A i \in Index : /\ StopOf(i)' /\ Done(i)'
        BY <1>1, <2>5, <3>1, <4>1 DEF IInv, ReadersInv
      <4>3. \A i \in Index : ~exceptionPtr'[i] /\ rpc'[i] # "throw"
        BY <4>2 DEF StopOf
      <4>4. QED
        BY <4>3 DEF Failed
    <3>2. QED
      BY <3>1
  <2>7. result' = "different" => ~SameContent(files[0], files[1])
    <3>1. CASE result' = result
      BY <3>1 DEF ResultCorrect
    <3>2. CASE CheckSize
      BY <3>1, <3>2, SizesDiffer DEF CheckSize
    <3>3. CASE CompareBuffers
      BY <3>1, <3>3, BytesDiffer DEF CompareBuffers
    <3>4. CASE CheckException \/ JoinThreads
      BY <3>1, <3>4 DEF CheckException, JoinThreads
    <3>5. QED
      BY <2>1, <3>1, <3>2, <3>3, <3>4
  <2>8. result' = "exception" => Failed # {}
    <3>1. CASE result' = result
      BY <3>1 DEF ResultCorrect
    <3>2. CASE CheckException
      BY <3>1, <3>2 DEF CheckException, Failed
    <3>3. CASE CheckSize \/ CompareBuffers \/ JoinThreads
      BY <3>1, <3>3 DEF CheckSize, CompareBuffers, JoinThreads
    <3>4. QED
      BY <2>1, <3>1, <3>2, <3>3
  <2>9. QED
    BY <2>2, <2>3, <2>4, <2>5, <2>6, <2>7, <2>8 DEF AnswerInv, ResultCorrect
<1>4. QED
  BY <1>2, <1>3

\* Whatever the interleaving, the answer is right.
THEOREM AnswersCorrect == SectorsFit => (Spec => []ResultCorrect)
<1> SUFFICES ASSUME SectorsFit PROVE Spec => []ResultCorrect
  OBVIOUS
<1>1. Init => AnswerInv /\ ResultCorrect
  BY DEF Init, AnswerInv, ResultCorrect
<1>2. IInv /\ AnswerInv /\ ResultCorrect /\ [Next]_vars => AnswerInv' /\ ResultCorrect'
  BY AnswerStep
<1>3. QED
  BY <1>1, <1>2, Invariance, PTL DEF Spec

\* Only the master's release of its own half takes a filled buffer back.
THEOREM BuffersStable == Spec => PublishedStable
<1>1. ASSUME IInv, [Next]_vars, mpc \in MasterInside,
             NEW b \in Index, NEW i \in Index, size[b][i] # 0, ~(mpc = "release" /\ b = readIndex)
      PROVE  size'[b][i] = size[b][i] /\ buffer'[b][i] = buffer[b][i]
  <2>1. ASSUME NEW j \in Index, Reader(j)
        PROVE  size'[b][i] = size[b][i] /\ buffer'[b][i] = buffer[b][i]
    BY <1>1, <2>1, ReaderKeepsFilled DEF Filled
  <2>2. CASE Spurious
    BY <2>2 DEF Spurious, context
  <2>3. CASE UNCHANGED vars
    BY <2>3 DEF vars, context
  <2>4. CASE Caller \/ Master
    BY <1>1, <2>4, ContextTypes, Types DEF Caller, Compare, Master, Shutdown, StartNotify, WaitForData,
       CheckException, CheckSize, CompareBuffers, AbortThreads, AbortNotify, ReleaseBuffers,
       ReleaseNotify, JoinThreads, ShutdownNotify, Destroyed, context
  <2>5. QED
    BY <1>1, <2>1, <2>2, <2>3, <2>4 DEF Next
<1> DEFINE Stable == \A b, i \in Index :
              size[b][i] # 0 /\ mpc \in MasterInside
                => \/ size'[b][i] = size[b][i] /\ buffer'[b][i] = buffer[b][i]
                   \/ mpc = "release" /\ b = readIndex
<1>2. IInv /\ [Next]_vars => Stable
  BY <1>1
<1>3. IInv /\ [Next]_vars => [Stable]_vars
  BY <1>2
<1>4. Spec => [][Stable]_vars
  BY <1>3, Invariance, PTL DEF Spec
<1>5. QED
  BY <1>4 DEF PublishedStable

-----------------------------------------------------------------------------
(* The service.  Each step of FileComparer is one of ComparisonService's    *)
(* steps or changes nothing the service shows.                              *)

\* SameContent, which compares byte by byte, is equality of the contents.
LEMMA SameIsEqual ==
  ASSUME NEW f \in Seq(Nat), NEW g \in Seq(Nat)
  PROVE  SameContent(f, g) <=> f = g
<1>1. f = g => SameContent(f, g)
  BY DEF SameContent
<1>2. ASSUME SameContent(f, g) PROVE f = g
  BY <1>2, SeqEqual DEF SameContent
<1>3. QED
  BY <1>1, <1>2

\* Two sets that agree on all elements but one, which is not lost.
LEMMA OneMore ==
  ASSUME NEW A, NEW B, NEW x, x \in A => x \in B,
         \A y : y # x => (y \in B <=> y \in A)
  PROVE  B = A \/ B = A \union {x}
<1>1. CASE x \in B
  <2>1. \A y : y \in B <=> y \in A \union {x}
    BY <1>1
  <2>2. QED
    BY <2>1
<1>2. CASE x \notin B
  <2>1. \A y : y \in B <=> y \in A
    BY <1>2
  <2>2. QED
    BY <2>1
<1>3. QED
  BY <1>1, <1>2

\* A reader's step fails its file, or the service sees nothing of it.
LEMMA ReaderService ==
  ASSUME IInv, NEW i \in Index, Reader(i)
  PROVE  (mpc \in MasterInside /\ Service!Fail(i)) \/ UNCHANGED Service!vars
<1>1. files' = files /\ result' = result
  BY DEF Reader, WaitForCompare, OpenFile, WaitForFreeBuffer, CheckState, ReadFile, EndOfFile,
     PublishBuffer, NotifyData, StoreException, AbortOther, AbortOtherNotify, BecomeIdle,
     NotifyDone, NotifyMaster, master, context
<1>2. mpc' \in MasterInside <=> mpc \in MasterInside
  BY DEF Reader, WaitForCompare, OpenFile, WaitForFreeBuffer, CheckState, ReadFile, EndOfFile,
     PublishBuffer, NotifyData, StoreException, AbortOther, AbortOtherNotify, BecomeIdle,
     NotifyDone, NotifyMaster, master
<1>3. CASE mpc \notin MasterInside
  BY <1>1, <1>2, <1>3 DEF Service!vars
<1>4. CASE mpc \in MasterInside
  <2>1. \A j \in Index : j # i => (j \in Failed' <=> j \in Failed)
    BY <1>4, QuietOther DEF Quiet, Failed, ClientWait, Woken
  <2>2. i \in Failed => i \in Failed'
    <3>1. ~Compare
      BY <1>4 DEF Compare
    <3>2. [Next]_vars
      BY DEF Next
    <3>3. QED
      BY <3>1, <3>2, FailuresStay
  <2>3. Failed \subseteq Index /\ Failed' \subseteq Index
    BY DEF Failed
  <2>4. Failed' = Failed \/ Failed' = Failed \union {i}
    <3>1. \A y : y # i => (y \in Failed' <=> y \in Failed)
      BY <2>1, <2>3
    <3>2. QED
      BY <2>2, <3>1, OneMore
  <2>5. QED
    BY <1>1, <1>2, <1>4, <2>4, Types DEF Service!Fail, Service!vars, IInv, TypeOK
<1>5. QED
  BY <1>3, <1>4

\* The master's steps and spurious wake-ups touch no file's failure.
LEMMA MasterFailures ==
  ASSUME IInv, Master \/ Spurious \/ Shutdown
  PROVE  Failed' = Failed /\ files' = files
<1>1. CASE Spurious
  BY <1>1, Types DEF Spurious, Failed, ClientWait, Woken, context, reader
<1>2. CASE Shutdown \/ Master
  BY <1>2, Types DEF Failed, Master, Shutdown, StartNotify, WaitForData, CheckException, CheckSize,
     CompareBuffers, AbortThreads, AbortNotify, ReleaseBuffers, ReleaseNotify, JoinThreads,
     ShutdownNotify, Destroyed, NotifyClients, Woken, reader, context
<1>3. QED
  BY <1>1, <1>2

\* Every step of FileComparer is a step of the service, or a stutter.
LEMMA ServiceStep ==
  ASSUME IInv, IInv', ResultCorrect', [Next]_vars
  PROVE  [Service!Next]_(Service!vars)
<1>1. CASE Compare
  <2>1. Failed' = {}
    BY <1>1, Types DEF Compare, Failed, IInv, ThreadsInv, Entered, reader
  <2>2. result' = "none" /\ mpc' \in MasterInside /\ mpc \notin MasterInside
    BY <1>1 DEF Compare, IInv, ThreadsInv
  <2>3. files' \in [{0, 1} -> Files]
    BY <1>1 DEF Compare
  <2>4. Service!Call
    BY <2>1, <2>2, <2>3 DEF Service!Call
  <2>5. QED
    BY <2>4 DEF Service!Next
<1>2. ASSUME NEW i \in Index, Reader(i) PROVE [Service!Next]_(Service!vars)
  BY <1>2, ReaderService DEF Service!Next
<1>3. CASE UNCHANGED vars
  BY <1>3 DEF vars, master, context, reader, Failed, Service!vars
<1>4. CASE JoinThreads
  <2>1. Failed' = Failed /\ files' = files
    BY <1>4, MasterFailures DEF Master
  <2>2. mpc = "join" /\ result \in {"equal", "different", "exception"}
    BY <1>4 DEF JoinThreads, IInv, ThreadsInv, TypeOK
  <2>3. CASE mpc' = "out" /\ result' = "none"
    BY <2>1, <2>2, <2>3 DEF Service!Return, Service!Next
  <2>4. CASE mpc' = "joinWait" /\ result' = result
    BY <2>1, <2>2, <2>4 DEF Service!vars
  <2>5. QED
    BY <1>4, <2>3, <2>4 DEF JoinThreads
<1>5. CASE CheckException \/ CheckSize \/ CompareBuffers
  <2>1. Failed' = Failed /\ files' = files
    BY <1>5, MasterFailures DEF Master
  <2>2. mpc \in MasterInside /\ mpc' \in MasterInside /\ result = "none"
    BY <1>5 DEF CheckException, CheckSize, CompareBuffers, IInv, ThreadsInv
  <2>3. CASE result' = "none"
    BY <2>1, <2>2, <2>3 DEF Service!vars
  <2>4. CASE result' # "none"
    <3>1. files[0] \in Seq(Nat) /\ files[1] \in Seq(Nat)
      BY ContextTypes
    <3>2. SameContent(files[0], files[1])' <=> files[0] = files[1]
      BY <2>1, <3>1, SameIsEqual
    <3>3. /\ result' = "equal" => files[0] = files[1] /\ Failed = {}
          /\ result' = "different" => files[0] # files[1]
          /\ result' = "exception" => Failed # {}
      BY <2>1, <3>2 DEF ResultCorrect
    <3>4. result' \in {"equal", "different", "exception"}
      BY <2>4 DEF IInv, TypeOK
    <3>5. Service!Answer
      BY <2>1, <2>2, <3>3, <3>4 DEF Service!Answer, Service!Right
    <3>6. QED
      BY <3>5 DEF Service!Next
  <2>5. QED
    BY <2>3, <2>4
<1>6. CASE \/ Spurious \/ Shutdown \/ StartNotify \/ WaitForData \/ AbortThreads \/ AbortNotify
           \/ ReleaseBuffers \/ ReleaseNotify \/ ShutdownNotify \/ Destroyed
  <2>1. Failed' = Failed /\ files' = files
    BY <1>6, MasterFailures DEF Master
  <2>2. result' = result /\ (mpc' \in MasterInside <=> mpc \in MasterInside)
    BY <1>6 DEF Spurious, Shutdown, StartNotify, WaitForData, AbortThreads, AbortNotify,
       ReleaseBuffers, ReleaseNotify, ShutdownNotify, Destroyed, NotifyMaster, master
  <2>3. QED
    BY <2>1, <2>2 DEF Service!vars
<1>7. QED
  BY <1>1, <1>2, <1>3, <1>4, <1>5, <1>6 DEF Next, Caller, Master

\* The safety half of Implements: FileComparer's steps are the service's.
THEOREM RefinesService == SectorsFit => (Spec => Service!Init /\ [][Service!Next]_(Service!vars))
<1> SUFFICES ASSUME SectorsFit PROVE Spec => Service!Init /\ [][Service!Next]_(Service!vars)
  OBVIOUS
<1>1. Init => Service!Init
  BY DEF Init, Service!Init
<1>2. IInv /\ IInv' /\ ResultCorrect' /\ [Next]_vars => [Service!Next]_(Service!vars)
  BY ServiceStep
<1>3. Spec => []IInv /\ []ResultCorrect
  BY Invariance, AnswersCorrect, PTL
<1>4. QED
  BY <1>1, <1>2, <1>3, PTL DEF Spec
=============================================================================
