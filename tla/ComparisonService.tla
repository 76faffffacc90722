------------------------- MODULE ComparisonService -------------------------
(***************************************************************************)
(* What FileComparer::Compare promises its caller, without threads,        *)
(* buffers or condition variables: a call is answered, once, with "equal"  *)
(* only for two files of the same bytes that were read to their end, with  *)
(* "different" only for files that differ, and with an exception only if   *)
(* opening or reading one of the files failed.  FileComparer implements    *)
(* this specification.                                                     *)
(***************************************************************************)
CONSTANT Files      \* the contents a file may have

VARIABLES
  files,    \* the two files of the call being served
  failed,   \* the files whose opening or reading has failed
  answer    \* "none": no call, "open": a call not yet decided, or the answer

vars == <<files, failed, answer>>

Init == answer = "none" /\ failed = {} /\ files \in [{0, 1} -> Files]

Call == /\ answer = "none"
        /\ answer' = "open" /\ failed' = {}
        /\ files' \in [{0, 1} -> Files]

Fail(i) == /\ answer # "none"
           /\ failed' = failed \union {i}
           /\ UNCHANGED <<files, answer>>

Right(a) == CASE a = "equal"     -> files[0] = files[1] /\ failed = {}
              [] a = "different" -> files[0] # files[1]
              [] a = "exception" -> failed # {}

Answer == /\ answer = "open"
          /\ \E a \in {"equal", "different", "exception"} :
               Right(a) /\ answer' = a
          /\ UNCHANGED <<files, failed>>

Return == /\ answer \notin {"none", "open"}
          /\ answer' = "none"
          /\ failed' = {}
          /\ UNCHANGED files

Next == Call \/ (\E i \in {0, 1} : Fail(i)) \/ Answer \/ Return

\* Every call is answered, and every answer is delivered.
Fairness == WF_vars(Answer) /\ WF_vars(Return)

Spec == Init /\ [][Next]_vars /\ Fairness
=============================================================================
