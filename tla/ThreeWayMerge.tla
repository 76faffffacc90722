---------------------------- MODULE ThreeWayMerge ----------------------------
(***************************************************************************)
(* ThreeWayMerge: lines up what a directory of the source, the reference   *)
(* and the destination hold.  Every source entry goes to copy, together    *)
(* with its namesakes; a destination entry without one goes to extra and   *)
(* is deleted by the caller.  An entry is known here by its name's place   *)
(* in the order of CompareName, which disregards case; a match holds the   *)
(* positions of its entries in the sorted lists, 0 for std::nullopt.       *)
(***************************************************************************)
EXTENDS Integers, Sequences

CONSTANT Lists      \* the lists that may come out of std::sort

Sorted(s) == \A m, n \in 1 .. Len(s) : m < n => s[m] <= s[n]

ASSUME ListsAssumption == Lists \subseteq {s \in Seq(Int) : Sorted(s)}

VARIABLES
  src, ref, dst,                    \* lines 37-39, sorted
  srcBegin, refBegin, dstBegin,     \* the iterators
  copy, extra                       \* copy: matches; extra: positions in dst

lists   == <<src, ref, dst>>
vars    == <<lists, srcBegin, refBegin, dstBegin, copy, extra>>

Match == [src : Nat, ref : Nat, dst : Nat]

Init ==
  /\ src \in Lists /\ ref \in Lists /\ dst \in Lists
  /\ srcBegin = 1 /\ refBegin = 1 /\ dstBegin = 1
  /\ copy = <<>> /\ extra = <<>>

hasSrc == srcBegin <= Len(src)
hasRef == refBegin <= Len(ref)
hasDst == dstBegin <= Len(dst)

\* Lines 57-59: an exhausted list compares as greater than any entry.
CompareBug(hasA, a, hasB, b) ==
  IF hasA /\ hasB THEN (IF a < b THEN -1 ELSE IF a = b THEN 0 ELSE 1) ELSE -1
Compare(hasA, a, hasB, b) ==
  IF hasA /\ hasB THEN (IF a < b THEN -1 ELSE IF a = b THEN 0 ELSE 1)
  ELSE IF hasA THEN -1 ELSE 1

cmpSrcRef == Compare(hasSrc, src[srcBegin], hasRef, ref[refBegin])
cmpSrcDst == Compare(hasSrc, src[srcBegin], hasDst, dst[dstBegin])
cmpRefDst == Compare(hasRef, ref[refBegin], hasDst, dst[dstBegin])

Done == ~hasSrc /\ ~hasRef /\ ~hasDst

-----------------------------------------------------------------------------
\* Lines 61-64.
SrcOnly ==
  /\ cmpSrcRef < 0 /\ cmpSrcDst < 0
  /\ copy' = Append(copy, [src |-> srcBegin, ref |-> 0, dst |-> 0])
  /\ srcBegin' = srcBegin + 1
  /\ UNCHANGED <<lists, refBegin, dstBegin, extra>>

\* Lines 65-70.
SrcDstBug ==
  /\ cmpSrcRef < 0 /\ cmpSrcDst = 0
  /\ copy' = Append(copy, [src |-> srcBegin, ref |-> 0, dst |-> dstBegin])
  /\ srcBegin' = srcBegin + 1
  /\ UNCHANGED <<lists, refBegin, dstBegin, extra>>
SrcDst ==
  /\ cmpSrcRef < 0 /\ cmpSrcDst = 0
  /\ copy' = Append(copy, [src |-> srcBegin, ref |-> 0, dst |-> dstBegin])
  /\ srcBegin' = srcBegin + 1 /\ dstBegin' = dstBegin + 1
  /\ UNCHANGED <<lists, refBegin, extra>>

\* Lines 71-76.
SrcRef ==
  /\ cmpSrcRef = 0 /\ cmpSrcDst < 0
  /\ copy' = Append(copy, [src |-> srcBegin, ref |-> refBegin, dst |-> 0])
  /\ srcBegin' = srcBegin + 1 /\ refBegin' = refBegin + 1
  /\ UNCHANGED <<lists, dstBegin, extra>>

\* Lines 77-83.
SrcRefDst ==
  /\ cmpSrcRef = 0 /\ cmpSrcDst = 0
  /\ copy' = Append(copy, [src |-> srcBegin, ref |-> refBegin, dst |-> dstBegin])
  /\ srcBegin' = srcBegin + 1 /\ refBegin' = refBegin + 1 /\ dstBegin' = dstBegin + 1
  /\ UNCHANGED <<lists, extra>>

\* Lines 84-87.
RefOnlyBug ==
  /\ cmpSrcRef > 0 /\ cmpRefDst < 0
  /\ UNCHANGED <<lists, refBegin, srcBegin, dstBegin, copy, extra>>
RefOnly ==
  /\ cmpSrcRef > 0 /\ cmpRefDst < 0
  /\ refBegin' = refBegin + 1
  /\ UNCHANGED <<lists, srcBegin, dstBegin, copy, extra>>

\* Lines 88-93.
RefDst ==
  /\ cmpSrcRef > 0 /\ cmpRefDst = 0
  /\ extra' = Append(extra, dstBegin)
  /\ refBegin' = refBegin + 1 /\ dstBegin' = dstBegin + 1
  /\ UNCHANGED <<lists, srcBegin, copy>>

\* Lines 94-97.
DstOnly ==
  /\ cmpSrcDst > 0 /\ cmpRefDst > 0
  /\ extra' = Append(extra, dstBegin)
  /\ dstBegin' = dstBegin + 1
  /\ UNCHANGED <<lists, srcBegin, refBegin, copy>>

\* Lines 49-55: the loop, until all lists are at their end.
Next == /\ ~Done
        /\ SrcOnly \/ SrcDst \/ SrcRef \/ SrcRefDst \/ RefOnly \/ RefDst \/ DstOnly

Spec == Init /\ [][Next]_vars /\ WF_vars(Next)

-----------------------------------------------------------------------------
(* Properties. *)

TypeOK ==
  /\ src \in Lists /\ ref \in Lists /\ dst \in Lists
  /\ srcBegin \in 1 .. Len(src) + 1
  /\ refBegin \in 1 .. Len(ref) + 1
  /\ dstBegin \in 1 .. Len(dst) + 1
  /\ copy \in Seq(Match) /\ extra \in Seq(Nat)

\* The asserts of lines 62-95 hold, and that of line 99 is out of reach: the
\* seven branches cover every order of the three heads.
AssertsHold ==
  ~Done =>
    \/ cmpSrcRef < 0 /\ cmpSrcDst < 0 /\ hasSrc
    \/ cmpSrcRef < 0 /\ cmpSrcDst = 0 /\ cmpRefDst > 0 /\ hasSrc /\ hasDst
    \/ cmpSrcRef = 0 /\ cmpSrcDst < 0 /\ cmpRefDst < 0 /\ hasSrc /\ hasRef
    \/ cmpSrcRef = 0 /\ cmpSrcDst = 0 /\ cmpRefDst = 0 /\ hasSrc /\ hasRef /\ hasDst
    \/ cmpSrcRef > 0 /\ cmpRefDst < 0 /\ hasRef
    \/ cmpSrcRef > 0 /\ cmpRefDst = 0 /\ cmpSrcDst > 0 /\ hasRef /\ hasDst
    \/ cmpSrcDst > 0 /\ cmpRefDst > 0 /\ hasDst

\* p is the position of x in s, or 0 where x is not in s.
Finds(s, x, p) == IF p = 0 THEN \A k \in 1 .. Len(s) : s[k] # x
                  ELSE p \in 1 .. Len(s) /\ s[p] = x

\* What the first n entries of src are matched with.
CopyOf(n) ==
  /\ Len(copy) = n
  /\ \A m \in 1 .. n : /\ copy[m].src = m
                       /\ Finds(ref, src[m], copy[m].ref)
                       /\ Finds(dst, src[m], copy[m].dst)

\* Which of the first n entries of dst have no namesake in src; each once.
ExtraOf(n) ==
  /\ \A m \in 1 .. Len(extra) : /\ extra[m] \in 1 .. n
                                /\ Finds(src, dst[extra[m]], 0)
  /\ \A k \in 1 .. n : Finds(src, dst[k], 0) => \E m \in 1 .. Len(extra) : extra[m] = k
  /\ \A m, n2 \in 1 .. Len(extra) : m < n2 => extra[m] < extra[n2]

\* The merge finds all namesakes and nothing else: nothing of the source is
\* left out or copied twice, nothing that has a source is deleted, and
\* nothing is deleted twice.
MergeRight == Done => CopyOf(Len(src)) /\ ExtraOf(Len(dst))

\* The merge comes to its end.
Terminates == <>Done

-----------------------------------------------------------------------------
(* The inductive invariant. *)

\* Names are unique in a directory.
Unique(s)    == \A m, n \in 1 .. Len(s) : m < n => s[m] < s[n]
NamesUnique  == \A s \in Lists : Unique(s)

\* What has been passed in one list is less than what is left in the other.
Passed(s, i, t, j) ==
  \A m \in 1 .. i - 1, n \in j .. Len(t) : s[m] < t[n]

MergeInv ==
  /\ Passed(src, srcBegin, ref, refBegin) /\ Passed(ref, refBegin, src, srcBegin)
  /\ Passed(src, srcBegin, dst, dstBegin) /\ Passed(dst, dstBegin, src, srcBegin)
  /\ CopyOf(srcBegin - 1)
  /\ ExtraOf(dstBegin - 1)

IInv == TypeOK /\ MergeInv
=============================================================================
