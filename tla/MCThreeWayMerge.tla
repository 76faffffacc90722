--------------------------- MODULE MCThreeWayMerge ---------------------------
(* ThreeWayMerge on all lists of distinct names out of a small set.          *)
EXTENDS ThreeWayMerge, SequencesExt

CONSTANT MCNames    \* the names there are
MCLists == {SetToSortSeq(S, LAMBDA a, b : a < b) : S \in SUBSET MCNames}
=============================================================================
