------------------------ MODULE ThreeWayMergeProofs ------------------------
(***************************************************************************)
(* ThreeWayMerge for all lists: the asserts for any sorted lists, the      *)
(* right matches for lists in which no two names are the same.             *)
(***************************************************************************)
EXTENDS ThreeWayMerge, TLAPS

\* What the lists are.
LEMMA ListTypes ==
  ASSUME NEW s \in Lists
  PROVE  /\ s \in Seq(Int) /\ Len(s) \in Nat
         /\ \A n \in 1 .. Len(s) : s[n] \in Int
         /\ \A m, n \in 1 .. Len(s) : m < n => s[m] <= s[n]
BY ListsAssumption DEF Sorted

\* What the three comparisons of a round say of the heads.
LEMMA Heads ==
  ASSUME TypeOK
  PROVE  /\ srcBegin \in Nat /\ refBegin \in Nat /\ dstBegin \in Nat
         /\ Len(src) \in Nat /\ Len(ref) \in Nat /\ Len(dst) \in Nat
         /\ hasSrc => src[srcBegin] \in Int /\ srcBegin \in 1 .. Len(src)
         /\ hasRef => ref[refBegin] \in Int /\ refBegin \in 1 .. Len(ref)
         /\ hasDst => dst[dstBegin] \in Int /\ dstBegin \in 1 .. Len(dst)
         /\ ~hasSrc => srcBegin = Len(src) + 1
         /\ ~hasRef => refBegin = Len(ref) + 1
         /\ ~hasDst => dstBegin = Len(dst) + 1
<1>1. ASSUME NEW s \in Lists, NEW i \in 1 .. Len(s) + 1
      PROVE  /\ i \in Nat /\ Len(s) \in Nat
             /\ i <= Len(s) => s[i] \in Int /\ i \in 1 .. Len(s)
             /\ ~(i <= Len(s)) => i = Len(s) + 1
  BY <1>1, ListTypes
<1>2. QED
  BY <1>1 DEF TypeOK, hasSrc, hasRef, hasDst

\* The asserts of the loop hold whatever the lists.
LEMMA HeadsCovered == TypeOK => AssertsHold
BY Heads DEF AssertsHold, Done, Compare, cmpSrcRef, cmpSrcDst, cmpRefDst

\* Each branch says which heads are there and how they compare.
LEMMA SrcOnlyHeads ==
  ASSUME TypeOK, cmpSrcRef < 0, cmpSrcDst < 0
  PROVE  /\ hasSrc
         /\ hasRef => src[srcBegin] < ref[refBegin]
         /\ hasDst => src[srcBegin] < dst[dstBegin]
BY Heads DEF Compare, cmpSrcRef, cmpSrcDst

\* A source entry and its namesake in dst come first.
LEMMA SrcDstHeads ==
  ASSUME TypeOK, cmpSrcRef < 0, cmpSrcDst = 0
  PROVE  /\ hasSrc /\ hasDst /\ src[srcBegin] = dst[dstBegin]
         /\ hasRef => src[srcBegin] < ref[refBegin]
BY Heads DEF Compare, cmpSrcRef, cmpSrcDst

\* A source entry and its namesake in ref come first.
LEMMA SrcRefHeads ==
  ASSUME TypeOK, cmpSrcRef = 0, cmpSrcDst < 0
  PROVE  /\ hasSrc /\ hasRef /\ src[srcBegin] = ref[refBegin]
         /\ hasDst => src[srcBegin] < dst[dstBegin]
BY Heads DEF Compare, cmpSrcRef, cmpSrcDst

\* The name is first in all three lists.
LEMMA SrcRefDstHeads ==
  ASSUME TypeOK, cmpSrcRef = 0, cmpSrcDst = 0
  PROVE  hasSrc /\ hasRef /\ hasDst /\ src[srcBegin] = ref[refBegin] /\ src[srcBegin] = dst[dstBegin]
BY Heads DEF Compare, cmpSrcRef, cmpSrcDst

\* An entry comes first that only ref has.
LEMMA RefOnlyHeads ==
  ASSUME TypeOK, cmpSrcRef > 0, cmpRefDst < 0
  PROVE  hasRef /\ (hasSrc => ref[refBegin] < src[srcBegin])
BY Heads DEF Compare, cmpSrcRef, cmpRefDst

\* An entry comes first that ref and dst have, and src has not.
LEMMA RefDstHeads ==
  ASSUME TypeOK, cmpSrcRef > 0, cmpRefDst = 0
  PROVE  /\ hasRef /\ hasDst
         /\ hasSrc => ref[refBegin] < src[srcBegin] /\ dst[dstBegin] < src[srcBegin]
BY Heads DEF Compare, cmpSrcRef, cmpRefDst

\* An entry comes first that only dst has.
LEMMA DstOnlyHeads ==
  ASSUME TypeOK, ~Done, cmpSrcDst > 0, cmpRefDst > 0
  PROVE  hasDst /\ (hasSrc => dst[dstBegin] < src[srcBegin])
BY Heads DEF Compare, cmpSrcDst, cmpRefDst, Done

\* Every step keeps the types.
LEMMA TypeStep == TypeOK /\ [Next]_vars => TypeOK'
<1> SUFFICES ASSUME TypeOK, [Next]_vars PROVE TypeOK'
  OBVIOUS
<1>1. /\ srcBegin \in Nat /\ refBegin \in Nat /\ dstBegin \in Nat
      /\ Len(src) \in Nat /\ Len(ref) \in Nat /\ Len(dst) \in Nat
  BY Heads
<1>2. hasSrc => srcBegin \in Nat /\ srcBegin + 1 \in 1 .. Len(src) + 1
  BY <1>1 DEF hasSrc
<1>3. hasRef => refBegin \in Nat /\ refBegin + 1 \in 1 .. Len(ref) + 1
  BY <1>1 DEF hasRef
<1>4. hasDst => dstBegin \in Nat /\ dstBegin + 1 \in 1 .. Len(dst) + 1
  BY <1>1 DEF hasDst
<1> USE <1>1, <1>2, <1>3, <1>4 DEF TypeOK, lists, Match
<1>5. CASE SrcOnly
  BY <1>5, SrcOnlyHeads DEF SrcOnly
<1>6. CASE SrcDst
  BY <1>6, SrcDstHeads DEF SrcDst
<1>7. CASE SrcRef
  BY <1>7, SrcRefHeads DEF SrcRef
<1>8. CASE SrcRefDst
  BY <1>8, SrcRefDstHeads DEF SrcRefDst
<1>9. CASE RefOnly
  BY <1>9, RefOnlyHeads DEF RefOnly
<1>10. CASE RefDst
  BY <1>10, RefDstHeads DEF RefDst
<1>11. CASE ~Done /\ DstOnly
  BY <1>11, DstOnlyHeads DEF DstOnly
<1>12. CASE UNCHANGED vars
  BY <1>12 DEF vars
<1>13. QED
  BY <1>5, <1>6, <1>7, <1>8, <1>9, <1>10, <1>11, <1>12 DEF Next

\* Every variable keeps its type.
THEOREM TypeCorrect == Spec => []TypeOK
<1>1. Init => TypeOK
  BY ListTypes DEF Init, TypeOK
<1>2. QED
  BY <1>1, TypeStep, PTL DEF Spec

\* The seven branches are enough, and their asserts hold.
THEOREM AssertsAlwaysHold == Spec => []AssertsHold
BY TypeCorrect, HeadsCovered, PTL

-----------------------------------------------------------------------------
(* The matches, with unique names. *)

\* Passing the head of s, which is less than the head of t if there is one.
LEMMA PassOne ==
  ASSUME NEW s \in Lists, NEW t \in Lists, NEW i \in 1 .. Len(s), NEW j \in Nat \ {0},
         Passed(s, i, t, j), j <= Len(t) => s[i] < t[j]
  PROVE  Passed(s, i + 1, t, j)
<1> USE ListTypes
<1>1. ASSUME NEW n \in j .. Len(t) PROVE s[i] < t[n]
  BY <1>1
<1>2. ASSUME NEW m \in 1 .. i, NEW n \in j .. Len(t) PROVE s[m] < t[n]
  BY <1>1, <1>2 DEF Passed
<1>3. QED
  BY <1>2 DEF Passed

\* Passing both heads, which are the same name.
LEMMA PassBoth ==
  ASSUME NamesUnique, NEW s \in Lists, NEW t \in Lists, NEW i \in 1 .. Len(s),
         NEW j \in 1 .. Len(t), Passed(s, i, t, j), s[i] = t[j]
  PROVE  Passed(s, i + 1, t, j + 1)
<1> USE ListTypes
<1>1. ASSUME NEW n \in j + 1 .. Len(t) PROVE s[i] < t[n]
  BY <1>1 DEF NamesUnique, Unique
<1>2. ASSUME NEW m \in 1 .. i, NEW n \in j + 1 .. Len(t) PROVE s[m] < t[n]
  <2>1. CASE m = i
    BY <1>1, <2>1
  <2>2. CASE m # i
    <3>1. m \in 1 .. i - 1 /\ n \in j .. Len(t)
      BY <2>2
    <3>2. QED
      BY <3>1 DEF Passed
  <2>3. QED
    BY <2>1, <2>2
<1>3. QED
  BY <1>2 DEF Passed

\* Passing entries of the other list keeps what has been passed.
LEMMA PassOther ==
  ASSUME NEW s, NEW t, NEW i \in Nat, NEW j \in Nat, Passed(s, i, t, j), Len(t) \in Nat
  PROVE  Passed(s, i, t, j + 1)
BY DEF Passed

\* A name that is less than the head of a list, and more than all that has
\* been passed in it, is not in the list.
LEMMA NotFound ==
  ASSUME NEW s \in Lists, NEW t \in Lists, NEW i \in 1 .. Len(s), NEW j \in 1 .. Len(t) + 1,
         Passed(t, j, s, i), j <= Len(t) => s[i] < t[j]
  PROVE  Finds(t, s[i], 0)
<1> USE ListTypes
<1>1. ASSUME NEW k \in 1 .. Len(t) PROVE t[k] # s[i]
  <2>1. CASE k < j
    BY <1>1, <2>1 DEF Passed
  <2>2. CASE k >= j
    BY <1>1, <2>2
  <2>3. QED
    BY <1>1, <2>1, <2>2
<1>2. QED
  BY <1>1 DEF Finds

\* An entry of src goes to copy with the namesakes that were found.
LEMMA CopyOne ==
  ASSUME TypeOK, hasSrc, CopyOf(srcBegin - 1), NEW r \in Nat, NEW d \in Nat,
         Finds(ref, src[srcBegin], r), Finds(dst, src[srcBegin], d),
         copy' = Append(copy, [src |-> srcBegin, ref |-> r, dst |-> d]),
         srcBegin' = srcBegin + 1, UNCHANGED lists
  PROVE  CopyOf(srcBegin - 1)'
<1>1. copy \in Seq(Match) /\ srcBegin \in Nat \ {0} /\ Len(copy) = srcBegin - 1
  BY Heads DEF TypeOK, CopyOf
<1>2. /\ Len(copy') = srcBegin
      /\ copy'[srcBegin] = [src |-> srcBegin, ref |-> r, dst |-> d]
      /\ \A m \in 1 .. srcBegin - 1 : copy'[m] = copy[m]
  BY <1>1
<1>3. ASSUME NEW m \in 1 .. srcBegin
      PROVE  copy'[m].src = m /\ Finds(ref, src[m], copy'[m].ref) /\ Finds(dst, src[m], copy'[m].dst)
  <2>1. CASE m = srcBegin
    BY <1>2, <2>1
  <2>2. CASE m # srcBegin
    <3>1. m \in 1 .. srcBegin - 1
      BY <1>1, <2>2
    <3>2. QED
      BY <1>2, <3>1 DEF CopyOf
  <2>3. QED
    BY <2>1, <2>2
<1>4. srcBegin' - 1 = srcBegin /\ src' = src /\ ref' = ref /\ dst' = dst
  BY <1>1 DEF lists
<1>5. QED
  BY <1>2, <1>3, <1>4 DEF CopyOf, Finds

\* An entry of dst that has a namesake in src is passed.
LEMMA ExtraNone ==
  ASSUME TypeOK, hasDst, ExtraOf(dstBegin - 1), ~Finds(src, dst[dstBegin], 0),
         extra' = extra, dstBegin' = dstBegin + 1, UNCHANGED lists
  PROVE  ExtraOf(dstBegin - 1)'
<1>1. dstBegin \in Nat \ {0} /\ dstBegin' - 1 = dstBegin
  BY Heads DEF TypeOK
<1>2. src' = src /\ dst' = dst
  BY DEF lists
<1>3. ASSUME NEW k \in 1 .. dstBegin, Finds(src, dst[k], 0)
      PROVE  \E m \in 1 .. Len(extra) : extra[m] = k
  BY <1>1, <1>3 DEF ExtraOf
<1>4. ASSUME NEW m \in 1 .. Len(extra)
      PROVE  extra[m] \in 1 .. dstBegin /\ Finds(src, dst[extra[m]], 0)
  BY <1>1 DEF ExtraOf
<1>5. \A m, n \in 1 .. Len(extra) : m < n => extra[m] < extra[n]
  BY DEF ExtraOf
<1>6. QED
  BY <1>1, <1>2, <1>3, <1>4, <1>5 DEF ExtraOf, Finds

\* One that has none goes to extra.
LEMMA ExtraOne ==
  ASSUME TypeOK, hasDst, ExtraOf(dstBegin - 1), Finds(src, dst[dstBegin], 0),
         extra' = Append(extra, dstBegin), dstBegin' = dstBegin + 1, UNCHANGED lists
  PROVE  ExtraOf(dstBegin - 1)'
<1> DEFINE l == Len(extra)
<1>1. dstBegin \in Nat \ {0} /\ dstBegin' - 1 = dstBegin /\ extra \in Seq(Nat) /\ l \in Nat
  BY Heads DEF TypeOK
<1>2. src' = src /\ dst' = dst
  BY DEF lists
<1>3. Len(extra') = l + 1 /\ extra'[l + 1] = dstBegin /\ \A m \in 1 .. l : extra'[m] = extra[m]
  BY <1>1
<1>4. ASSUME NEW m \in 1 .. l + 1
      PROVE  extra'[m] \in 1 .. dstBegin /\ Finds(src, dst[extra'[m]], 0)
  <2>1. CASE m = l + 1
    BY <1>1, <1>3, <2>1
  <2>2. CASE m # l + 1
    <3>1. m \in 1 .. l
      BY <1>1, <2>2
    <3>2. extra'[m] = extra[m] /\ extra[m] \in 1 .. dstBegin - 1 /\ Finds(src, dst[extra[m]], 0)
      BY <1>3, <3>1 DEF ExtraOf
    <3>3. QED
      BY <1>1, <3>2
  <2>3. QED
    BY <2>1, <2>2
<1>5. ASSUME NEW k \in 1 .. dstBegin, Finds(src, dst[k], 0)
      PROVE  \E m \in 1 .. l + 1 : extra'[m] = k
  <2>1. CASE k = dstBegin
    BY <1>1, <1>3, <2>1
  <2>2. CASE k # dstBegin
    <3>1. k \in 1 .. dstBegin - 1
      BY <1>1, <2>2
    <3>2. PICK m \in 1 .. l : extra[m] = k
      BY <1>5, <3>1 DEF ExtraOf
    <3>3. m \in 1 .. l + 1 /\ extra'[m] = k
      BY <1>1, <1>3, <3>2
    <3>4. QED
      BY <3>3
  <2>3. QED
    BY <2>1, <2>2
<1>6. ASSUME NEW m \in 1 .. l + 1, NEW n \in 1 .. l + 1, m < n
      PROVE  extra'[m] < extra'[n]
  <2>1. m \in 1 .. l /\ extra'[m] = extra[m] /\ extra[m] \in 1 .. dstBegin - 1
    BY <1>1, <1>3, <1>6 DEF ExtraOf
  <2>2. CASE n = l + 1
    BY <1>1, <1>3, <2>1, <2>2
  <2>3. CASE n # l + 1
    <3>1. n \in 1 .. l /\ extra'[n] = extra[n]
      BY <1>1, <1>3, <2>3
    <3>2. QED
      BY <1>6, <2>1, <3>1 DEF ExtraOf
  <2>4. QED
    BY <2>2, <2>3
<1> HIDE DEF l
<1>7. QED
  BY <1>1, <1>2, <1>3, <1>4, <1>5, <1>6 DEF ExtraOf, Finds

\* Every step keeps the matches right: an entry is matched with the heads that
\* have its name, and has no namesake where the head has another one.
LEMMA MergeStep ==
  ASSUME NamesUnique, IInv, [Next]_vars
  PROVE  MergeInv'
<1>1. TypeOK /\ src \in Lists /\ ref \in Lists /\ dst \in Lists
  BY DEF IInv, TypeOK
<1>2. /\ srcBegin \in Nat \ {0} /\ refBegin \in Nat \ {0} /\ dstBegin \in Nat \ {0}
      /\ hasSrc => srcBegin \in 1 .. Len(src)
      /\ hasRef => refBegin \in 1 .. Len(ref)
      /\ hasDst => dstBegin \in 1 .. Len(dst)
      /\ srcBegin \in 1 .. Len(src) + 1
      /\ refBegin \in 1 .. Len(ref) + 1
      /\ dstBegin \in 1 .. Len(dst) + 1
      /\ hasSrc <=> srcBegin <= Len(src)
      /\ hasRef <=> refBegin <= Len(ref)
      /\ hasDst <=> dstBegin <= Len(dst)
  BY <1>1, Heads DEF TypeOK, hasSrc, hasRef, hasDst
<1>3. /\ Passed(src, srcBegin, ref, refBegin) /\ Passed(ref, refBegin, src, srcBegin)
      /\ Passed(src, srcBegin, dst, dstBegin) /\ Passed(dst, dstBegin, src, srcBegin)
  BY DEF IInv, MergeInv
<1>4. CopyOf(srcBegin - 1) /\ ExtraOf(dstBegin - 1)
  BY DEF IInv, MergeInv
<1>5. CASE SrcOnly
  <2> USE <1>5, ListTypes DEF SrcOnly
  <2>1. /\ hasSrc
        /\ hasRef => src[srcBegin] < ref[refBegin]
        /\ hasDst => src[srcBegin] < dst[dstBegin]
    BY <1>1, SrcOnlyHeads
  <2>2. Passed(src, srcBegin + 1, ref, refBegin)
    BY <1>1, <1>2, <1>3, <2>1, PassOne
  <2>3. Passed(ref, refBegin, src, srcBegin + 1)
    BY <1>1, <1>2, <1>3, <2>1, PassOther
  <2>4. Passed(src, srcBegin + 1, dst, dstBegin)
    BY <1>1, <1>2, <1>3, <2>1, PassOne
  <2>5. Passed(dst, dstBegin, src, srcBegin + 1)
    BY <1>1, <1>2, <1>3, <2>1, PassOther
  <2>6. CopyOf(srcBegin - 1)'
    <3>1. Finds(ref, src[srcBegin], 0)
      BY <1>1, <1>2, <1>3, <2>1, NotFound
    <3>2. Finds(dst, src[srcBegin], 0)
      BY <1>1, <1>2, <1>3, <2>1, NotFound
    <3>3. QED
      BY <1>1, <1>2, <1>4, <2>1, <3>1, <3>2, CopyOne DEF lists
  <2>7. ExtraOf(dstBegin - 1)'
    BY <1>4 DEF ExtraOf, Finds, lists
  <2>8. QED
    BY <1>2, <2>2, <2>3, <2>4, <2>5, <2>6, <2>7 DEF MergeInv, Passed, lists
<1>6. CASE SrcDst
  <2> USE <1>6, ListTypes DEF SrcDst
  <2>1. /\ hasSrc /\ hasDst /\ src[srcBegin] = dst[dstBegin]
        /\ hasRef => src[srcBegin] < ref[refBegin]
    BY <1>1, SrcDstHeads
  <2>2. Passed(src, srcBegin + 1, ref, refBegin)
    BY <1>1, <1>2, <1>3, <2>1, PassOne
  <2>3. Passed(ref, refBegin, src, srcBegin + 1)
    BY <1>1, <1>2, <1>3, <2>1, PassOther
  <2>4. Passed(src, srcBegin + 1, dst, dstBegin + 1)
    BY <1>1, <1>2, <1>3, <2>1, PassBoth
  <2>5. Passed(dst, dstBegin + 1, src, srcBegin + 1)
    BY <1>1, <1>2, <1>3, <2>1, PassBoth
  <2>6. CopyOf(srcBegin - 1)'
    <3>1. Finds(ref, src[srcBegin], 0)
      BY <1>1, <1>2, <1>3, <2>1, NotFound
    <3>2. Finds(dst, src[srcBegin], dstBegin)
      BY <1>1, <1>2, <1>3, <2>1 DEF Finds
    <3>3. QED
      BY <1>1, <1>2, <1>4, <2>1, <3>1, <3>2, CopyOne DEF lists
  <2>7. ExtraOf(dstBegin - 1)'
    <3>1. ~Finds(src, dst[dstBegin], 0)
      BY <1>2, <2>1 DEF Finds
    <3>2. QED
      BY <1>1, <1>2, <1>4, <2>1, <3>1, ExtraNone DEF lists
  <2>8. QED
    BY <1>2, <2>2, <2>3, <2>4, <2>5, <2>6, <2>7 DEF MergeInv, Passed, lists
<1>7. CASE SrcRef
  <2> USE <1>7, ListTypes DEF SrcRef
  <2>1. /\ hasSrc /\ hasRef /\ src[srcBegin] = ref[refBegin]
        /\ hasDst => src[srcBegin] < dst[dstBegin]
    BY <1>1, SrcRefHeads
  <2>2. Passed(src, srcBegin + 1, ref, refBegin + 1)
    BY <1>1, <1>2, <1>3, <2>1, PassBoth
  <2>3. Passed(ref, refBegin + 1, src, srcBegin + 1)
    BY <1>1, <1>2, <1>3, <2>1, PassBoth
  <2>4. Passed(src, srcBegin + 1, dst, dstBegin)
    BY <1>1, <1>2, <1>3, <2>1, PassOne
  <2>5. Passed(dst, dstBegin, src, srcBegin + 1)
    BY <1>1, <1>2, <1>3, <2>1, PassOther
  <2>6. CopyOf(srcBegin - 1)'
    <3>1. Finds(ref, src[srcBegin], refBegin)
      BY <1>1, <1>2, <1>3, <2>1 DEF Finds
    <3>2. Finds(dst, src[srcBegin], 0)
      BY <1>1, <1>2, <1>3, <2>1, NotFound
    <3>3. QED
      BY <1>1, <1>2, <1>4, <2>1, <3>1, <3>2, CopyOne DEF lists
  <2>7. ExtraOf(dstBegin - 1)'
    BY <1>4 DEF ExtraOf, Finds, lists
  <2>8. QED
    BY <1>2, <2>2, <2>3, <2>4, <2>5, <2>6, <2>7 DEF MergeInv, Passed, lists
<1>8. CASE SrcRefDst
  <2> USE <1>8, ListTypes DEF SrcRefDst
  <2>1. /\ hasSrc /\ hasRef /\ hasDst
        /\ src[srcBegin] = ref[refBegin] /\ src[srcBegin] = dst[dstBegin]
    BY <1>1, SrcRefDstHeads
  <2>2. Passed(src, srcBegin + 1, ref, refBegin + 1)
    BY <1>1, <1>2, <1>3, <2>1, PassBoth
  <2>3. Passed(ref, refBegin + 1, src, srcBegin + 1)
    BY <1>1, <1>2, <1>3, <2>1, PassBoth
  <2>4. Passed(src, srcBegin + 1, dst, dstBegin + 1)
    BY <1>1, <1>2, <1>3, <2>1, PassBoth
  <2>5. Passed(dst, dstBegin + 1, src, srcBegin + 1)
    BY <1>1, <1>2, <1>3, <2>1, PassBoth
  <2>6. CopyOf(srcBegin - 1)'
    <3>1. Finds(ref, src[srcBegin], refBegin)
      BY <1>1, <1>2, <1>3, <2>1 DEF Finds
    <3>2. Finds(dst, src[srcBegin], dstBegin)
      BY <1>1, <1>2, <1>3, <2>1 DEF Finds
    <3>3. QED
      BY <1>1, <1>2, <1>4, <2>1, <3>1, <3>2, CopyOne DEF lists
  <2>7. ExtraOf(dstBegin - 1)'
    <3>1. ~Finds(src, dst[dstBegin], 0)
      BY <1>2, <2>1 DEF Finds
    <3>2. QED
      BY <1>1, <1>2, <1>4, <2>1, <3>1, ExtraNone DEF lists
  <2>8. QED
    BY <1>2, <2>2, <2>3, <2>4, <2>5, <2>6, <2>7 DEF MergeInv, Passed, lists
<1>9. CASE RefOnly
  <2> USE <1>9, ListTypes DEF RefOnly
  <2>1. hasRef /\ (hasSrc => ref[refBegin] < src[srcBegin])
    BY <1>1, RefOnlyHeads
  <2>2. Passed(src, srcBegin, ref, refBegin + 1)
    BY <1>1, <1>2, <1>3, <2>1, PassOther
  <2>3. Passed(ref, refBegin + 1, src, srcBegin)
    BY <1>1, <1>2, <1>3, <2>1, PassOne
  <2>4. Passed(src, srcBegin, dst, dstBegin)
    BY <1>1, <1>2, <1>3, <2>1
  <2>5. Passed(dst, dstBegin, src, srcBegin)
    BY <1>1, <1>2, <1>3, <2>1
  <2>6. CopyOf(srcBegin - 1)'
    BY <1>4 DEF CopyOf, Finds, lists
  <2>7. ExtraOf(dstBegin - 1)'
    BY <1>4 DEF ExtraOf, Finds, lists
  <2>8. QED
    BY <1>2, <2>2, <2>3, <2>4, <2>5, <2>6, <2>7 DEF MergeInv, Passed, lists
<1>10. CASE RefDst
  <2> USE <1>10, ListTypes DEF RefDst
  <2>1. /\ hasRef /\ hasDst
        /\ hasSrc => ref[refBegin] < src[srcBegin] /\ dst[dstBegin] < src[srcBegin]
    BY <1>1, RefDstHeads
  <2>2. Passed(src, srcBegin, ref, refBegin + 1)
    BY <1>1, <1>2, <1>3, <2>1, PassOther
  <2>3. Passed(ref, refBegin + 1, src, srcBegin)
    BY <1>1, <1>2, <1>3, <2>1, PassOne
  <2>4. Passed(src, srcBegin, dst, dstBegin + 1)
    BY <1>1, <1>2, <1>3, <2>1, PassOther
  <2>5. Passed(dst, dstBegin + 1, src, srcBegin)
    BY <1>1, <1>2, <1>3, <2>1, PassOne
  <2>6. CopyOf(srcBegin - 1)'
    BY <1>4 DEF CopyOf, Finds, lists
  <2>7. ExtraOf(dstBegin - 1)'
    <3>1. Finds(src, dst[dstBegin], 0)
      BY <1>1, <1>2, <1>3, <2>1, NotFound
    <3>2. QED
      BY <1>1, <1>2, <1>4, <2>1, <3>1, ExtraOne DEF lists
  <2>8. QED
    BY <1>2, <2>2, <2>3, <2>4, <2>5, <2>6, <2>7 DEF MergeInv, Passed, lists
<1>11. CASE ~Done /\ DstOnly
  <2> USE <1>11, ListTypes DEF DstOnly
  <2>1. hasDst /\ (hasSrc => dst[dstBegin] < src[srcBegin])
    BY <1>1, DstOnlyHeads
  <2>2. Passed(src, srcBegin, ref, refBegin)
    BY <1>1, <1>2, <1>3, <2>1
  <2>3. Passed(ref, refBegin, src, srcBegin)
    BY <1>1, <1>2, <1>3, <2>1
  <2>4. Passed(src, srcBegin, dst, dstBegin + 1)
    BY <1>1, <1>2, <1>3, <2>1, PassOther
  <2>5. Passed(dst, dstBegin + 1, src, srcBegin)
    BY <1>1, <1>2, <1>3, <2>1, PassOne
  <2>6. CopyOf(srcBegin - 1)'
    BY <1>4 DEF CopyOf, Finds, lists
  <2>7. ExtraOf(dstBegin - 1)'
    <3>1. Finds(src, dst[dstBegin], 0)
      BY <1>1, <1>2, <1>3, <2>1, NotFound
    <3>2. QED
      BY <1>1, <1>2, <1>4, <2>1, <3>1, ExtraOne DEF lists
  <2>8. QED
    BY <1>2, <2>2, <2>3, <2>4, <2>5, <2>6, <2>7 DEF MergeInv, Passed, lists
<1>12. CASE UNCHANGED vars
  BY <1>3, <1>4, <1>12 DEF vars, lists, MergeInv, Passed, CopyOf, ExtraOf, Finds
<1>13. QED
  BY <1>5, <1>6, <1>7, <1>8, <1>9, <1>10, <1>11, <1>12 DEF Next

\* At the end, everything has been passed.
LEMMA MergeDone == IInv => MergeRight
<1> SUFFICES ASSUME IInv, Done PROVE CopyOf(Len(src)) /\ ExtraOf(Len(dst))
  BY DEF MergeRight
<1>1. srcBegin - 1 = Len(src) /\ dstBegin - 1 = Len(dst)
  BY Heads DEF IInv, Done
<1>2. QED
  BY <1>1 DEF IInv, MergeInv

\* Every name of src is matched with its namesakes in ref and dst, and exactly
\* what has none in src is extra.
THEOREM MergesRight == NamesUnique => (Spec => []MergeRight)
<1> SUFFICES ASSUME NamesUnique PROVE Spec => []MergeRight
  OBVIOUS
<1>1. Init => IInv
  <2> SUFFICES ASSUME Init PROVE IInv
    OBVIOUS
  <2>1. TypeOK
    BY ListTypes DEF Init, TypeOK
  <2>2. MergeInv
    BY DEF Init, MergeInv, Passed, CopyOf, ExtraOf
  <2>3. QED
    BY <2>1, <2>2 DEF IInv
<1>2. IInv /\ [Next]_vars => IInv'
  BY MergeStep, TypeStep DEF IInv
<1>3. QED
  BY <1>1, <1>2, MergeDone, PTL DEF Spec
=============================================================================
