---------------------------- MODULE VolumeProofs ----------------------------
(***************************************************************************)
(* The alignments of Volume for any disks, of sectors of any size: what is *)
(* kept of a volume is the least common multiple of the sectors of all of  *)
(* its disks, and the chunks of Compare fit all disks of both volumes.     *)
(***************************************************************************)
EXTENDS Volume, FiniteSetTheorems, TLAPS

Positive == Nat \ {0}

-----------------------------------------------------------------------------
(* Multiples. *)

\* A product is divisible by its factor.
LEMMA Factor ==
  ASSUME NEW d \in Positive, NEW k \in Int
  PROVE  (d * k) % d = 0
BY SMT DEF Positive

\* Division with remainder.
LEMMA Division ==
  ASSUME NEW d \in Positive, NEW n \in Nat
  PROVE  /\ n \div d \in Nat /\ n % d \in 0 .. d - 1
         /\ n = d * (n \div d) + (n % d)
BY SMT DEF Positive

LEMMA Multiple ==
  ASSUME NEW d \in Positive, NEW n \in Nat
  PROVE  Divides(d, n) <=> \E k \in Nat : n = d * k
<1>1. ASSUME Divides(d, n) PROVE n = d * (n \div d) /\ n \div d \in Nat
  <2>1. n \div d \in Nat /\ d \in Nat /\ n % d = 0 /\ n = d * (n \div d) + (n % d)
    BY <1>1, Division DEF Divides, Positive
  <2> DEFINE q == n \div d
  <2>2. d * q \in Nat
    BY <2>1
  <2>3. QED
    BY <2>1, <2>2
<1>2. ASSUME NEW k \in Nat, n = d * k PROVE Divides(d, n)
  BY <1>2, Factor DEF Divides
<1>3. QED
  BY <1>1, <1>2

LEMMA Smaller ==
  ASSUME NEW d \in Positive, NEW n \in 1 .. d
  PROVE  Divides(d, n) <=> n = d
BY SMT DEF Divides, Positive

LEMMA Transitive ==
  ASSUME NEW a \in Positive, NEW b \in Positive, NEW n \in Nat,
         Divides(a, b), Divides(b, n)
  PROVE  Divides(a, n)
<1>1. PICK i \in Nat : b = a * i
  BY Multiple DEF Positive
<1>2. PICK j \in Nat : n = b * j
  BY Multiple
<1>3. n = a * (i * j) /\ i * j \in Nat
  BY <1>1, <1>2, SMT DEF Positive
<1>4. QED
  BY <1>3, Multiple

\* What divides a number and a multiple of its divisor divides the rest.
LEMMA Rest ==
  ASSUME NEW a \in Positive, NEW b \in Positive, NEW n \in Nat,
         Divides(a, b), Divides(a, n)
  PROVE  Divides(a, n % b)
<1>1. PICK i \in Nat : b = a * i
  BY Multiple DEF Positive
<1>2. PICK j \in Nat : n = a * j
  BY Multiple
<1> DEFINE q == n \div b
           r == n % b
<1>3. q \in Nat /\ r \in Nat /\ n = b * q + r
  <2>1. b \in Nat /\ q \in Nat /\ r \in 0 .. b - 1 /\ n = b * q + r
    BY Division DEF Positive
  <2> HIDE DEF q, r
  <2>2. QED
    BY <2>1
<1> HIDE DEF q, r
<1>4. r = a * (j - i * q) /\ j - i * q \in Int
  BY <1>1, <1>2, <1>3, SMT DEF Positive
<1>5. QED
  BY <1>4, Factor DEF Divides, r

-----------------------------------------------------------------------------
(* The least common multiple. *)

LEMMA Least ==
  ASSUME NEW S \in SUBSET Nat, S # {}
  PROVE  \E m \in S : \A n \in S : m <= n
<1> DEFINE T == {0 .. n : n \in S}
<1>1. T \subseteq FiniteSubsetsOf(Nat) /\ T # {}
  <2>1. \A n \in S : IsFiniteSet(0 .. n) /\ 0 .. n \subseteq Nat
    BY FS_Interval
  <2>2. QED
    BY <2>1 DEF FiniteSubsetsOf
<1>2. PICK x \in T : \A y \in T : <<y, x>> \notin StrictSubsetOrdering(Nat)
  <2> HIDE DEF T
  <2>1. QED
    BY <1>1, FS_StrictSubsetOrderingWellFounded, WFMin
<1>3. PICK m \in S : x = 0 .. m
  BY <1>2
<1>4. ASSUME NEW n \in S, n < m PROVE FALSE
  <2>1. 0 .. n \subseteq 0 .. m /\ 0 .. n # 0 .. m
    <3>1. m \in 0 .. m /\ m \notin 0 .. n /\ n \in Nat /\ m \in Nat
      BY <1>4
    <3>2. QED
      BY <3>1, <1>4
  <2>2. 0 .. n \in SUBSET Nat /\ 0 .. m \in SUBSET Nat
    OBVIOUS
  <2>3. <<0 .. n, 0 .. m>> \in StrictSubsetOrdering(Nat)
    BY <2>1, <2>2 DEF StrictSubsetOrdering
  <2>4. QED
    BY <2>3, <1>2, <1>3
<1>5. QED
  BY <1>4

\* Lcm finds a common multiple of its arguments, and the least one.
LEMMA LcmLeast ==
  ASSUME NEW a \in Positive, NEW b \in Positive
  PROVE  /\ Lcm(a, b) \in Positive
         /\ Divides(a, Lcm(a, b)) /\ Divides(b, Lcm(a, b))
         /\ \A n \in 1 .. Lcm(a, b) - 1 : ~(Divides(a, n) /\ Divides(b, n))
<1> DEFINE P(n) == /\ Divides(a, n) /\ Divides(b, n)
                   /\ \A m \in 1 .. n - 1 : ~(Divides(a, m) /\ Divides(b, m))
           S == {n \in 1 .. a * b : Divides(a, n) /\ Divides(b, n)}
<1>1. a * b \in Positive /\ a * b = b * a
  BY SMT DEF Positive
<1>2. a * b \in S
  BY <1>1, Factor DEF Divides, Positive
<1>3. PICK l \in S : \A n \in S : l <= n
  <2>1. S \in SUBSET Nat /\ S # {}
    BY <1>1, <1>2
  <2>2. QED
    BY <2>1, Least
<1>4. l \in 1 .. a * b /\ P(l)
  <2>1. l \in 1 .. a * b /\ Divides(a, l) /\ Divides(b, l)
    OBVIOUS
  <2>2. ASSUME NEW m \in 1 .. l - 1, Divides(a, m), Divides(b, m) PROVE FALSE
    <3>1. m \in 1 .. a * b /\ m < l
      BY <2>1, <1>1 DEF Positive
    <3>2. m \in S
      BY <3>1, <2>2
    <3>3. QED
      BY <3>1, <3>2, <1>3, <2>1
  <2>3. QED
    BY <2>1, <2>2
<1> HIDE DEF P, S
<1>5. Lcm(a, b) = CHOOSE n \in 1 .. a * b : P(n)
  BY DEF Lcm, P
<1>6. Lcm(a, b) \in 1 .. a * b /\ P(Lcm(a, b))
  BY <1>4, <1>5
<1>7. QED
  BY <1>1, <1>6 DEF P, Positive

\* Every common multiple is a multiple of it.
LEMMA LcmDivides ==
  ASSUME NEW a \in Positive, NEW b \in Positive, NEW n \in Nat
  PROVE  Divides(Lcm(a, b), n) <=> Divides(a, n) /\ Divides(b, n)
<1> DEFINE l == Lcm(a, b)
<1>1. /\ l \in Positive /\ Divides(a, l) /\ Divides(b, l)
      /\ \A m \in 1 .. l - 1 : ~(Divides(a, m) /\ Divides(b, m))
  BY LcmLeast
<1> HIDE DEF l
<1>2. ASSUME Divides(l, n) PROVE Divides(a, n) /\ Divides(b, n)
  BY <1>1, <1>2, Transitive
<1>3. ASSUME Divides(a, n), Divides(b, n) PROVE Divides(l, n)
  <2>1. Divides(a, n % l) /\ Divides(b, n % l)
    BY <1>1, <1>3, Rest
  <2>2. n % l \in 0 .. l - 1
    BY <1>1, Division
  <2>3. n % l = 0
    BY <1>1, <2>1, <2>2 DEF Positive
  <2>4. QED
    BY <2>3 DEF Divides
<1>4. QED
  BY <1>2, <1>3 DEF l

-----------------------------------------------------------------------------
(* The inductive invariant. *)

\* Either nothing is known of a volume or all that is asked for.
AlignmentOK ==
  \A v \in Volumes : alignment[v] # Unknown =>
    \A k \in Kinds :
      /\ alignment[v][k] \in Positive
      /\ \A n \in Nat : Divides(alignment[v][k], n) <=> Common(n, Sectors(v, k))

\* What has been found is for the disks that have been read.
FoundOK ==
  volume # None =>
    \A k \in Kinds : \A n \in Nat :
      Divides(found[k], n) <=> \A i \in 1 .. index - 1 : Divides(disks[volume][i][k], n)

VolumeInv == TypeOK /\ AlignmentOK /\ FoundOK

LEMMA DiskType ==
  ASSUME TypeOK, NEW v \in Volumes
  PROVE  /\ disks[v] \in Seq(Disk) /\ Len(disks[v]) \in Nat
         /\ \A i \in 1 .. Len(disks[v]), k \in Kinds : disks[v][i][k] \in Positive
<1>1. disks[v] \in Seq(Disk)
  BY ConstantsAssumption DEF TypeOK
<1>2. QED
  BY <1>1 DEF Disk, Positive

\* One disk more.
LEMMA ReadDiskStep ==
  ASSUME VolumeInv, ReadDisk
  PROVE  VolumeInv'
<1> USE DEF VolumeInv
<1>1. /\ volume \in Volumes /\ volume # None
      /\ index \in 1 .. Len(disks[volume]) /\ Len(disks[volume]) \in Nat
  BY DiskType DEF ReadDisk, Reading, TypeOK
<1>2. \A k \in Kinds : found[k] \in Positive /\ disks[volume][index][k] \in Positive
  BY <1>1, DiskType DEF TypeOK, Disk, Positive
<1>3. \A k \in Kinds : found'[k] = Lcm(found[k], disks[volume][index][k])
  BY DEF ReadDisk
<1>4. TypeOK'
  <2>1. found' \in Disk
    <3>1. \A k \in Kinds : Lcm(found[k], disks[volume][index][k]) \in Nat \ {0}
      BY <1>2, LcmLeast DEF Positive
    <3>2. QED
      BY <3>1 DEF ReadDisk, Disk
  <2>2. QED
    BY <2>1, <1>1 DEF ReadDisk, TypeOK
<1>5. AlignmentOK'
  BY DEF ReadDisk, AlignmentOK, Sectors, Common
<1>6. FoundOK'
  <2> SUFFICES ASSUME NEW k \in Kinds, NEW n \in Nat
               PROVE  Divides(found'[k], n) <=>
                        \A i \in 1 .. index : Divides(disks[volume][i][k], n)
    BY <1>1 DEF FoundOK, ReadDisk
  <2>1. Divides(found'[k], n) <=> Divides(found[k], n) /\ Divides(disks[volume][index][k], n)
    BY <1>2, <1>3, LcmDivides
  <2>2. Divides(found[k], n) <=> \A i \in 1 .. index - 1 : Divides(disks[volume][i][k], n)
    BY <1>1 DEF FoundOK
  <2>3. 1 .. index = 1 .. index - 1 \union {index}
    BY <1>1
  <2>4. QED
    BY <2>1, <2>2, <2>3
<1>7. QED
  BY <1>4, <1>5, <1>6

\* What has been found for all disks is kept.
LEMMA StoreStep ==
  ASSUME VolumeInv, Store
  PROVE  VolumeInv'
<1> USE DEF VolumeInv
<1>1. /\ volume \in Volumes /\ volume # None
      /\ index = Len(disks[volume]) + 1 /\ Len(disks[volume]) \in Nat
  BY DiskType DEF Store, Reading, TypeOK
<1>2. found \in Disk /\ found # Unknown
  BY DEF TypeOK, Disk, Unknown, Kinds
<1>3. TypeOK'
  BY <1>2 DEF Store, Leave, TypeOK, Disk, Start
<1>4. AlignmentOK'
  <2> SUFFICES ASSUME NEW v \in Volumes, alignment'[v] # Unknown, NEW k \in Kinds
               PROVE  /\ alignment'[v][k] \in Positive
                      /\ \A n \in Nat : Divides(alignment'[v][k], n) <=> Common(n, Sectors(v, k))
    BY DEF AlignmentOK, Sectors, Common, Store
  <2>1. CASE v = volume
    <3>1. alignment'[v][k] = found[k] /\ found[k] \in Positive
      BY <2>1, <1>2 DEF Store, TypeOK, Disk, Positive
    <3>2. ASSUME NEW n \in Nat PROVE Divides(found[k], n) <=> Common(n, Sectors(v, k))
      <4>1. Divides(found[k], n) <=> \A i \in 1 .. Len(disks[v]) : Divides(disks[v][i][k], n)
        BY <2>1, <1>1 DEF FoundOK
      <4>2. QED
        BY <4>1 DEF Common, Sectors
    <3>3. QED
      BY <3>1, <3>2
  <2>2. CASE v # volume
    BY <2>2 DEF Store, TypeOK, AlignmentOK
  <2>3. QED
    BY <2>1, <2>2
<1>5. FoundOK'
  BY DEF Store, Leave, FoundOK
<1>6. QED
  BY <1>3, <1>4, <1>5

LEMMA Inductive ==
  ASSUME VolumeInv, [Next]_vars
  PROVE  VolumeInv'
<1> USE DEF VolumeInv
<1>1. ASSUME NEW v \in Volumes, NEW k \in Kinds, Get(v, k) PROVE VolumeInv'
  <2>1. TypeOK'
    BY <1>1, DiskType DEF Get, TypeOK, Disk, Start
  <2>2. AlignmentOK'
    BY <1>1 DEF Get, AlignmentOK, Sectors, Common
  <2>3. FoundOK'
    <3>1. \A n \in Nat : Divides(1, n)
      BY DEF Divides
    <3>2. index' - 1 = 0 /\ found' = Start
      BY <1>1 DEF Get
    <3>3. QED
      BY <3>1, <3>2 DEF FoundOK, Start
  <2>4. QED
    BY <2>1, <2>2, <2>3
<1>2. ASSUME Fail PROVE VolumeInv'
  <2>1. TypeOK'
    BY <1>2 DEF Fail, Leave, TypeOK, Disk, Start
  <2>2. AlignmentOK'
    BY <1>2 DEF Fail, AlignmentOK, Sectors, Common
  <2>3. FoundOK'
    BY <1>2 DEF Fail, Leave, FoundOK
  <2>4. QED
    BY <2>1, <2>2, <2>3
<1>3. CASE UNCHANGED vars
  BY <1>3 DEF vars, TypeOK, AlignmentOK, FoundOK, Sectors, Common
<1>4. QED
  BY <1>1, <1>2, <1>3, ReadDiskStep, StoreStep DEF Next

-----------------------------------------------------------------------------
(* The theorems. *)

\* What is kept of the volumes, and what has been found so far, are least
\* common multiples.
THEOREM Invariance == Spec => []VolumeInv
<1>1. Init => VolumeInv
  <2> SUFFICES ASSUME Init PROVE VolumeInv
    OBVIOUS
  <2>1. TypeOK
    BY DEF Init, TypeOK, Disk, Start, Unknown
  <2>2. AlignmentOK /\ FoundOK
    BY DEF Init, AlignmentOK, FoundOK
  <2>3. QED
    BY <2>1, <2>2 DEF VolumeInv
<1>2. VolumeInv /\ [Next]_vars => VolumeInv'
  BY Inductive
<1>3. QED
  BY <1>1, <1>2, PTL DEF Spec

\* The getters, ReadUnbufferedAlignments and its loop keep to their types: the
\* index stays within the extents, and nothing found is ever 0.
THEOREM TypeCorrect == Spec => []TypeOK
<1>1. VolumeInv => TypeOK
  BY DEF VolumeInv
<1>2. QED
  BY <1>1, Invariance, PTL

\* ReadUnbufferedAlignments keeps an alignment for all disks of the volume or
\* none, however often it has failed before; and it is the least.
THEOREM WholeVolumeAlways == Spec => []WholeVolume
<1>1. ASSUME VolumeInv PROVE WholeVolume
  <2> SUFFICES ASSUME NEW v \in Volumes, alignment[v] # Unknown, NEW k \in Kinds,
                      NEW n \in 1 .. alignment[v][k]
               PROVE  Common(n, Sectors(v, k)) <=> n = alignment[v][k]
    BY DEF WholeVolume
  <2>1. /\ alignment[v][k] \in Positive
        /\ n \in Nat
        /\ Divides(alignment[v][k], n) <=> Common(n, Sectors(v, k))
    BY <1>1 DEF VolumeInv, AlignmentOK, Positive
  <2>2. QED
    BY <2>1, Smaller
<1>2. VolumeInv => WholeVolume
  BY <1>1
<1>3. QED
  BY <1>2, Invariance, PTL

\* The chunks of Compare fit the sectors of all disks of both volumes, and
\* nothing smaller would do.
THEOREM ChunksFit == Spec => []ChunkFits
<1>1. ASSUME VolumeInv PROVE ChunkFits
  <2> SUFFICES ASSUME NEW s \in Volumes, NEW c \in Volumes,
                      Unknown \notin {alignment[s], alignment[c]},
                      NEW n \in 1 .. 2 * ChunkSize(s, c)
               PROVE  Divides(ChunkSize(s, c), n) <=>
                        Common(n, UNION {Sectors(v, k) : v \in {s, c}, k \in Kinds})
    BY DEF ChunkFits
  <2> DEFINE a == alignment[s]
             b == alignment[c]
             l == Lcm(a.fileOffset, b.fileOffset)
             m == Lcm(l, a.memory)
  <2>1. \A v \in {s, c}, k \in Kinds :
          /\ alignment[v][k] \in Positive
          /\ \A i \in Nat : Divides(alignment[v][k], i) <=> Common(i, Sectors(v, k))
    BY <1>1 DEF VolumeInv, AlignmentOK
  <2>2. {a.fileOffset, b.fileOffset, a.memory, b.memory} \subseteq Positive
    BY <2>1 DEF Kinds
  <2>3. l \in Positive /\ m \in Positive /\ ChunkSize(s, c) = Lcm(m, b.memory)
    BY <2>2, LcmLeast DEF ChunkSize
  <2>4. ChunkSize(s, c) \in Positive /\ n \in Nat
    BY <2>2, <2>3, LcmLeast DEF Positive
  <2>5. Divides(ChunkSize(s, c), n) <=>
          /\ Divides(a.fileOffset, n) /\ Divides(b.fileOffset, n)
          /\ Divides(a.memory, n) /\ Divides(b.memory, n)
    <3>1. Divides(l, n) <=> Divides(a.fileOffset, n) /\ Divides(b.fileOffset, n)
      BY <2>2, <2>4, LcmDivides
    <3>2. Divides(m, n) <=> Divides(l, n) /\ Divides(a.memory, n)
      BY <2>2, <2>3, <2>4, LcmDivides
    <3>3. Divides(ChunkSize(s, c), n) <=> Divides(m, n) /\ Divides(b.memory, n)
      BY <2>2, <2>3, <2>4, LcmDivides
    <3>4. QED
      BY <3>1, <3>2, <3>3
  <2>6. Divides(ChunkSize(s, c), n) <=> \A v \in {s, c}, k \in Kinds : Divides(alignment[v][k], n)
    BY <2>5 DEF Kinds
  <2>7. QED
    BY <2>1, <2>4, <2>6 DEF Common
<1>2. VolumeInv => ChunkFits
  BY <1>1
<1>3. QED
  BY <1>2, Invariance, PTL
=============================================================================
