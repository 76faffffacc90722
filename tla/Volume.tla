------------------------------- MODULE Volume -------------------------------
(***************************************************************************)
(* Volume: the alignment that unbuffered access to a volume needs.  It is  *)
(* asked of each disk the volume extends over, when it is wanted first,    *)
(* and kept.  Any question may fail, which ends in an exception.  Compare  *)
(* of FileComparer takes the volumes of its two files, and sizes the       *)
(* chunks in which it reads both by the alignments of both.                *)
(***************************************************************************)
EXTENDS Integers, Sequences

CONSTANTS
  Volumes,      \* the volumes of src and cpy
  Extents       \* the disks a volume may extend over, one after the other

\* The sectors of a disk: BytesPerLogicalSector for the position in a file,
\* BytesPerPhysicalSector for the place in memory.
Kinds == {"fileOffset", "memory"}
Disk  == [Kinds -> Nat \ {0}]

ASSUME ConstantsAssumption == Extents \subseteq Seq(Disk)

VARIABLES
  disks,        \* the extents of each volume
  alignment,    \* m_unbuffered...Alignment, 0 as long as it is not known
  volume, kind, \* what is asked for, or None
  index, found  \* ReadUnbufferedAlignments: i, and what the disks have said so far

vars == <<disks, alignment, volume, kind, index, found>>

None    == "none"
Unknown == [k \in Kinds |-> 0]
Start   == [k \in Kinds |-> 1]

Init ==
  /\ disks \in [Volumes -> Extents]
  /\ alignment = [v \in Volumes |-> Unknown]
  /\ volume = None /\ kind = None /\ index = 0 /\ found = Start

Divides(d, n) == n % d = 0
Lcm(a, b) == CHOOSE n \in 1 .. a * b :
               /\ Divides(a, n) /\ Divides(b, n)
               /\ \A m \in 1 .. n - 1 : ~(Divides(a, m) /\ Divides(b, m))

\* Lines 65-77: the getters.
GetBug(v, k) ==
  /\ volume = None /\ alignment[v][k] = 0
  /\ volume' = v /\ kind' = k /\ index' = 0 /\ found' = Start
  /\ UNCHANGED <<disks, alignment>>
Get(v, k) ==
  /\ volume = None /\ alignment[v][k] = 0
  /\ volume' = v /\ kind' = k /\ index' = 1 /\ found' = Start
  /\ UNCHANGED <<disks, alignment>>

Reading == volume # None /\ index <= Len(disks[volume])
Leave   == volume' = None /\ kind' = None /\ index' = 0 /\ found' = Start

\* Lines 108-124.
ReadDiskBug ==
  /\ Reading
  /\ alignment' = [alignment EXCEPT ![volume] = [k \in Kinds |-> Lcm(found[k], disks[volume][index][k])]]
  /\ found' = alignment'[volume] /\ index' = index + 1
  /\ UNCHANGED <<disks, volume, kind>>
ReadDisk ==
  /\ Reading
  /\ found' = [k \in Kinds |-> Lcm(found[k], disks[volume][index][k])]
  /\ index' = index + 1
  /\ UNCHANGED <<disks, alignment, volume, kind>>

\* Lines 126-127.
Store ==
  /\ volume # None /\ ~Reading
  /\ alignment' = [alignment EXCEPT ![volume] = found]
  /\ Leave /\ UNCHANGED disks

\* Lines 81-119: any of the questions.
Fail == volume # None /\ Leave /\ UNCHANGED <<disks, alignment>>

Next == (\E v \in Volumes, k \in Kinds : Get(v, k)) \/ ReadDisk \/ Store \/ Fail

Spec == Init /\ [][Next]_vars

\* FileComparer.cpp, lines 107-110, of two volumes whose alignments are known.
ChunkSizeBug(s, c) ==
  Lcm(Lcm(alignment[s].fileOffset, alignment[c].fileOffset), alignment[s].memory)
ChunkSize(s, c) ==
  Lcm(Lcm(Lcm(alignment[s].fileOffset, alignment[c].fileOffset),
          alignment[s].memory), alignment[c].memory)

-----------------------------------------------------------------------------
(* Properties. *)

TypeOK ==
  /\ disks \in [Volumes -> Extents]
  /\ alignment \in [Volumes -> [Kinds -> Nat]]
  /\ volume \in Volumes \union {None} /\ kind \in Kinds \union {None}
  /\ index \in Nat /\ found \in Disk
  /\ volume # None => index \in 1 .. Len(disks[volume]) + 1

\* What is kept of a volume is for all of its disks, also after a failure at
\* one of them; and it is no more than they need.
Common(n, S) == \A d \in S : Divides(d, n)
Sectors(v, k) == {disks[v][i][k] : i \in 1 .. Len(disks[v])}
WholeVolume ==
  \A v \in Volumes : alignment[v] # Unknown =>
    \A k \in Kinds : \A n \in 1 .. alignment[v][k] :
      Common(n, Sectors(v, k)) <=> n = alignment[v][k]

\* A buffer of n bytes can be read into from any disk of both volumes, and the
\* second half of it begins where both can read to, exactly if n is a multiple
\* of ChunkSize.
ChunkFits ==
  \A s, c \in Volumes : Unknown \notin {alignment[s], alignment[c]} =>
    \A n \in 1 .. 2 * ChunkSize(s, c) :
      Divides(ChunkSize(s, c), n) <=>
        Common(n, UNION {Sectors(v, k) : v \in {s, c}, k \in Kinds})
=============================================================================
