------------------------------ MODULE MCVolume ------------------------------
(* Volume with up to two disks each, of sectors that divide one another, as *)
(* they do in practice, and of ones that do not.                            *)
EXTENDS Volume

MCDisk(l, p) == [fileOffset |-> l, memory |-> p]
MCDisks == {MCDisk(1, 1), MCDisk(1, 4), MCDisk(2, 2), MCDisk(4, 4), MCDisk(3, 6)}
MCExtents == {<<d>> : d \in MCDisks} \union {<<d, e>> : d \in MCDisks, e \in MCDisks}
=============================================================================
