--------------------------- MODULE MCFileComparer ---------------------------
(* FileComparer on short files, read two bytes at a time (kTargetBufferSize = *)
(* 3, sectors of 2 bytes).                                                    *)
EXTENDS FileComparer

\* Nothing, one buffer with an equal and a different twin, and three buffers:
\* both halves are used again, and the files differ in the last buffer only.
MCFiles == {<<>>, <<0>>, <<0, 1>>, <<0, 0, 0>>, <<0, 1, 0, 0, 0>>, <<0, 1, 0, 0, 1>>}
=============================================================================
