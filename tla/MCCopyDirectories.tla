------------------------- MODULE MCCopyDirectories -------------------------
(* CopyDirectories on trees of up to two levels below the root.             *)
EXTENDS CopyDirectories

NoTree == [dirs |-> {}, files |-> {}]

\* Two directories, so that both slots are used, one with a subdirectory and a
\* file; the same names for the other kind; nothing at all.
MCTrees ==
  {NoTree,
   [dirs |-> {<<>>, <<1>>, <<2>>, <<1, 2>>}, files |-> {<<1, 1>>, <<2, 1>>}],
   [dirs |-> {<<>>, <<1>>, <<1, 1>>}, files |-> {<<1, 2>>, <<1, 1, 1>>, <<2>>}]}
=============================================================================
