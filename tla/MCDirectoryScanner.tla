------------------------- MODULE MCDirectoryScanner -------------------------
(* DirectoryScanner on an empty directory and on one with all kinds of      *)
(* entries.                                                                 *)
EXTENDS DirectoryScanner

MCEntry(name, directory, streams) ==
  [name |-> name, directory |-> directory, streams |-> streams,
   security |-> CHOOSE d \in Descriptors : TRUE]

\* The directory itself, a file with and one without a stream, and a
\* directory with a stream.
MCDirectories ==
  {{}, {MCEntry("dot", TRUE, {}), MCEntry("a", FALSE, Streams),
        MCEntry("b", FALSE, {}), MCEntry("c", TRUE, Streams)}}

\* kAcceptAllScannerFilter, and the names of a set.
MCFilters == {Names \union Dots, {"a", "c"}}
MCFlagSets == {{}, Flags, {"kFolderStreams", "kFolderSecurity"}}
=============================================================================
