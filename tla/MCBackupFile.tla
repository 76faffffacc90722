---------------------------- MODULE MCBackupFile ----------------------------
(* BackupFile with files whose contents are all of one size, or empty.     *)
EXTENDS BackupFile, TLC

MCSize(c) == IF c = "empty" THEN 0 ELSE 1

MCFile(name, main, alt, times, security, unsupported) ==
  [name |-> name, data |-> [main |-> main, alt |-> alt, times |-> times,
                            security |-> security, unsupported |-> unsupported]]

\* Edits of the security together with the name's case, and to and from an
\* attribute that is not supported.  Contents differ by copies that were
\* interrupted, which leave something of the same size.
MCSources == {MCFile("f", "x", "empty", 1, 1, FALSE), MCFile("F", "x", "empty", 1, 2, FALSE),
              MCFile("f", "x", "empty", 1, 1, TRUE)}

\* One file, and an edit of an alternate stream that keeps its size and the
\* file's times.
MCStreamSources == {MCFile("f", "x", "x", 1, 1, FALSE), MCFile("f", "x", "y", 1, 1, FALSE)}

\* One file, and an edit of its security.
MCSecuritySources == {MCFile("f", "x", "empty", 1, 1, FALSE), MCFile("f", "x", "empty", 1, 2, FALSE)}

Symmetry == Permutations(Ids)
=============================================================================
