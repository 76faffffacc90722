--------------------------- MODULE MCForceDelete ---------------------------
(* ForceDelete of two files that share four names, and a directory.         *)
EXTENDS ForceDelete
=============================================================================
