---------------------------- MODULE MCFileReads ----------------------------
(***************************************************************************)
(* FileReads on small instances.  Reads and files are interchangeable, so  *)
(* the safety runs use their permutations as a symmetry set.               *)
(***************************************************************************)
EXTENDS FileReadsInv, TLC

Symmetry == Permutations(Reads) \cup Permutations(Files)
=============================================================================
