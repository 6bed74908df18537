---------------------------- MODULE MCOutputFile ----------------------------
(* Small instances of OutputFile.                                           *)
EXTENDS OutputFile, TLC

CONSTANTS s1, s2

StreamSymmetry == Permutations({s1, s2})
=============================================================================
