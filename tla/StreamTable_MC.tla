--------------------------- MODULE StreamTable_MC ---------------------------
(* The stream table on a small instance: three stream objects and ids       *)
(* 1..IdMax, so that the id counter wraps while older streams are live.      *)
EXTENDS StreamTable, TLC

CONSTANTS s1, s2, s3

StreamSymmetry == Permutations({s1, s2, s3})

=============================================================================
