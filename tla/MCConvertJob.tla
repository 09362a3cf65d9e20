---------------------------- MODULE MCConvertJob ----------------------------
(* Two conversions of a two-chunk document. *)
EXTENDS ConvertJob, TLC
ChunkSymmetry == Permutations(Chunks)
=============================================================================
