---------------------------- MODULE MCForkedPool ----------------------------
(* Small instances of the fork-after-load pool for TLC.                     *)
EXTENDS ForkedPool
=============================================================================
