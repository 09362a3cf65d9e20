------------------------------- MODULE MCPools -------------------------------
(* A small instance of either pool for TLC.                                  *)
EXTENDS Pools
=============================================================================
