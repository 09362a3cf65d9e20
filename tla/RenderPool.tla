----------------------------- MODULE RenderPool -----------------------------
(***************************************************************************)
(* What the two implementations of worker.Pool (internal/worker/pool.go)   *)
(* have in common: the chunks of one plan, the size of the pool, and what  *)
(* may go wrong under it.                                                  *)
(***************************************************************************)
EXTENDS Naturals, Sequences, FiniteSets

CONSTANTS
    Chunks,         \* the chunks of the plan; RenderChunk is called once for each
    PoolSize,       \* poolSize: the number of processes that render
    Faults          \* what the environment may do, a subset of FaultKinds

FaultKinds == {"timeout",       \* a caller's timer fires before the reply
               "oom",           \* bad_alloc in a process
               "bootFails",     \* spawn, licence, load, socketpair or fork failure
               "killed",        \* a legacy worker is killed or crashes
               "childKilled",   \* a forked child is killed or crashes
               "leaderKilled",  \* the leader is killed or crashes
               "cancel"}        \* the request's context is cancelled

ASSUME RenderPoolAssumption ==
    /\ IsFiniteSet(Chunks)
    /\ PoolSize \in Nat \ {0}
    /\ Faults \subseteq FaultKinds
=============================================================================
