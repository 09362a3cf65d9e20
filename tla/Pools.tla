-------------------------------- MODULE Pools --------------------------------
(***************************************************************************)
(* dispatchPool of internal/orchestrator/orchestrator.go: a conversion     *)
(* opens one pool, the forked one if ForkAfterLoadEnabled says so for its  *)
(* format, else the legacy one, and renders all its chunks with it.  There *)
(* is no falling back from one to the other.  Both pools suffer the same   *)
(* faults; the legacy one is given more chunks than it has workers.        *)
(***************************************************************************)
EXTENDS ForkedPool

CONSTANT LegacyChunks   \* the chunks of a plan for the legacy pool

ASSUME PoolsAssumption == IsFiniteSet(LegacyChunks)

VARIABLES
    kind,       \* "forked" or "legacy"
    legacyPool, load, available, legacyPc, held, cancelled, toQuit,
    proc, legacyStdin, resp, legacyWork

Legacy == INSTANCE WorkerPool WITH
            Chunks <- LegacyChunks, pool <- legacyPool, pc <- legacyPc,
            stdin <- legacyStdin, work <- legacyWork

legacyVars == <<legacyPool, load, available, legacyPc, held, cancelled, toQuit,
                proc, legacyStdin, resp, legacyWork>>
poolsVars  == <<kind, vars, legacyVars>>

PoolsInit == kind \in {"forked", "legacy"} /\ Init /\ Legacy!Init

ForkedStep == kind = "forked" /\ Next /\ UNCHANGED <<kind, legacyVars>>
LegacyStep == kind = "legacy" /\ Legacy!Next /\ UNCHANGED <<kind, vars>>
PoolsNext  == ForkedStep \/ LegacyStep

PoolsSpec == PoolsInit /\ [][PoolsNext]_poolsVars

\* The Go runtime schedules every goroutine of the pool in use and fires every
\* timer.  Nothing is assumed of the processes: a render may hang for ever.
PoolsHangSpec ==
    /\ PoolsSpec
    /\ \A c \in Callers : WF_vars(kind = "forked" /\ CallerStep(c))
    /\ WF_vars(kind = "forked" /\ ReaderStep)
    /\ WF_vars(kind = "forked" /\ PoolStep)
    /\ \A w \in Legacy!Workers : WF_legacyVars(kind = "legacy" /\ Legacy!LoadStep(w))
    /\ \A c \in LegacyChunks : WF_legacyVars(kind = "legacy" /\ Legacy!CallerStep(c))
    /\ WF_legacyVars(kind = "legacy" /\ Legacy!PoolStep)

-----------------------------------------------------------------------------
(* Properties.  The pool that is not in use stays as it is; the properties  *)
(* of ForkedPool and WorkerPool hold of it, and say something of the other. *)

\* Every RenderChunk (and LoadDocument) call of the forked pool returns.
ForkedCallsReturn ==
    \A c \in Callers : kind = "forked" /\ pc[c] = "numbered" ~> pc[c] \in Returned

\* Every call of the legacy pool that needs a worker gets one, or sees its context
\* cancelled, and returns, even if processes hang: every path puts the worker back.
LegacyCallsReturn ==
    \A c \in LegacyChunks :
        kind = "legacy" /\ legacyPc[c] = "select" ~> legacyPc[c] \in Legacy!Returned

\* Every legacy worker is held by one call or once on the channel; none is lost,
\* and none is alive after a failed start or after Close.
WorkersAccounted == Legacy!WorkersAccounted

\* The legacy pool keeps the weaker promise of the abstract renderer, which holds
\* until one of its calls has failed.
ImplementsWeakChunkRenderer == Legacy!ImplementsWeakChunkRenderer
=============================================================================
