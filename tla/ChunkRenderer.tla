--------------------------- MODULE ChunkRenderer ---------------------------
(***************************************************************************)
(* What the orchestrator relies on when it calls worker.Pool.RenderChunk:  *)
(* a call returns at most once; it returns a path only when that chunk's   *)
(* pages are completely in that chunk's file; it reports out-of-memory     *)
(* only when a worker ran out of memory on that very chunk; and a file     *)
(* that has been handed back is never written again.  Any call may fail.   *)
(***************************************************************************)

CONSTANT Chunks     \* the chunks of one plan; each has its own output path

VARIABLES
    call,           \* call[c]: the state of RenderChunk(c) seen by its caller
    work            \* work[c]: what the worker processes did with chunk c

vars == <<call, work>>

CallState == {"idle", "running", "ok", "oom", "error"}
WorkState == {"none", "rendering", "ok", "oom", "error"}

TypeOK == /\ call \in [Chunks -> CallState]
          /\ work \in [Chunks -> WorkState]

Init == /\ call = [c \in Chunks |-> "idle"]
        /\ work = [c \in Chunks |-> "none"]

Call(c) == /\ call[c] = "idle"
           /\ call' = [call EXCEPT ![c] = "running"]
           /\ UNCHANGED work

\* A worker picks the chunk up.  Its caller may have given up by then.
Start(c) == /\ call[c] # "idle"
            /\ work[c] = "none"
            /\ work' = [work EXCEPT ![c] = "rendering"]
            /\ UNCHANGED call

Finish(c) == /\ work[c] = "rendering"
             /\ \E st \in {"ok", "oom", "error"} : work' = [work EXCEPT ![c] = st]
             /\ UNCHANGED call

Return(c) == /\ call[c] = "running"
             /\ \E r \in {"ok", "oom", "error"} :
                   /\ r # "error" => work[c] = r
                   /\ call' = [call EXCEPT ![c] = r]
             /\ UNCHANGED work

Next == \E c \in Chunks : Call(c) \/ Start(c) \/ Finish(c) \/ Return(c)

Spec == Init /\ [][Next]_vars

\* The weaker promise of a pool whose replies carry no sequence number: once one
\* of its calls has failed, another may be handed a reply that is not its own, for
\* a chunk no worker has started on.  renderAll fails the whole conversion on the
\* first failed call, and the cache finds no file to copy, so both can live with it.
Misreport(c) == /\ call[c] = "running"
                /\ \E d \in Chunks : call[d] \in {"oom", "error"}
                /\ work[c] = "none"
                /\ \E r \in {"ok", "oom"} : call' = [call EXCEPT ![c] = r]
                /\ UNCHANGED work

WeakSpec == Init /\ [][Next \/ \E c \in Chunks : Misreport(c)]_vars
=============================================================================
