----------------------------- MODULE WorkerPool -----------------------------
(***************************************************************************)
(* The legacy pool of one conversion (internal/worker/pool.go, WorkerPool  *)
(* and PooledWorker): PoolSize independent processes, each running         *)
(* pool_loop of worker_cpp/pool.cpp with its own copy of the document, and *)
(* a channel of available workers.  A call checks a worker out, sends one  *)
(* command, waits for one reply line or for its timer, and puts the worker *)
(* back whatever happened.  Replies carry no sequence number.              *)
(***************************************************************************)
EXTENDS RenderPool

Workers == 1..PoolSize
Status  == {"ok", "oom", "error"}

VARIABLES
    pool,       \* "loading", "failed", "open", "closing", "closed"
    load,       \* load[w]: where worker w's loading goroutine is
    available,  \* the channel of free workers
    pc,         \* pc[c]: where the RenderChunk call for c is, or how it returned
    held,       \* held[c]: the worker c has checked out
    cancelled,  \* ctx.Done() is closed
    toQuit,     \* Close: the worker being quit
    proc,       \* proc[w]: the process behind w
    stdin,      \* stdin[w]: commands written and not yet read
    resp,       \* resp[w]: reply lines in the stdout pipe or in respCh
    work        \* work[c]: what the processes have done to c's output file

goVars   == <<pool, load, available, pc, held, cancelled, toQuit>>
procVars == <<proc, stdin, resp, work>>
vars     == <<goVars, procVars>>

Returned == {"ok", "oom", "error"}
\* "exiting": replied OOM and returning; "doomed": SIGKILLed, not yet torn down.
Live(w)     == proc[w] \in {"up", "render", "exiting", "doomed"}
Writable(w) == Live(w)
EOF(w)      == resp[w] = <<>> /\ proc[w] = "dead"

Init == /\ pool = "loading"
        /\ load = [w \in Workers |-> "spawn"]
        /\ available = <<>>
        /\ pc = [c \in Chunks |-> "idle"]
        /\ held = [c \in Chunks |-> 0]
        /\ cancelled = FALSE
        /\ toQuit = 0
        /\ proc = [w \in Workers |-> "none"]
        /\ stdin = [w \in Workers |-> <<>>]
        /\ resp = [w \in Workers |-> <<>>]
        /\ work = [c \in Chunks |-> "none"]

-----------------------------------------------------------------------------
(* NewWorkerPool: one goroutine per worker, joined by a WaitGroup.         *)

Spawn(w) ==
    /\ load[w] = "spawn"
    /\ \/ /\ load' = [load EXCEPT ![w] = "send"]
          /\ proc' = [proc EXCEPT ![w] = "up"]
       \/ /\ "bootFails" \in Faults
          /\ load' = [load EXCEPT ![w] = "failed"]
          /\ UNCHANGED proc
    /\ UNCHANGED <<pool, available, pc, held, cancelled, toQuit, stdin, resp, work>>

\* A failed LoadDocument is followed by w.kill(), which waits for the process.
LoadFails(w) ==
    /\ load' = [load EXCEPT ![w] = "failed"]
    /\ proc' = [proc EXCEPT ![w] = "dead"]

SendLoad(w) ==
    /\ load[w] = "send"
    /\ IF Writable(w)
       THEN /\ stdin' = [stdin EXCEPT ![w] = Append(@, [op |-> "load", who |-> {}])]
            /\ load' = [load EXCEPT ![w] = "await"]
            /\ UNCHANGED proc
       ELSE LoadFails(w) /\ UNCHANGED stdin
    /\ UNCHANGED <<pool, available, pc, held, cancelled, toQuit, resp, work>>

LoadReplied(w) ==
    /\ load[w] = "await" /\ resp[w] # <<>>
    /\ IF Head(resp[w]) = "ok"
       THEN load' = [load EXCEPT ![w] = "ok"] /\ UNCHANGED proc
       ELSE LoadFails(w)
    /\ resp' = [resp EXCEPT ![w] = Tail(@)]
    /\ UNCHANGED <<pool, available, pc, held, cancelled, toQuit, stdin, work>>

LoadGivenUp(w) ==
    /\ load[w] = "await"
    /\ EOF(w) \/ "timeout" \in Faults
    /\ LoadFails(w)
    /\ UNCHANGED <<pool, available, pc, held, cancelled, toQuit, stdin, resp, work>>

\* After wg.Wait(): one failure and every worker that did load is killed.
StartPool ==
    /\ pool = "loading"
    /\ \A w \in Workers : load[w] \in {"ok", "failed"}
    /\ IF \A w \in Workers : load[w] = "ok"
       THEN /\ pool' = "open"
            /\ available' = [i \in Workers |-> i]
            /\ UNCHANGED proc
       ELSE /\ pool' = "failed"
            /\ proc' = [w \in Workers |-> IF load[w] = "ok" THEN "dead" ELSE proc[w]]
            /\ UNCHANGED available
    /\ UNCHANGED <<load, pc, held, cancelled, toQuit, stdin, resp, work>>

-----------------------------------------------------------------------------
(* RenderChunk.                                                            *)

\* A goroutine of renderAll calls RenderChunk.
Begin(c) ==
    /\ pool = "open" /\ pc[c] = "idle"
    /\ pc' = [pc EXCEPT ![c] = "select"]
    /\ UNCHANGED <<pool, load, available, held, cancelled, toQuit, procVars>>

\* select: a worker is available ...
Checkout(c) ==
    /\ pc[c] = "select" /\ available # <<>>
    /\ held' = [held EXCEPT ![c] = Head(available)]
    /\ available' = Tail(available)
    /\ pc' = [pc EXCEPT ![c] = "send"]
    /\ UNCHANGED <<pool, load, cancelled, toQuit, procVars>>

\* ... or the context is done.
CtxDone(c) ==
    /\ pc[c] = "select" /\ cancelled
    /\ pc' = [pc EXCEPT ![c] = "error"]
    /\ UNCHANGED <<pool, load, available, held, cancelled, toQuit, procVars>>

\* Mutant: the worker is put back on the success path only.
ReturnLeaks(c, r) ==
    /\ pc' = [pc EXCEPT ![c] = r]
    /\ available' = IF r = "ok" THEN Append(available, held[c]) ELSE available
    /\ held' = [held EXCEPT ![c] = 0]

\* The call returns r, and the deferred send puts its worker back.
ReturnAs(c, r) ==
    /\ pc' = [pc EXCEPT ![c] = r]
    /\ available' = Append(available, held[c])
    /\ held' = [held EXCEPT ![c] = 0]

Send(c) ==
    /\ pc[c] = "send"
    /\ IF Writable(held[c])
       THEN /\ stdin' = [stdin EXCEPT ![held[c]] = Append(@, [op |-> "render", who |-> {c}])]
            /\ pc' = [pc EXCEPT ![c] = "await"]
            /\ UNCHANGED <<available, held>>
       ELSE ReturnAs(c, "error") /\ UNCHANGED stdin
    /\ UNCHANGED <<pool, load, cancelled, toQuit, proc, resp, work>>

\* await reads one line of respCh, whichever command it answers.
Receive(c) ==
    /\ pc[c] = "await" /\ resp[held[c]] # <<>>
    /\ ReturnAs(c, Head(resp[held[c]]))
    /\ resp' = [resp EXCEPT ![held[c]] = Tail(@)]
    /\ UNCHANGED <<pool, load, cancelled, toQuit, proc, stdin, work>>

ReceiveEof(c) ==
    /\ pc[c] = "await" /\ EOF(held[c])
    /\ ReturnAs(c, "error")
    /\ UNCHANGED <<pool, load, cancelled, toQuit, procVars>>

\* Mutant: the process is not killed, and its late reply waits for the next call.
TimeoutKeepsWorker(c) ==
    /\ "timeout" \in Faults
    /\ pc[c] = "await"
    /\ ReturnAs(c, "error")
    /\ UNCHANGED <<pool, load, cancelled, toQuit, procVars>>

\* Mutant: the wait has no timer.
TimerNotArmed(c) == FALSE

\* The timer fires: SIGKILL, no Wait, and the worker goes back on the channel.
Timeout(c) ==
    /\ "timeout" \in Faults
    /\ pc[c] = "await"
    /\ proc' = [proc EXCEPT ![held[c]] = IF Live(held[c]) THEN "doomed" ELSE @]
    /\ ReturnAs(c, "error")
    /\ UNCHANGED <<pool, load, cancelled, toQuit, stdin, resp, work>>

\* renderAll cancels on the first error; the client may disconnect at any time.
Cancel ==
    /\ ~cancelled
    /\ "cancel" \in Faults \/ \E c \in Chunks : pc[c] \in {"oom", "error"}
    /\ cancelled' = TRUE
    /\ UNCHANGED <<pool, load, available, pc, held, toQuit, procVars>>

-----------------------------------------------------------------------------
(* Close: quit each worker in turn, 5 s of grace, then Kill and Wait.      *)

SendQuit(w) == stdin' = IF Writable(w)
                        THEN [stdin EXCEPT ![w] = Append(@, [op |-> "quit", who |-> {}])]
                        ELSE stdin

BeginClose ==
    /\ pool = "open"
    /\ \A c \in Chunks : pc[c] \in Returned \/ (pc[c] = "idle" /\ cancelled)
    /\ pool' = "closing"
    /\ toQuit' = 1
    /\ SendQuit(1)
    /\ UNCHANGED <<load, available, pc, held, cancelled, proc, resp, work>>

\* The current worker is gone, by itself or by Kill after the grace period.
QuitNext ==
    /\ pool = "closing"
    /\ proc' = [proc EXCEPT ![toQuit] = "dead"]
    /\ IF toQuit = PoolSize
       THEN /\ pool' = "closed"
            /\ UNCHANGED <<toQuit, stdin>>
       ELSE /\ toQuit' = toQuit + 1
            /\ SendQuit(toQuit + 1)
            /\ UNCHANGED pool
    /\ UNCHANGED <<load, available, pc, held, cancelled, resp, work>>

-----------------------------------------------------------------------------
(* C++: pool_loop.                                                         *)

\* A bad licence is reported before any command is read, and is fatal.
RefuseLicense(w) ==
    /\ "bootFails" \in Faults
    /\ proc[w] = "up" /\ load[w] \in {"send", "await"} /\ resp[w] = <<>>
    /\ resp' = [resp EXCEPT ![w] = Append(@, "error")]
    /\ proc' = [proc EXCEPT ![w] = "exiting"]
    /\ UNCHANGED <<goVars, stdin, work>>

ReadLoad(w) ==
    /\ proc[w] = "up" /\ stdin[w] # <<>> /\ Head(stdin[w]).op = "load"
    /\ \E st \in Status :
         /\ st = "error" => "bootFails" \in Faults
         /\ st = "oom" => "oom" \in Faults
         /\ resp' = [resp EXCEPT ![w] = Append(@, st)]
         /\ proc' = [proc EXCEPT ![w] = IF st = "oom" THEN "exiting" ELSE "up"]
    /\ stdin' = [stdin EXCEPT ![w] = Tail(@)]
    /\ UNCHANGED <<goVars, work>>

ReadRender(w) ==
    /\ proc[w] = "up" /\ stdin[w] # <<>> /\ Head(stdin[w]).op = "render"
    /\ proc' = [proc EXCEPT ![w] = "render"]
    /\ work' = [c \in Chunks |-> IF c \in Head(stdin[w]).who THEN "rendering" ELSE work[c]]
    /\ UNCHANGED <<goVars, stdin, resp>>

\* pool_render, then the reply; bad_alloc is fatal after its reply.
FinishRender(w) ==
    /\ proc[w] = "render"
    /\ \E st \in Status :
         /\ st = "oom" => "oom" \in Faults
         /\ work' = [c \in Chunks |-> IF c \in Head(stdin[w]).who THEN st ELSE work[c]]
         /\ resp' = [resp EXCEPT ![w] = Append(@, st)]
         /\ proc' = [proc EXCEPT ![w] = IF st = "oom" THEN "exiting" ELSE "up"]
    /\ stdin' = [stdin EXCEPT ![w] = Tail(@)]
    /\ UNCHANGED goVars

ReadQuit(w) ==
    /\ proc[w] = "up" /\ stdin[w] # <<>> /\ Head(stdin[w]).op = "quit"
    /\ proc' = [proc EXCEPT ![w] = "dead"]
    /\ UNCHANGED <<goVars, stdin, resp, work>>

ProcDies(w) ==
    /\ proc[w] \in {"exiting", "doomed"} \/ (Live(w) /\ "killed" \in Faults)
    /\ proc' = [proc EXCEPT ![w] = "dead"]
    /\ UNCHANGED <<goVars, stdin, resp, work>>

-----------------------------------------------------------------------------
LoadStep(w)   == Spawn(w) \/ SendLoad(w) \/ LoadReplied(w) \/ LoadGivenUp(w)
CallerStep(c) == \/ Begin(c) \/ Checkout(c) \/ CtxDone(c) \/ Send(c) \/ Receive(c)
                 \/ ReceiveEof(c) \/ Timeout(c)
PoolStep      == StartPool \/ BeginClose \/ QuitNext
ProcStep(w)   == \/ RefuseLicense(w) \/ ReadLoad(w) \/ ReadRender(w)
                 \/ FinishRender(w) \/ ReadQuit(w) \/ ProcDies(w)

Terminated == /\ pool \in {"failed", "closed"}
              /\ \A w \in Workers : ~Live(w)
              /\ UNCHANGED vars

Next == \/ \E w \in Workers : LoadStep(w) \/ ProcStep(w)
        \/ \E c \in Chunks : CallerStep(c)
        \/ PoolStep
        \/ Cancel
        \/ Terminated

Spec == Init /\ [][Next]_vars

-----------------------------------------------------------------------------
(* Properties.                                                             *)

\* Every worker is accounted for.  A process is driven by one call at a time: a
\* checked-out worker is held by one caller only and is not on the channel, and no
\* worker is lost.  A failed start, or Close, leaves no process behind.
Holding(w) == {c \in Chunks : held[c] = w}
Queued(w)  == {i \in DOMAIN available : available[i] = w}
WorkersAccounted ==
    \A w \in Workers :
        /\ pool \in {"open", "closing", "closed"} =>
               Cardinality(Holding(w)) + Cardinality(Queued(w)) = 1
        /\ pool \in {"failed", "closed"} => ~Live(w)

\* The legacy pool keeps the weaker promise: until one call of the pool has
\* failed, a path is returned only for a completely rendered chunk.
callView == [c \in Chunks |-> IF pc[c] \in {"select", "send", "await"} THEN "running" ELSE pc[c]]
Renderer == INSTANCE ChunkRenderer WITH call <- callView
ImplementsWeakChunkRenderer == Renderer!WeakSpec
=============================================================================
