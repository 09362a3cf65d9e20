----------------------------- MODULE ConvertJob -----------------------------
(***************************************************************************)
(* Several conversions of one document, sharing the on-disk cache, while   *)
(* an operator may call DELETE /v1/cache: ConvertJob, dispatchPool and     *)
(* renderAll of internal/orchestrator/orchestrator.go, ConcatStreaming of  *)
(* internal/qpdf/qpdf.go, and internal/cache/cache.go.                     *)
(*                                                                         *)
(* The pool is taken at its word (ChunkRenderer!WeakSpec): a call returns  *)
(* a complete file or an error, and once a call of the pool has failed it  *)
(* may also return the path of a file that was never written.              *)
(* The merged document is Blocks reads of 64 KB long; qpdf's stdout pipe   *)
(* holds PipeCap of them.                                                  *)
(***************************************************************************)
EXTENDS Integers, FiniteSets

CONSTANTS
    Jobs,           \* concurrent conversions of the same document
    Caching,        \* the jobs with options.cache, when the cache is enabled
    Chunks,         \* the plan
    Parallel,       \* settings.Parallel
    Blocks,         \* length of the merged document, in 64 KB reads
    PipeCap,        \* capacity of qpdf's stdout pipe, in 64 KB reads
    Faults          \* what the environment may do, a subset of FaultKinds

FaultKinds == {"fails",        \* probe, pool start or a render fails
               "oom",          \* a render runs out of memory
               "clientGone",   \* the client disconnects
               "qpdfDies",     \* qpdf is killed while it writes
               "clear"}        \* somebody clears the cache

ASSUME ConvertJobAssumption ==
    /\ IsFiniteSet(Jobs) /\ IsFiniteSet(Chunks)
    /\ Caching \subseteq Jobs
    /\ Parallel \in Nat \ {0} /\ Blocks \in Nat \ {0} /\ PipeCap \in Nat \ {0}
    /\ Faults \subseteq FaultKinds

Absent == -1        \* no such file

VARIABLES
    phase,      \* phase[j]: where ConvertJob is, or how it returned
    gone,       \* gone[j]: the client disconnected; the request context is done
    firstErr,   \* renderAll's firstErr: "none", "error" or "oom"
    chunk,      \* chunk[j][c]: the goroutine rendering c
    path,       \* path[j][c]: out[i].path; "none" is the empty string
    file,       \* file[j][c]: the scratch file of c is there, complete
    temp,       \* temp[j][c]: the AtomicWrite temp file of c is in chunks/
    tee,        \* tee[j]: the final temp file is in final/
    made,       \* made[j]: blocks qpdf has written
    got,        \* got[j]: blocks ConvertJob has read from qpdf
    sent,       \* sent[j]: blocks of the document the client was sent
    faulted,    \* history: the probe, the pool, a render or qpdf failed in job j
    chunkEntry, \* chunks/<sha>.pdf is there
    final,      \* blocks in final/<sha>.pdf, or Absent
    finalDir,   \* final/ exists
    clear,      \* what Clear is doing: "idle", "chunks", "final", "prune"
    cleared     \* history: Clear has run

jobVars   == <<phase, gone, firstErr, chunk, path, file, made, got, sent, faulted>>
cacheVars == <<temp, tee, chunkEntry, final, finalDir>>
clearVars == <<clear, cleared>>
vars      == <<jobVars, cacheVars, clearVars>>

Ended(j) == phase[j] \in {"ok", "error", "oom"}

Init == /\ phase = [j \in Jobs |-> "start"]
        /\ gone = [j \in Jobs |-> FALSE]
        /\ firstErr = [j \in Jobs |-> "none"]
        /\ chunk = [j \in Jobs |-> [c \in Chunks |-> "wait"]]
        /\ path = [j \in Jobs |-> [c \in Chunks |-> "none"]]
        /\ file = [j \in Jobs |-> [c \in Chunks |-> FALSE]]
        /\ temp = [j \in Jobs |-> [c \in Chunks |-> FALSE]]
        /\ tee = [j \in Jobs |-> FALSE]
        /\ made = [j \in Jobs |-> 0]
        /\ got = [j \in Jobs |-> 0]
        /\ sent = [j \in Jobs |-> 0]
        /\ faulted = [j \in Jobs |-> FALSE]
        /\ chunkEntry = [c \in Chunks |-> FALSE]
        /\ final = Absent
        /\ finalDir = TRUE
        /\ clear = "idle"
        /\ cleared = FALSE

Goto(j, p) == phase' = [phase EXCEPT ![j] = p]

-----------------------------------------------------------------------------
(* The final cache, the probe and the pool.                                *)

\* GetFinal: a stat.
LookupFinal(j) ==
    /\ phase[j] = "start"
    /\ Goto(j, IF j \in Caching /\ final # Absent THEN "hit" ELSE "probe")
    /\ UNCHANGED <<gone, faulted, firstErr, chunk, path, file, made, got, sent, cacheVars, clearVars>>

\* streamFile opens the entry that was there a moment ago and copies it.
StreamHit(j) ==
    /\ phase[j] = "hit"
    /\ \/ /\ final # Absent
          /\ sent' = [sent EXCEPT ![j] = final]
          /\ Goto(j, "ok")
       \/ /\ final = Absent \/ gone[j]
          /\ Goto(j, "error")
          /\ UNCHANGED sent
    /\ UNCHANGED <<gone, faulted, firstErr, chunk, path, file, made, got, cacheVars, clearVars>>

\* Probe, plan, and the pool's start (which may re-plan).
ProbeAndOpenPool(j) ==
    /\ phase[j] = "probe"
    /\ \/ Goto(j, "render") /\ UNCHANGED faulted
       \/ "fails" \in Faults /\ Goto(j, "error") /\ faulted' = [faulted EXCEPT ![j] = TRUE]
    /\ UNCHANGED <<gone, firstErr, chunk, path, file, made, got, sent, cacheVars, clearVars>>

-----------------------------------------------------------------------------
(* renderAll: one goroutine per chunk, a semaphore of Parallel places.     *)

CtxDone(j)  == gone[j] \/ firstErr[j] # "none"
SlotFree(j) == Cardinality({c \in Chunks : chunk[j][c] \in {"run", "put", "rename"}}) < Parallel

SetChunk(j, c, st) == chunk' = [chunk EXCEPT ![j][c] = st]
SetPath(j, c, p)   == path' = [path EXCEPT ![j][c] = p]

\* The context is done before, or right after, the goroutine gets its place:
\* it returns without an error and leaves its entry of out empty.
SkipChunk(j, c) ==
    /\ phase[j] = "render" /\ chunk[j][c] = "wait" /\ CtxDone(j)
    /\ SetChunk(j, c, "skipped")
    /\ UNCHANGED <<phase, faulted, gone, firstErr, path, file, made, got, sent, cacheVars, clearVars>>

\* GetChunk: a stat; on a hit the entry itself becomes the merge's input.
\* The goroutine may have passed its context check just before it was done.
StartChunk(j, c) ==
    /\ phase[j] = "render" /\ chunk[j][c] = "wait" /\ SlotFree(j)
    /\ IF j \in Caching /\ chunkEntry[c]
       THEN SetChunk(j, c, "done") /\ SetPath(j, c, "cache")
       ELSE SetChunk(j, c, "run") /\ UNCHANGED path
    /\ UNCHANGED <<phase, faulted, gone, firstErr, file, made, got, sent, cacheVars, clearVars>>

Rendered(j, c) == SetChunk(j, c, IF j \in Caching THEN "put" ELSE "done")

RenderOk(j, c) ==
    /\ chunk[j][c] = "run"
    /\ file' = [file EXCEPT ![j][c] = TRUE]
    /\ SetPath(j, c, "scratch")
    /\ Rendered(j, c)
    /\ UNCHANGED <<phase, faulted, gone, firstErr, made, got, sent, cacheVars, clearVars>>

\* ChunkRenderer!Misreport: a path is returned, the file is not there.
RenderMisreported(j, c) ==
    /\ chunk[j][c] = "run" /\ firstErr[j] # "none"
    /\ SetPath(j, c, "scratch")
    /\ Rendered(j, c)
    /\ UNCHANGED <<phase, faulted, gone, firstErr, file, made, got, sent, cacheVars, clearVars>>

\* The first error wins and cancels the others.
RenderFails(j, c) ==
    /\ chunk[j][c] = "run"
    /\ \E e \in {"error", "oom"} :
         /\ e = "oom" => "oom" \in Faults
         /\ \/ e = "oom" /\ UNCHANGED faulted
            \/ e = "error" /\ CtxDone(j) /\ UNCHANGED faulted
            \/ e = "error" /\ "fails" \in Faults /\ faulted' = [faulted EXCEPT ![j] = TRUE]
         /\ firstErr' = [firstErr EXCEPT ![j] = IF @ = "none" THEN e ELSE @]
    /\ SetChunk(j, c, "failed")
    /\ UNCHANGED <<phase, gone, path, file, made, got, sent, cacheVars, clearVars>>

\* PutChunk, AtomicWrite: MkdirAll, open the source, create the temp file.  Its
\* error is ignored.  The directory may be pruned between the first and last.
PutBegins(j, c) ==
    /\ chunk[j][c] = "put"
    /\ \/ /\ file[j][c]
          /\ temp' = [temp EXCEPT ![j][c] = TRUE]
          /\ SetChunk(j, c, "rename")
       \/ /\ ~file[j][c] \/ clear = "prune"
          /\ SetChunk(j, c, "done")
          /\ UNCHANGED temp
    /\ UNCHANGED <<phase, faulted, gone, firstErr, path, file, made, got, sent,
                   tee, chunkEntry, final, finalDir, clearVars>>

\* The copy is complete: fsync and rename, which fails if the temp file is gone.
PutRenames(j, c) ==
    /\ chunk[j][c] = "rename"
    /\ chunkEntry' = [chunkEntry EXCEPT ![c] = @ \/ temp[j][c]]
    /\ temp' = [temp EXCEPT ![j][c] = FALSE]
    /\ SetChunk(j, c, "done")
    /\ UNCHANGED <<phase, faulted, gone, firstErr, path, file, made, got, sent,
                   tee, final, finalDir, clearVars>>

\* Mutant: renderAll's error is ignored.
JoinIgnoresError(j) ==
    /\ phase[j] = "render"
    /\ \A c \in Chunks : chunk[j][c] \in {"done", "skipped", "failed"}
    /\ Goto(j, "merge")
    /\ UNCHANGED <<gone, faulted, firstErr, chunk, path, file, made, got, sent, cacheVars, clearVars>>

\* Mutant: wg.Done is not reached on the error path.
JoinMissesFailed(j) ==
    /\ phase[j] = "render"
    /\ \A c \in Chunks : chunk[j][c] \in {"done", "skipped"}
    /\ Goto(j, IF firstErr[j] # "none" THEN firstErr[j] ELSE "merge")
    /\ UNCHANGED <<gone, faulted, firstErr, chunk, path, file, made, got, sent, cacheVars, clearVars>>

\* wg.Wait(), then the deferred pool.Close; the first error is the job's.
JoinChunks(j) ==
    /\ phase[j] = "render"
    /\ \A c \in Chunks : chunk[j][c] \in {"done", "skipped", "failed"}
    /\ Goto(j, IF firstErr[j] # "none" THEN firstErr[j] ELSE "merge")
    /\ UNCHANGED <<gone, faulted, firstErr, chunk, path, file, made, got, sent, cacheVars, clearVars>>

-----------------------------------------------------------------------------
(* ConcatStreaming.                                                        *)

\* FinalTempPath: MkdirAll, and a name for the temp file.
NameTemp(j) ==
    /\ phase[j] = "merge"
    /\ Goto(j, "concat")
    /\ finalDir' = (finalDir \/ j \in Caching)
    /\ UNCHANGED <<gone, faulted, firstErr, chunk, path, file, made, got, sent,
                   temp, tee, chunkEntry, final, clearVars>>

Readable(j, c) == CASE path[j][c] = "scratch" -> file[j][c]
                    [] path[j][c] = "cache"   -> chunkEntry[c]
                    [] OTHER                  -> FALSE

\* Mutant: the copy goes straight to final/<sha>.pdf.
StartConcatInPlace(j) ==
    /\ phase[j] = "concat"
    /\ IF (\A c \in Chunks : Readable(j, c)) /\ (j \in Caching => finalDir)
       THEN /\ Goto(j, "copy")
            /\ final' = IF j \in Caching THEN 0 ELSE final
       ELSE /\ Goto(j, "error")
            /\ UNCHANGED final
    /\ UNCHANGED <<gone, faulted, firstErr, chunk, path, file, made, got, sent,
                   temp, tee, chunkEntry, finalDir, clearVars>>

\* qpdf is started and the temp file created.  An input that is missing, an
\* empty name included, makes qpdf fail before it writes anything; without
\* final/ the temp file cannot be created, and qpdf is killed.
StartConcat(j) ==
    /\ phase[j] = "concat"
    /\ IF (\A c \in Chunks : Readable(j, c)) /\ (j \in Caching => finalDir)
       THEN /\ Goto(j, "copy")
            /\ tee' = [tee EXCEPT ![j] = j \in Caching]
       ELSE /\ Goto(j, "error")
            /\ UNCHANGED tee
    /\ UNCHANGED <<gone, faulted, firstErr, chunk, path, file, made, got, sent,
                   temp, chunkEntry, final, finalDir, clearVars>>

\* qpdf writes, and blocks while the pipe is full.
QpdfWrites(j) ==
    /\ phase[j] \in {"copy", "drain"}
    /\ made[j] < Blocks /\ made[j] - got[j] < PipeCap
    /\ made' = [made EXCEPT ![j] = @ + 1]
    /\ UNCHANGED <<phase, faulted, gone, firstErr, chunk, path, file, got, sent, cacheVars, clearVars>>

\* One round of io.CopyBuffer: to the response, then to the temp file.
CopyBlock(j) ==
    /\ phase[j] = "copy" /\ got[j] < made[j]
    /\ got' = [got EXCEPT ![j] = @ + 1]
    /\ sent' = [sent EXCEPT ![j] = @ + 1]
    /\ UNCHANGED <<phase, faulted, gone, firstErr, chunk, path, file, made, cacheVars, clearVars>>

\* The write to the response fails: copying stops, qpdf does not.
CopyFails(j) ==
    /\ phase[j] = "copy" /\ got[j] < made[j] /\ gone[j]
    /\ got' = [got EXCEPT ![j] = @ + 1]
    /\ Goto(j, "drain")
    /\ UNCHANGED <<gone, faulted, firstErr, chunk, path, file, made, sent, cacheVars, clearVars>>

\* <-stderrDone; cmd.Wait(): qpdf has exited.  A failed copy is a merge error;
\* the temp file is removed.
WaitQpdf(j) ==
    /\ phase[j] \in {"copy", "drain"} /\ made[j] = Blocks
    /\ phase[j] = "copy" => got[j] = Blocks
    /\ IF phase[j] = "copy"
       THEN Goto(j, "publish") /\ UNCHANGED tee
       ELSE Goto(j, "error") /\ tee' = [tee EXCEPT ![j] = FALSE]
    /\ UNCHANGED <<gone, faulted, firstErr, chunk, path, file, made, got, sent,
                   temp, chunkEntry, final, finalDir, clearVars>>

\* Mutant: qpdf's exit status is ignored: end of file is the end of the document.
QpdfDeathIgnored(j) ==
    /\ "qpdfDies" \in Faults
    /\ phase[j] \in {"copy", "drain"} /\ made[j] < Blocks
    /\ sent' = [sent EXCEPT ![j] = IF phase[j] = "copy" THEN made[j] ELSE @]
    /\ faulted' = [faulted EXCEPT ![j] = TRUE]
    /\ Goto(j, "publish")
    /\ UNCHANGED <<gone, firstErr, chunk, path, file, made, got, cacheVars, clearVars>>

\* qpdf dies with part of the document written and sent.
QpdfDies(j) ==
    /\ "qpdfDies" \in Faults
    /\ phase[j] \in {"copy", "drain"} /\ made[j] < Blocks
    /\ sent' = [sent EXCEPT ![j] = IF phase[j] = "copy" THEN made[j] ELSE @]
    /\ faulted' = [faulted EXCEPT ![j] = TRUE]
    /\ Goto(j, "error")
    /\ tee' = [tee EXCEPT ![j] = FALSE]
    /\ UNCHANGED <<gone, firstErr, chunk, path, file, made, got,
                   temp, chunkEntry, final, finalDir, clearVars>>

\* FinalizeFinal: rename, whose failure (the temp file is gone) is ignored.
Publish(j) ==
    /\ phase[j] = "publish"
    /\ final' = IF tee[j] THEN got[j] ELSE final
    /\ tee' = [tee EXCEPT ![j] = FALSE]
    /\ Goto(j, "ok")
    /\ UNCHANGED <<gone, faulted, firstErr, chunk, path, file, made, got, sent,
                   temp, chunkEntry, finalDir, clearVars>>

-----------------------------------------------------------------------------
(* The client, and cache.Clear.                                            *)

ClientGone(j) ==
    /\ "clientGone" \in Faults
    /\ ~Ended(j) /\ ~gone[j]
    /\ gone' = [gone EXCEPT ![j] = TRUE]
    /\ UNCHANGED <<phase, faulted, firstErr, chunk, path, file, made, got, sent, cacheVars, clearVars>>

ClearBegins ==
    /\ "clear" \in Faults
    /\ clear = "idle"
    /\ clear' = "chunks"
    /\ cleared' = TRUE
    /\ UNCHANGED <<jobVars, cacheVars>>

\* filepath.Walk removes the files it finds one by one.  A file that appears
\* after its directory was listed, or cannot be removed, stays.
ClearRemoves ==
    /\ \/ /\ clear = "chunks"
          /\ \/ \E c \in Chunks : /\ chunkEntry[c]
                                  /\ chunkEntry' = [chunkEntry EXCEPT ![c] = FALSE]
                                  /\ UNCHANGED temp
             \/ \E j \in Jobs, c \in Chunks : /\ temp[j][c]
                                              /\ temp' = [temp EXCEPT ![j][c] = FALSE]
                                              /\ UNCHANGED chunkEntry
          /\ UNCHANGED <<tee, final>>
       \/ /\ clear = "final"
          /\ \/ /\ final # Absent
                /\ final' = Absent
                /\ UNCHANGED tee
             \/ \E j \in Jobs : /\ tee[j]
                                /\ tee' = [tee EXCEPT ![j] = FALSE]
                                /\ UNCHANGED final
          /\ UNCHANGED <<chunkEntry, temp>>
    /\ UNCHANGED <<jobVars, finalDir, clearVars>>

\* The next directory; at last the empty directories are removed.
ClearMovesOn ==
    /\ \/ clear = "chunks" /\ clear' = "final" /\ UNCHANGED finalDir
       \/ clear = "final" /\ clear' = "prune" /\ UNCHANGED finalDir
       \/ /\ clear = "prune"
          /\ clear' = "idle"
          /\ finalDir' = (finalDir /\ (final # Absent \/ \E j \in Jobs : tee[j]))
    /\ UNCHANGED <<jobVars, temp, tee, chunkEntry, final, cleared>>

-----------------------------------------------------------------------------
ChunkStep(j, c) == \/ SkipChunk(j, c) \/ StartChunk(j, c) \/ RenderOk(j, c)
                   \/ RenderMisreported(j, c) \/ RenderFails(j, c)
                   \/ PutBegins(j, c) \/ PutRenames(j, c)
JobStep(j)  == \/ LookupFinal(j) \/ StreamHit(j) \/ ProbeAndOpenPool(j) \/ JoinChunks(j)
               \/ NameTemp(j) \/ StartConcat(j) \/ CopyBlock(j) \/ CopyFails(j)
               \/ WaitQpdf(j) \/ Publish(j)
ClearStep   == ClearBegins \/ ClearRemoves \/ ClearMovesOn

Terminated == (\A j \in Jobs : Ended(j)) /\ clear = "idle" /\ UNCHANGED vars

Next == \/ \E j \in Jobs : JobStep(j) \/ QpdfWrites(j) \/ QpdfDies(j) \/ ClientGone(j)
        \/ \E j \in Jobs, c \in Chunks : ChunkStep(j, c)
        \/ ClearStep
        \/ Terminated

Spec == Init /\ [][Next]_vars

\* Goroutines and qpdf run.  A render ends, because the pool's calls do
\* (ForkedCallsReturn and LegacyCallsReturn of Pools).
FairSpec == /\ Spec
            /\ \A j \in Jobs : WF_vars(JobStep(j)) /\ WF_vars(QpdfWrites(j))
            /\ \A j \in Jobs, c \in Chunks : WF_vars(ChunkStep(j, c))

-----------------------------------------------------------------------------
(* Properties.                                                             *)

\* A conversion that reports success sent the client the whole document, whether
\* it was rendered, assembled from cached chunks or served from the final cache,
\* and whatever other conversions, Clear or a disconnect did in the meantime.
SuccessIsComplete == \A j \in Jobs : phase[j] = "ok" => sent[j] = Blocks

\* The final cache never serves a truncated document: what a failed, abandoned
\* or overtaken conversion wrote is never visible under final/<sha>.pdf, nor does
\* a conversion that is over, however it ended, leave one of its temp files behind.
FinalCacheSound ==
    /\ final \in {Absent, Blocks}
    /\ \A j \in Jobs : Ended(j) => ~tee[j] /\ \A c \in Chunks : ~temp[j][c]

\* A conversion fails only for a cause of its own: sharing the cache with another
\* conversion of the same document, which may fail or be abandoned half-way, is
\* harmless as long as nobody clears it.
FailsForCause ==
    \A j \in Jobs : phase[j] = "error" =>
        gone[j] \/ cleared \/ faulted[j]

\* No deadlock: a conversion that has not ended has a goroutine, or a qpdf, that
\* can go on by itself, whoever else left, failed or cleared the cache.  So it is
\* where what a client leaves unread fits into qpdf's pipe.
NeverStuck ==
    \A j \in Jobs : ~Ended(j) =>
        ENABLED (JobStep(j) \/ QpdfWrites(j) \/ \E c \in Chunks : ChunkStep(j, c))

\* Every conversion ends, and so releases its scratch directory and job slot.
JobEnds == \A j \in Jobs : <>Ended(j)
=============================================================================
