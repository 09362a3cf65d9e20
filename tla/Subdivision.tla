---------------------------- MODULE Subdivision ----------------------------
(***************************************************************************)
(* The one-shot path of a conversion (internal/orchestrator: ConvertJob    *)
(* with dispatchOneShot, renderWithRetry and renderAll): one subprocess    *)
(* per chunk, a chunk that runs out of memory is halved and its halves are *)
(* rendered by a nested renderAll, then concatenated by qpdf.  All files   *)
(* live in one scratch directory and are named after the chunk's Index.    *)
(*                                                                         *)
(* A chunk is its page range <<lo, hi>>; Index, always a multiple of 1/2,  *)
(* is kept doubled.  A PDF is the sequence of the pages it holds; <<>> is  *)
(* a file that is absent or just truncated, which qpdf refuses alike.      *)
(***************************************************************************)
EXTENDS Integers, Sequences, FiniteSets, SequencesExt

CONSTANTS
    Plan,           \* the chunk plan: a sequence of page ranges
    Parallel,       \* OFFICE_CONVERT_PARALLEL
    CacheActive,    \* opts.Cache and a cache directory is configured
    OomDepth,       \* bound: a render at this depth or deeper never runs out of memory
    Faults          \* subset of {"fails", "killed", "clientGone"}

\* What PlanChunks returns for a document that has pages: consecutive, non-empty
\* ranges from page 1 on.
IsPlan(p) ==
    /\ p \in Seq(Nat \X Nat) /\ p # <<>>
    /\ \A i \in 1..Len(p) : /\ p[i][1] = IF i = 1 THEN 1 ELSE p[i - 1][2] + 1
                            /\ p[i][1] <= p[i][2]

ASSUME SubdivisionAssumption ==
    /\ IsPlan(Plan)
    /\ Parallel \in Nat \ {0}
    /\ CacheActive \in BOOLEAN
    /\ OomDepth \in Nat
    /\ Faults \subseteq {"fails", "killed", "clientGone"}

Pages  == 1..Plan[Len(Plan)][2]
Ranges == {r \in Pages \X Pages : r[1] <= r[2]}
Root   == <<0, 0>>                      \* the group of the outermost renderAll
Groups == Ranges \cup {Root}
TopLevel == {Plan[i] : i \in DOMAIN Plan}
Document == [p \in Pages |-> p]
PagesOf(n) == [i \in 1..(n[2] - n[1] + 1) |-> n[1] + i - 1]

\* planner.Subdivide: ceiling half to the left; nothing at the one-page floor.
Subdivide(n) ==
    LET span == n[2] - n[1] + 1
        mid  == n[1] + ((span + 1) \div 2) - 1
    IN  IF span <= 1 THEN <<>> ELSE << <<n[1], mid>>, <<mid + 1, n[2]>> >>

\* chunk-<index>.pdf and chunk-<index>-merged.pdf, and the cache entry of a range.
MaxIndex2 == 2 * Len(Plan) + Cardinality(Pages)
\* Mutant: the fraction of the index is cut off in the name.
ChunkFileWhole(i2) == [kind |-> "chunk", i2 |-> 2 * (i2 \div 2)]
ChunkFile(i2)  == [kind |-> "chunk", i2 |-> i2]
MergedFile(i2) == [kind |-> "merged", i2 |-> i2]
Files  == [kind : {"chunk", "merged"}, i2 : 0..MaxIndex2]
InCache == [kind |-> "cache", i2 |-> 0]
NoPath  == [kind |-> "none", i2 |-> 0]

VARIABLES
    st,         \* st[n]: the goroutine rendering n
    info,       \* info[n]: Index (doubled), depth and renderAll group of n
    path,       \* path[n]: what renderWithRetry(n) returned
    file,       \* the scratch directory
    cache,      \* cache[n]: the chunk cache, keyed by page range
    firstErr,   \* firstErr[g] of the renderAll whose group is g
    cancelled,  \* groups whose own context has been cancelled
    clientGone, \* the request's context, parent of every group's, is cancelled
    job, out    \* the conversion's outcome and the PDF it streamed

oneShotVars == <<st, info, path, file, cache, firstErr, cancelled, clientGone, job, out>>

Finished == {"ok", "err", "skipped"}
Members(g) == {n \in Ranges : st[n] # "none" /\ info[n].group = g}

\* A context is done when its own group or an enclosing one was cancelled; the
\* groups enclosing n are Root and the ranges n was split off from.
CtxDone(n) ==
    \/ clientGone
    \/ \E g \in cancelled : g = Root \/ (g # n /\ g[1] <= n[1] /\ n[2] <= g[2])

OneShotInit ==
    /\ st = [n \in Ranges |-> IF n \in TopLevel THEN "wait" ELSE "none"]
    /\ info = [n \in Ranges |->
                 [i2 |-> IF n \in TopLevel
                         THEN 2 * ((CHOOSE i \in DOMAIN Plan : Plan[i] = n) - 1) ELSE 0,
                  depth |-> 0, group |-> Root]]
    /\ path = [n \in Ranges |-> NoPath]
    /\ file = [f \in Files |-> <<>>]
    /\ cache = [n \in Ranges |-> <<>>]
    /\ firstErr = [g \in Groups |-> "none"]
    /\ cancelled = {}
    /\ clientGone = FALSE
    /\ job = "running"
    /\ out = <<>>

-----------------------------------------------------------------------------
(* renderAll, one goroutine per chunk.                                     *)

\* Mutant: the outermost call starts every chunk at once.
SlotFreeAlways(n) == TRUE

\* The outermost call holds Parallel slots; a nested one len(subs), so that both
\* halves start at once inside the slot of the chunk they came from.
SlotFree(n) ==
    info[n].group = Root =>
        Cardinality({m \in Members(Root) : st[m] \notin Finished \cup {"wait"}}) < Parallel

Skip(n) ==
    /\ st[n] = "wait" /\ CtxDone(n)
    /\ st' = [st EXCEPT ![n] = "skipped"]
    /\ UNCHANGED <<info, path, file, cache, firstErr, cancelled, clientGone, job, out>>

\* A slot was free and ctx.Err() is nil: look the chunk up, else start a worker.
Start(n) ==
    /\ st[n] = "wait" /\ SlotFree(n) /\ ~CtxDone(n)
    /\ IF cache[n] # <<>>
       THEN /\ st' = [st EXCEPT ![n] = "ok"]
            /\ path' = [path EXCEPT ![n] = InCache]
       ELSE /\ st' = [st EXCEPT ![n] = "render"]
            /\ UNCHANGED path
    /\ UNCHANGED <<info, file, cache, firstErr, cancelled, clientGone, job, out>>

\* Mutant: the context is cancelled but the error is lost.
FailCancelsOnly(n, e) ==
    /\ st' = [st EXCEPT ![n] = "err"]
    /\ cancelled' = cancelled \cup {info[n].group}
    /\ UNCHANGED firstErr

\* The first error of a group is kept and cancels the group's context.
Fail(n, e) ==
    LET g == info[n].group IN
    /\ st' = [st EXCEPT ![n] = "err"]
    /\ IF firstErr[g] = "none"
       THEN /\ firstErr' = [firstErr EXCEPT ![g] = e]
            /\ cancelled' = cancelled \cup {g}
       ELSE UNCHANGED <<firstErr, cancelled>>

-----------------------------------------------------------------------------
(* renderWithRetry.                                                        *)

RenderOk(n) ==
    /\ st[n] = "render"
    /\ file' = [file EXCEPT ![ChunkFile(info[n].i2)] = PagesOf(n)]
    /\ path' = [path EXCEPT ![n] = ChunkFile(info[n].i2)]
    /\ st' = [st EXCEPT ![n] = IF CacheActive THEN "put" ELSE "ok"]
    /\ UNCHANGED <<info, cache, firstErr, cancelled, clientGone, job, out>>

\* PutChunk copies whatever the file holds now.
PutChunk(n) ==
    /\ st[n] = "put"
    /\ cache' = [cache EXCEPT ![n] = file[path[n]]]
    /\ st' = [st EXCEPT ![n] = "ok"]
    /\ UNCHANGED <<info, path, file, firstErr, cancelled, clientGone, job, out>>

\* Mutant: a single page that does not fit is tried again.
RenderOomNoFloor(n) ==
    /\ st[n] = "render" /\ info[n].depth < OomDepth
    /\ st' = [st EXCEPT ![n] = "wait"]
    /\ UNCHANGED <<info, path, file, cache, firstErr, cancelled, clientGone, job, out>>

\* Exit code 137: halve, or give up at one page.
RenderOom(n) ==
    /\ st[n] = "render" /\ info[n].depth < OomDepth
    /\ LET subs == Subdivide(n) IN
         IF subs = <<>>
         THEN /\ Fail(n, "floor")
              /\ UNCHANGED info
         ELSE /\ st' = [st EXCEPT ![n] = "subs", ![subs[1]] = "wait", ![subs[2]] = "wait"]
              /\ info' = [info EXCEPT
                   ![subs[1]] = [i2 |-> info[n].i2, depth |-> info[n].depth + 1, group |-> n],
                   ![subs[2]] = [i2 |-> info[n].i2 + 1, depth |-> info[n].depth + 1, group |-> n]]
              /\ UNCHANGED <<firstErr, cancelled>>
    /\ UNCHANGED <<path, file, cache, clientGone, job, out>>

\* Any other exit, or the timeout.  A process killed by a signal has
\* ExitCode() = -1, which mapExitCode reports as a render failure.
RenderFails(n) ==
    /\ st[n] = "render"
    /\ \E e \in Faults \cap {"fails", "killed"} : Fail(n, e)
    /\ UNCHANGED <<info, path, file, cache, clientGone, job, out>>

\* The nested renderAll returned.  On success os.Create truncates the target.
SubsDone(n) ==
    /\ st[n] = "subs"
    /\ \A m \in Members(n) : st[m] \in Finished
    /\ IF firstErr[n] # "none"
       THEN /\ Fail(n, firstErr[n])
            /\ UNCHANGED file
       ELSE /\ st' = [st EXCEPT ![n] = "concat"]
            /\ file' = [file EXCEPT ![MergedFile(info[n].i2)] = <<>>]
            /\ UNCHANGED <<firstErr, cancelled>>
    /\ UNCHANGED <<info, path, cache, clientGone, job, out>>

\* What qpdf reads for chunk n; "" for a chunk whose goroutine was skipped.
Content(n) == CASE path[n] = InCache -> cache[n]
                [] path[n] = NoPath  -> <<>>
                [] OTHER             -> file[path[n]]

\* qpdf over a list of chunks: it fails if an input is no PDF.
Readable(ns) == \A i \in DOMAIN ns : Content(ns[i]) # <<>>
Concat(ns)   == FlattenSeq([i \in DOMAIN ns |-> Content(ns[i])])

ConcatSubs(n) ==
    /\ st[n] = "concat"
    /\ LET subs == Subdivide(n) IN
         IF Readable(subs)
         THEN /\ file' = [file EXCEPT ![MergedFile(info[n].i2)] = Concat(subs)]
              /\ path' = [path EXCEPT ![n] = MergedFile(info[n].i2)]
              /\ st' = [st EXCEPT ![n] = "ok"]
              /\ UNCHANGED <<firstErr, cancelled>>
         ELSE /\ Fail(n, "merge")
              /\ UNCHANGED <<file, path>>
    /\ UNCHANGED <<info, cache, clientGone, job, out>>

-----------------------------------------------------------------------------
(* ConvertJob after dispatchOneShot: sort by Index (the plan's order) and  *)
(* merge into the response.                                                *)

\* The outermost renderAll returned.
BeginMerge ==
    /\ job = "running"
    /\ \A n \in TopLevel : st[n] \in Finished
    /\ job' = IF firstErr[Root] # "none" THEN firstErr[Root] ELSE "merging"
    /\ UNCHANGED <<st, info, path, file, cache, firstErr, cancelled, clientGone, out>>

\* Mutant: the chunks are merged in the wrong order.
MergeUnsorted ==
    /\ job = "merging"
    /\ \/ Readable(Plan) /\ job' = "ok" /\ out' = Concat(Reverse(Plan))
       \/ (~Readable(Plan) \/ clientGone) /\ job' = "merge" /\ UNCHANGED out
    /\ UNCHANGED <<st, info, path, file, cache, firstErr, cancelled, clientGone>>

\* ConcatStreaming returned: qpdf's exit code and the copy to the client decide.
\* With the client gone it may never return (ConvertJob models how).
MergeEnds ==
    /\ job = "merging"
    /\ \/ Readable(Plan) /\ job' = "ok" /\ out' = Concat(Plan)
       \/ (~Readable(Plan) \/ clientGone) /\ job' = "merge" /\ UNCHANGED out
    /\ UNCHANGED <<st, info, path, file, cache, firstErr, cancelled, clientGone>>

\* The client disconnects.
ClientGone ==
    /\ "clientGone" \in Faults /\ job \in {"running", "merging"} /\ ~clientGone
    /\ clientGone' = TRUE
    /\ UNCHANGED <<st, info, path, file, cache, firstErr, cancelled, job, out>>

JobOver == job \notin {"running", "merging"} /\ UNCHANGED oneShotVars

ChunkStep(n) == \/ Skip(n) \/ Start(n) \/ RenderOk(n) \/ PutChunk(n) \/ RenderOom(n)
                \/ RenderFails(n) \/ SubsDone(n) \/ ConcatSubs(n)

OneShotNext == \/ \E n \in Ranges : ChunkStep(n)
               \/ BeginMerge \/ MergeEnds
               \/ ClientGone \/ JobOver

OneShotSpec == OneShotInit /\ [][OneShotNext]_oneShotVars
\* Goroutines are scheduled, a worker ends or is killed by its timer, and qpdf ends
\* as long as the client takes what it writes.
OneShotFairSpec ==
    /\ OneShotSpec
    /\ \A n \in Ranges : WF_oneShotVars(ChunkStep(n))
    /\ WF_oneShotVars(BeginMerge)
    /\ WF_oneShotVars(~clientGone /\ MergeEnds)

-----------------------------------------------------------------------------
(* Properties.                                                             *)

\* A conversion that succeeds delivered the document: every page, once, in order,
\* whichever chunks were halved and however their workers interleaved.
OutputIsDocument == job = "ok" => out = Document

\* The chunk cache never serves the pages of another chunk.
CacheSound == \A n \in Ranges : cache[n] \in {<<>>, PagesOf(n)}

\* The merges always have all their inputs: a conversion fails in qpdf only when
\* the client left, which makes renderAll skip chunks without an error.
MergeFailsOnlyIfAbandoned == job = "merge" => clientGone

\* What the design promises of a halved chunk's parts: they queue for the job's own
\* slots, so a job never runs more than Parallel workers.
Rendering == {n \in Ranges : st[n] = "render"}
ProcessBudget == Cardinality(Rendering) <= Parallel

\* What renderWithRetry keeps to instead.  A halved chunk's parts run inside its
\* slot, on a semaphore of their own: each level of halving at most doubles the
\* workers of a job.
HalvingBudget == Cardinality(Rendering) <= Parallel * 2^OomDepth

\* Rendering ends, whatever fails or is abandoned, and the conversion with it; only
\* a merge that lost its reader may be left hanging.
JobEnds == <>(job \notin {"running", "merging"} \/ (job = "merging" /\ clientGone))
=============================================================================
