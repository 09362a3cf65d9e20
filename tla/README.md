# Verification of the office-convert orchestrator

TLA+ models of the office-to-PDF conversion service in this repository, the TLC
configurations that check them on small instances, and TLAPS proofs of the
invariants that matter most. Every definition is taken from the source; the
correspondence, definition by definition, is the `map` of `PROJECT.json`.

## 1. The system

A Go process (`cmd/orchestrator`, `internal/`) accepts documents over HTTP,
splits them into page-range chunks, has C++ worker processes (`worker_cpp/`,
around the Aspose libraries) render the chunks, merges the results with `qpdf`
and streams the PDF back. A Next.js UI (`ui/`) sits in front of it.

| Part | State it keeps | Operations | Interacts with |
|---|---|---|---|
| HTTP handlers (`server/convert.go`, `convert_html.go`) | job-slot semaphore `sem`, `activeJobs`, scratch directories by request id | convert, convertHTML, finishStream | rate limiter, engines, S3, recent store |
| Conversion job (`orchestrator.go`) | per-job contexts, chunk paths, first error | ConvertJob, dispatchPool, dispatchOneShot, renderWithRetry, renderAll | planner, pools, cache, qpdf |
| Fork-after-load pool (`worker/pool.go`, `pool.cpp`) | `seq`, `pending`, reply channels; `busy` flags, sockets | LoadDocument, RenderChunk, readStdout, Close; pool_loop_forked, child_render_loop | pipes and socketpairs between processes |
| Legacy pool (same files) | channel of available workers, `respCh` | NewWorkerPool, RenderChunk, Close; pool_loop | one pipe pair per process |
| One-shot workers (`worker/worker.go`) | a child process, its pipes and timer | runWorkerBin, mapExitCode | scratch files named by chunk index |
| Planner (`planner.go`) | none | PlanChunks, Subdivide, ChunkSHA256 | orchestrator |
| Cache (`cache.go`) | `chunks/`, `final/` on disk | Get*, PutChunk, FinalTempPath, FinalizeFinal, Clear | all jobs, `DELETE /v1/cache` |
| Merge (`qpdf.go`) | a child process and its pipes | ConcatStreaming, ConcatToFile | client connection, cache temp file |
| Rate limiter (`ratelimit/`) | token buckets, LRU list | Check | handlers |
| Observability stores (`obs/`) | progress table, event rings, history | Update, Forget, Active, Record, Paginate, evict | jobs, stderr tailers, dashboard, UI pager |
| Licence manager (`license/`) | expiry cached under the file's mtime | ExpiryDate, IsExpired, DaysRemaining | handlers, `GET /health`, the operator's file |
| Probe (`probe/`) | none shared | DetectFormat, ProbeLite, Probe, retry under another format | one-shot workers, planner |
| CSV, e-mail, LibreOffice, Gotenberg (`csvinput/`, `email/`, `libreoffice/`, `gotenberg/`) | scratch files, a child process or an HTTP exchange | CSVBytesToXLSXBytes, ConvertToPDF, ConvertHTML | handlers |
| S3 (`s3/`) | none shared | fetch, upload | handlers |
| UI panels | request and polling state | fetch, poll, page, render | HTTP API |

What is hard here: many calls multiplexed over one pipe pair with timeouts and
late replies; processes that hang, run out of memory, or die with children of
their own; contexts cancelled half-way through a fan-out; two conversions of one
document and an operator's `Clear` on the same directory; a subprocess whose
output nobody reads any more; some twenty exits of a handler that must all give
back the same three resources; a file replaced while its date is being cached; a
`Wait` that closes the pipes others still read; two writers of one progress entry,
one of them late; a cursor into a list that is cut off at the other end. `PROJECT.json` lists these hazards at their lines.

What makes each part correct:

* a pool returns a path only for a chunk that is completely rendered, returns
  from every call, and leaves no process behind;
* a conversion that succeeds delivered every page once and in order, and one that
  fails has a cause of its own;
* the cache never serves less than, or something else than, what its key stands for;
* the server never serves more than `MaxJobs` requests, loses no slot, leaves no
  file, mixes up no two requests with different ids, and records what really happened;
* a plan cuts the document into consecutive ranges, whatever the settings, and
  into ranges a worker can take wherever the settings leave the choice;
* the rate limiter admits a client no more often than burst and refill allow, and
  the waiting time it names suffices;
* the licence verdict is about the file as it was during the call, and a request that
  passed the check is not refused by a worker for the licence unless something changed;
* a document is refused for a cause, a request without an error has its whole result,
  and every request is answered, with two exceptions, whatever the programs it starts do;
* a running job that was heard of is listed with its own numbers and its bar never goes back, rings hold
  the newest events, and a walk through the history misses and repeats nothing.

## 2. Modules

| Module | Models | Main state |
|---|---|---|
| `ChunkRenderer` | abstract: what `worker.Pool.RenderChunk` promises (`Spec`), and the weaker promise of the legacy pool (`WeakSpec`) | `call`, `work` |
| `RenderPool` | what both pools are given: chunks, size, faults | |
| `ForkedPool` | `ForkedPoolLeader` and `ForkedWorkerPool`; `pool_loop_forked`, `child_render_loop` | Go callers, `pending`, channels, reader, pipes, leader, children, files |
| `WorkerPool` | `PooledWorker` and `WorkerPool`; `pool_loop` | `available`, checked-out workers, replies, processes, files |
| `Pools` | `dispatchPool`'s choice: a conversion opens the forked pool or the legacy one | `kind`, both pools |
| `Subdivision` | one-shot dispatch: `renderWithRetry`, nested `renderAll`, `Subdivide`, file names, chunk cache, the merge | goroutine per page range, scratch directory as page sequences |
| `ConvertJob` | `ConvertJob` with pool dispatch, `ConcatStreaming`, `cache.go` | per-job phase and chunks, qpdf's pipe, the cache directory, `Clear` |
| `Server` | `convert`, `convertHTML`, `finishStream`, `main`'s exit | handler position, `sem`, `activeJobs`, `released`, scratch, records, S3 |
| `Planner` | `AdaptiveMaxPages`, `PlanChunks`, `groupSeams`, `isBalanced`, `pageRangeSplit`; the second plan of `dispatchPool` | probe result, `effMaxPages`, the plan, loop variables |
| `RateLimiter` | `Limiter.Check`, `ClientIDFor` | clock, `buckets`, `lru` |
| `License` | `Manager` of `license.go`, its use by handlers and `/health`, the operator | the file, `mu`, the cached expiry, one call per goroutine |
| `Engines` | licence gate and routing of a request, format detection, both probes and the retry, `runWorkerBin`, CSV, e-mail, LibreOffice, Gotenberg | the document, the handler's position and locals, one process with its pipes, scratch files |
| `Observability` | `JobProgressStore`, `RingStore`, `RecentStore` and its pages, the stderr tailer, the UI's pager | clock, jobs, progress table, ring, unread stderr, history, the walk |
| `ForkedPoolProofs` (with `Pools`), `WorkerPoolProofs`, `ConvertJobProofs`, `ServerProofs`, `PlannerProofs` (with `Subdivision`), `RateLimiterProofs`, `EnginesProofs` (with `License`), `ObservabilityProofs` | theorems | |
| `MC*` | values of structured constants for TLC | |

How they fit together. `ForkedPool` and `WorkerPool` each instantiate
`ChunkRenderer` with a refinement mapping (`callView` collapses the positions
inside a call to `"running"`; `work` is the same variable), and the mapping is
checked as a property of the run and proved. `Pools` EXTENDS the one and instantiates the
other: a conversion has one of the two and never falls back, so the pool that is not in use
stays as it is, and each pool's properties are those of its own steps. `ConvertJob` relies on exactly the weaker promise: its
`RenderOk`, `RenderMisreported` and `RenderFails` are the returns that
`ChunkRenderer!WeakSpec` allows. `Server` does not
assume that a merge or an engine ends, `Subdivision` only while the client reads; when
it does is the subject of `NeverStuck` and `JobEnds` of `ConvertJob` and of `EngineEnds` of
`Engines`. `Subdivision` is the other dispatch path of `ConvertJob` and
keeps page contents, which `ConvertJob` abstracts to block counts; both take a plan
that covers the document, which is what `Planner` shows (`PlansCanBeRendered` proves
that its plans are those `SubdivisionAssumption` asks for). `Server` leaves the rate
limiter's verdict open; `RateLimiter` models what it is. `Engines` EXTENDS `License`
and takes one request from the routes of `Server` to the page count that `Planner`
starts from, or to the PDF of an engine that needs no plan. `Observability` sees the
jobs of `ConvertJob` and the stderr of the pools from the dashboard's side.

### Correspondence with the code

*ForkedPool.* One `pc` per goroutine inside `RenderChunk` (`LoadDocument` is the
caller `Loader`, with number 0). A critical section under `l.mu` is one action;
everything between two sections is a point of interleaving: taking a number,
registering, writing and waiting are separate, and so are the reader's lookup
(`ReadLine`) and its send (`Deliver`). The leader drains all complete lines of
stdin in one poll round (`lines`) before it looks at its children, as the C++
loop does. A process that writes to a closed socket dies, because nothing in
`worker_cpp/` handles SIGPIPE. The deque `pending` of `pool_loop_forked` is always
empty (`try_assign` never refuses) and is left out, as are lines of other commands,
which the Go side never sends. The orchestrator's own death is not modelled.

*WorkerPool.* `resp[w]` is the content of the stdout pipe and of `respCh`
together, since only their order is observable. A timed-out process is `doomed`:
SIGKILL was sent, and until it takes effect the process may still reply.

*Subdivision.* A chunk is its page range. `Index` is kept doubled, so it stays an
integer. A file is the sequence of its pages, and the empty sequence is a file that
is absent or truncated; what qpdf outputs is the concatenation of what its inputs
hold when it reads them. The last merge has a beginning (`BeginMerge`: the chunks are
sorted by `Index` and qpdf starts) and an end (`MergeEnds`), which need not come when the
client has left; the pipe between the two is in `ConvertJob`.

*ConvertJob.* A document is `Blocks` reads of 64 KB; the temp and final files are
counted in blocks, so truncation is visible. `Clear` removes entries one by one
while jobs run. `faulted` and `cleared` are history variables.

*Server.* One `pc` value per stretch of handler code between two shared effects;
HTML requests take the same path without the detection step. The upload to S3 and the
record after it are two steps, so an object may be in the bucket that the history does not
know yet. `release()` is there as in the code: called at the end of the handler (`Release`)
and once more by the defer (`Return`), with `released` between them.
`ProduceStarts` may or may not create the S3 temp file, as `CreateTemp`'s error is
ignored.

*Planner.* One step per loop iteration. A probe result carries the estimated output
of the whole document (`cost`), and both sides of a comparison are multiplied out, so
that no fraction is needed: the rounding of the floating-point estimates is left out.
`cost` is 0 for a format without amplification (`Amplification` has no entry for it),
where the estimate never limits anything. `budget` is `renderBudgetMB`. No worker in
this repository reports natural seams, and `ParseProbeJSON` does not validate them;
the model assumes that seams, if there are any, tile the document, which is what the
planner needs of them.

*RateLimiter.* `Check` runs under the limiter's mutex and is one action. A token is 60
units, so a second refills `perMinute` of them exactly; floating-point rounding is left
out. `admitted` and `retryAt` are history variables. The bound on admissions is per life
of a bucket: a client evicted from a full table comes back with a full one.

*License.* `ExpiryDate` holds `mu` from the stat to the end of the parse, so these are
separate steps of one caller; the file is locked by nobody, and the operator replaces,
breaks or removes it between them, with a newer, an equal or an older mtime (the first
file has `FirstMtime` 2). A renewal in place and a rename are the same change. `during`,
`used` and `reused` are history: what the file held during a call, which mtimes it has
had, and which of them twice. `Refresh` has no caller and is left out.

*Engines.* `doc.magic` is the first sniff of `DetectFormat` that the head of the file
passes, `doc.real` the format whose worker can open it, and sizes are in thousands of
bytes: the byte patterns are left out, the order of the sniffs, the fallbacks on the
extension and the size limits are kept. `run` is the one process the handler has, with
two pipes that are full, read or lost: `Wait` closes them, and what a reader had not
taken by then is lost (Go's documentation forbids this use of `Wait`). A
worker answers, refuses, crashes or hangs; the timer, the reading goroutines and `Wait`
are steps of their own. `soffice` is a launcher with a child that keeps the pipes open
when only the launcher is killed. Directories that cannot be made and programs that
cannot be found are among the failures of `Spawn`. A CSV upload is rewritten as a
workbook, whose write error the code drops, so the workbook may be cut short.

*Observability.* A load percentage is counted in halves and the weighted percentage in
thousandths, so the bar is an integer. Request ids are numbers, because the pager breaks
ties of the time stamp by comparing them. The stamp of a record is taken before the
store's lock, in a step of its own, and `inverted` remembers that two records went in
out of order. The ring of timings is the same code as that of heartbeats and is not
repeated. Time passes whatever the jobs do: a chunk may take longer than the TTL, its job
is then evicted, and the next update begins the entry anew. Only a tailer is less than one
tick behind. `heard` and `planned` are history: when a job last reported anything, and when
it last reported a plan. What a conversion knew of its plan is forgotten when it returns.

## 3. Runs

All passing runs check for deadlock.

| Run | Instance | Shows | Distinct states |
|---|---|---|---|
| `pools_hang` | forked: 2 chunks on a leader and 1 child; legacy: 3 chunks on 2 workers; all faults, Go fairness only | safety of the demultiplexer, refinement of `ChunkRenderer`, workers that do not hang are gone some time after `Close`; every legacy worker accounted for (held once, or given back, or killed), weak refinement; every call returns although processes hang | 309,123 |
| `forkedpool_oom` (violation) | out-of-memory only | a child's OOM takes the leader down | |
| `subdivision_once` | 6 pages in chunks of 3, 2 and 1, `Parallel` 2, cache on, one halving | document complete and in order, cache sound, processes at most doubled by a halving, job ends or merges for a client that has left | 31,974 |
| `subdivision_collision` (violation) | chunks of 4 and 1 pages, two halvings | a page delivered twice, another lost | |
| `subdivision_budget` (violation) | the plan of `subdivision_once`, out-of-memory only | more worker processes than `Parallel` | |
| `convertjob_safety` | 2 jobs, 2 chunks, `Parallel` 1, 2 blocks, all faults and `Clear` | success is complete, final cache sound and without temp files, failures have their own cause, no conversion is ever stuck | 922,042 (symmetry on chunks) |
| `convertjob_stuck` (violation) | 1 job, 3 blocks against a pipe of 1 | a conversion that never ends | |
| `server_safety` | 3 requests (office, office to S3, HTML), two of them with one id, 2 slots | slots, scratch, whose document is converted, records, answers | 311,607 |
| `planner_plans` | all documents of up to 6 pages with every tiling by seams, 3 costs, 64 settings, replanned for 0, 1 or 5 pages | plans cover, are greedy (along seams or by ranges), fit a worker, and are found | 158,510 |
| `ratelimiter_rate` | 3 clients in a table for 2, burst 2, 40 tokens a minute, 4 seconds | table consistent, oldest evicted, rate bounded, Retry-After kept | 188,123 |
| `engines_engines` | 12 documents, 3 endpoints, one request beside one poller of `/health`; one change of the licence file, 2 mtimes, 2 days | licence verdicts fresh and foreseen, refusals have a cause, results are whole, every request ends | 733,231 |
| `observability_stores` | 2 jobs (one office), 2 chunks, 3 stderr lines, TTL 1, 2 ticks, a ring of 2, a history of 2 read in pages of 1, 2 filters | active list truthful, bar monotone, ring newest, walk complete | 3,245,712 |

Bounds. Two concurrent calls and one child are the smallest pool in which replies
can be swapped, a caller can time out while the reader holds its reply, the leader
can render inline while its child does, and a dead child can be chosen again; the
demultiplexer's invariants are proved for all sizes. Two legacy workers are needed
for a start that fails half-way, three calls for one that has to wait. The plan of
`subdivision_once` has a chunk that splits unevenly, one that splits evenly and one
at the floor; one halving is the deepest at which the code keeps its promise (see
below). The two office requests of `server_safety` share a client-supplied id and hence a
scratch directory, and with two slots they are served at the same time; the third has an
id of its own. Two jobs of two chunks cover every overlap of one job's write with the
other's read; with `Parallel` 1 the chunks of a job still interleave with those of
the other. The merged document has one block more than the pipe holds, so qpdf
does block. `convertjob_safety` and `convertjob_stuck` are the two sides of one
boundary: when the client has left, one read has been taken from the pipe, so
`Blocks = PipeCap + 1` is the largest document that still ends. At the larger
instance the question is asked as the invariant `NeverStuck`, which symmetry allows.

The documents of `engines_engines` are a Word file whose pages the lite probe reads, a
presentation as ODF, a workbook and a Word file named `.xls` that only a worker can
count (the second after a retry), a drawing, a readable and a damaged PDF, e-mail, HTML,
CSV, plain text and a workbook named `.doc`, which the lite probe counts as a Word file:
each engine is taken by one of them. One change of the file is
enough to fall between stat and parse, or between the check and the worker. In
`observability_stores` a ring of two is the shortest that has an order, three lines
overflow it, and two ticks against a TTL of one let an entry be evicted while its job
renders or merges, and be begun anew. The history is so short that two new records evict the
one under the cursor of a walk.

Six pages are three times the floor of `planner_plans` (2, where the code has 10), so
each of the limits is the deciding one for some document; limits that no page meets and
a floor above the page limit are among the settings. At 40 tokens a minute a token takes
one and a half seconds, so Retry-After has to be rounded; the bucket is full again after
three of the four seconds.

Symmetry is declared for the chunks of `convertjob_safety` only: no action tells
them apart, and the run has no liveness property. `OomDepth` bounds how deep a
render may run out of memory.

### Fairness

* Go: weak fairness on the steps of every goroutine (the runtime schedules them)
  and on timers. Where a timer is armed, "the reply arrives or the timer fires"
  is one fair step (`CallerStep`), which is what `select` on both gives.
* Workers: none in `PoolsHangSpec`. `NoProcessLeaks` of `ForkedPool` has it as a
  premise, `WorkerFairness`: a process that is alive keeps running and a render ends.
  Kills are never fair.
* qpdf: it keeps writing while the pipe has room.
* `Subdivision` assumes a worker process ends: `runWorkerBin` kills it on timeout.
  The last merge is fair only as long as the client is there: then its output is read,
  and qpdf ends. `JobEnds` says that a job ends or merges for a client that has left.
* `Server` assumes that handlers proceed, but nothing of what they wait for outside of the
  program: the client's body, an engine or merge, and the upload (`Outside`) may take for
  ever, and `EveryRequestAnswered` excepts a request that stays there. `Planner` assumes
  that its loops run.
* `Engines`: the handler, the goroutines and timers of `runWorkerBin`, and the calls of
  the licence manager are fair; the programs they start are not, nor is the operator.
* `Observability` has no liveness property and no fairness.

## 4. Proofs

The eight `*Proofs` modules are checked by TLAPS, for every value of the constants that
satisfies the modules' assumptions. Almost none of the properties is inductive as it
stands. Each module defines the invariant its proof needs as a conjunction of named
parts, and TLC has checked that invariant on the instance of the component's run
before it was proved. A proof has one lemma, or one step, for each action; where one
variable carries the argument, a single lemma covers all actions that leave it alone.

| Module | Theorem | States | Inductive invariant |
|---|---|---|---|
| `ForkedPoolProofs` | `ForkedPoolTypeOK` | `TypeOK` | itself |
| | `ReaderNeverBlocksAlways`, `EofAlwaysWakesEveryone` | `ReaderNeverBlocks`, `EofWakesEveryone` | `DemuxInv` |
| | `OneRenderPerChildAlways` | `OneRenderPerChild` | `SocketInv` |
| | `ForkedPoolRefinesRenderer` | `ImplementsChunkRenderer` | `FlowInv` |
| `WorkerPoolProofs` | `WorkersAlwaysAccounted`, `LegacyPoolRefinesRenderer` | `WorkersAccounted`, `ImplementsWeakChunkRenderer` of `WorkerPool` | `PoolInv` |
| `ForkedPoolProofs` (with `Pools`) | `LegacyWorkersAccounted`, `LegacyKeepsWeakPromise` | the same two of a conversion, `PoolsSpec` | by `LegacyRuns` from the line above |
| `ConvertJobProofs` | `SuccessAlwaysComplete`, `FinalCacheAlwaysSound`, `AlwaysFailsForCause` | `SuccessIsComplete`, `FinalCacheSound`, `FailsForCause` | `JobInv` |
| `ServerProofs` | `ServerTypeOK`, `SlotsAlwaysBalance`, `ScratchAlwaysWithinBudget` | `TypeOK`, `SlotsBalance`, `ScratchWithinBudget` | types, `SlotsBalance`, `ScratchOwned`, `ReleasedLate` |
| | `NothingEverLeftBehind`, `HistoryAlwaysTruthful`, `AlwaysConvertsOwnInput` (action property) | `NothingLeftBehind`, `HistoryTruthful`, `ConvertsOwnInput` | `OutcomeInv` |
| `PlannerProofs` (with `Subdivision`) | `PlannerTypeOK`, `PlanAlwaysCovers`, `PlansCanBeRendered` | `TypeOK`, `PlanCovers`, that a finished plan satisfies `IsPlan` | `IInv` |
| | `PlanAlwaysGreedy`, `ChunksAlwaysFitWorker` | `PlanIsGreedy`, `FitsWorker` | `GreedyInv` |
| | `ProcessesAlwaysBounded` | `HalvingBudget`, for every depth | `TreeInv` |
| | `OutputAlwaysDocument`, `CacheAlwaysSound`, `MergesAlwaysFed`, under `OneHalving` | `OutputIsDocument`, `CacheSound`, `MergeFailsOnlyIfAbandoned` | `TreeInv`, `FileInv`, `MergeSound` |
| `RateLimiterProofs` | `AdmissionAlwaysBounded`, `RetryAfterAlwaysKept` | `AdmissionBound`, `RetryAfterKept` | types, `Credit`, `RetryFunded` |
| | `TableAlwaysAgrees` | `TableAgrees` | `TableInv` |
| `EnginesProofs` | `VerdictAlwaysFresh` | `VerdictFresh` of `License` | `LicenseInv` |
| | `GateAlwaysForesees`, `RefusalAlwaysHasCause`, `OkAlwaysBacked` | `GateForesees`, `RefusalHasCause`, `OkIsBacked` | `EnginesInv` |
| `ObservabilityProofs` | `PercentNeverTakenBack` (action property), `ActiveAlwaysTruthful` | `PercentNeverFalls`, `ActiveIsTruthful` | `ProgressInv` |
| | `RingsAlwaysKeepNewest` | `RingKeepsNewest` | `RingInv` |
| | `WalksAlwaysComplete` | `WalkComplete` | `WalkInv` |

### The arguments

*ForkedPool.* That a reply channel is empty when the reader sends to it depends on who
may still be registered under which number. `DemuxInv` adds to the types that

* an entry of `pending` belongs to a caller between registration and return, under
  that caller's own number (`PendingOwned`);
* the reply in the reader's hand goes to an empty channel (`HandFits`);
* a caller that has not registered has received nothing (`NothingEarly`);
* two callers under way have different numbers, all at most `seq` (`SeqsDistinct`);
* a waiting caller is registered, or in the reader's hand, or has its reply
  (`WaiterReachable`);
* after EOF nothing is registered by a caller that waits, and the leader is gone
  (`EofFinal`).

`ForeignStep` covers all actions of leader and children, which leave that state alone:
the demultiplexer depends on the leader only through the rule that a dead leader stays
dead. `SocketInv` adds the leader's side: a child whose slot is free owes nothing, and
one that is gone has nothing queued. The refinement needs both, and in addition that a
chunk's command is in one place at a time, from the pipe to the child's socket
(`CommandsSound`), that no two workers render one chunk (`RendersSound`), and that every
reply on its way, in a child's socket, the pipe, the reader's hand or a channel, tells
the truth about the chunk whose number it bears (`RepliesSound`). Then an `"ok"` that a
caller takes from its channel is one that `ChunkRenderer` allows.

*WorkerPool.* `CheckoutSound` is the accounting, `CloseSound` what start and close have
done so far. For the refinement, `ServeSound` says how a stale reply can arise at all:
only behind a call that timed out, and then the process reads no more. Until some call
of the pool has failed, the reply that is read is therefore the caller's own, which is
what `WeakSpec` asks. `LegacyRuns` shows that a conversion, seen from the legacy pool, makes
its steps or leaves it alone, which carries both results over to `Pools`.

*ConvertJob.* `SentSound` ties what the client has got to the place of the code;
`ChunkSound` gives for every chunk without a file the reason why (an error noted, a
context done, a `Clear`); `CauseKnown` and `MergeSound` carry these reasons to the
outcome; `TempsOwned` says which goroutine will still rename or remove each temp file.
`ClearSound` marks what only `Clear` can take away.

*Server.* `SlotsBalance` is inductive together with the types and `ReleasedLate`, that only
a request at the end of its handler has released: the second release then finds
`released` set. The argument is about cardinalities of the sets of requests between
admission and release. The scratch bound holds even when request ids coincide: every
directory has a slot holder that will remove it (`ScratchOwned`). `OutcomeInv` adds the
same for S3 temp files (`S3TempOwned`), the order of answer, upload and record
(`RecordSound`: what is in the bucket was sent whole, and its record is a success or still
to come), and that whatever lies under an id was uploaded under that id, by a request that
still has its scratch directory (`FiledById`). The last gives `ConvertsOwnInput` for any
ids.

*Planner.* `Reach` says what the chunks made so far cover at each place of the code; the
lemma `TilesAppend` carries all steps. `GreedyInv` adds that every finished group is one
that could not take the next seam (`IsGroup`), that the page ranges so far are those of
the closed form (`AreRanges`), and that the chunk size respects the worker's share or the
floors (`SizeSound`). That the page counts of a tiling add up to the document
(`TilesSum`), which `isBalanced` needs, is an induction over the chunks: it is done
through the least counterexample (`LeastNumber`, from the well-foundedness of `<`), with
the sum written as a recursive function.

*Subdivision.* The chunks in flight form a forest whose roots are the plan. `TreeInv` says
that every other chunk is a half of one whose render is over and which waits for it
(`ChildSound`), that a chunk that was halved has both halves (`SplitSound`), that two
chunks overlap only if one lies in a half of the other (`Laminar`, without which a
halving might take the place of a chunk that is already there), and that the outermost
`renderAll` keeps to its slots (`RootSlots`). The processes are then counted from the
deepest level up: `TwoPerSplit` maps the active chunks of a level injectively to halves
of those that wait one level above, and `RendersBounded` adds the levels up. That
`2^d` doubles is taken from the number of subsets of a set (`PowersOfTwo`), since the
prover knows nothing of exponents.

`FileInv` says whose pages are where: a path that `renderWithRetry` has returned, or is
about to return, is the chunk's own file, and that file holds the chunk's own pages
(`PathSound`); a chunk without a path was skipped or failed for a reason on record
(`ErrorSound`, `GroupSound`). It needs `OneHalving`, that no chunk is halved twice:
then two chunks with the same `Index` are a chunk and its left half (`IndexShared`), the
one has given up its chunk file before the other is created, and only chunks of the plan
have a merged file (`ChunkFileOwned`, `MergedFileOwned`). With two halvings this is false,
and so are the three properties (section 5). What qpdf makes of consecutive ranges
(`FlattenPages`) is an induction over the list, done through the least counterexample.
`MergeSound` says that once the merge has begun every chunk of the plan has ended without
an error on record, so what the merge reads at its end is what it was started with.
TLC has checked `TreeInv` with up to three halvings, and `FileInv` on the run's instance.

*RateLimiter.* The bound on admissions speaks of pairs of admissions only; `Credit` adds
the account behind it: for every admission in the past, the tokens spent since then and
those still in the bucket were paid for by the burst and the refill up to the last check.
`RetryFunded` says that the tokens in the bucket and the refill until the time named make
a token, which survives further denials because a denial moves tokens and stamp together.
`TableSound` keeps the list free of repetitions and in the order of the stamps when a
client is moved to its end, or added after the front was evicted.

*License and Engines.* `KeptSound` is the core of the cache: what is remembered is never
an error, and is what the file with that mtime holds, unless two files had it.
`StatSound` and `HitSound` carry this over the gap between stat and parse, in which the
operator may act. For the request, `ProcSound` is the life of a process with its two
readers, its `Wait` and its timer; `CodeSound` says why the process ended with the code
it has, and `CalmSound` that the check would still give the same verdict as long as
neither file nor date has changed.

*Observability.* Every update is shown to be `Forward`: it neither reopens a complete
entry nor changes the plan after chunks were rendered, so `WeightedPercent` does not
fall; `JobSound` says for each place of a job and its tailer which updates are still to
come. Integer division is monotone there because `ChunkPct` has a fixed denominator
between two plans. `ActiveIsTruthful` needs besides `EntrySound`: a job at work that was heard of within the
TTL has an entry, touched no earlier than that, with the plan's number of chunks unless the
entry was begun after the plan was reported. The ring is handled with `EndsWith`, the elementwise
form of `IsSuffix`.

For the walk, a recorded conversion has a fixed place in the pager's order of pairs
(`Position`: its stamp and its id), and the history holds it at that place (`Faithful`)
and in descending order unless `inverted` (`HistorySound`). `ShownUpTo` then says of a walk
that everything it has shown stands at or before its cursor, and that whatever it still
owes stands after it, so that neither a new record nor an evicted one matters.
`PageContinues` carries this over one page: the records after the cursor are new to the
walk, and the cut at `Limit` moves the cursor to the last record shown. What a filter loop
picks (`PickedFacts`) and that neighbours in order mean all in order (`DescendingOrdered`)
are inductions over the list, done through the least counterexample.

### What the proofs changed in the models

* `License` assumed any set of dates; the earliest of several dates is only defined for
  a set that has one, and `LicenseAssumption` now says so. Finite sets of integers, which
  is what a parsed file gives, always do.
* `Engines` let the outcomes of a worker process apply to `soffice` as well, which has
  its own actions; `WorkerSucceeds` and `WorkerFails` now exclude that stage.
* `Engines` and `Observability` had `CASE`s with overlapping guards, for which TLA+ does
  not say which arm is taken. They are now in the order of the code's conditions.
* `Subdivision` assumed of its plan only that it is a sequence of ranges. The proofs need
  that they are consecutive, start at page 1 and are not empty; `SubdivisionAssumption`
  now says so (`IsPlan`), and `PlansCanBeRendered` shows that the planner's plans are of
  that kind. Its initial condition and next-state relation are named `OneShotInit` and
  `OneShotNext`, since `PlannerProofs` reasons about both modules.
* `Planner` sums pages with a recursive function, `RateLimiter` removes a client from the
  list at its place, as `list.MoveToBack` does; both were folds or filters before.
* `Observability` filters the history with `Picked`, the loop of the code as a recursive
  function, where it had the library's `SelectSeq`, whose definition the provers do not
  get hold of. Its history variable `inverted` was false initially for any `Old`; it is
  now true at once if `Old` itself is not in the pager's order, as `WalkComplete` needs for
  every value of that constant.

### Only model-checked

* Liveness under fairness: `ForkedCallsReturn`, `LegacyCallsReturn`, `NoProcessLeaks`, `JobEnds`,
  `EveryRequestAnswered`, `PlanEnds`, `EngineEnds`; and `NeverStuck`, an invariant about
  `ENABLED`. The prover handles neither.

## 5. Disagreements found

Each has a violation run; the trace is the evidence.

1. `subdivision_collision`: parts of parts reuse the index, and so the file, of the
   next chunk. The same naming makes a left half that is halved again merge into a
   file its parent's merge truncates (set `OomDepth = 2` in `MCSubdivision_once.cfg`:
   `MergeFailsOnlyIfAbandoned` and `CacheSound` fail).
2. `forkedpool_oom`: a dead child's slot is used again, and SIGPIPE ends the leader.
3. `convertjob_stuck`: an abandoned merge waits for a qpdf that waits for a reader.
4. `subdivision_budget`: the parts of a halved chunk run beside, not inside, the job's
   `Parallel` slots (`business-logic-model.md:407-408` says "They don't bypass the
   concurrency budget", `services.md:84` that the peak is `max_jobs × parallel`).
   `HalvingBudget` is the bound that does hold, for every depth.

Seen while modelling, with no run of their own:

* pool mode passes on OOM errors that one-shot mode handles: `phase[j] = "oom"` is
  reachable in `ConvertJob`, where `errors.go:17` says the variant "never surfaces over
  HTTP";
* a worker killed by the kernel for memory is a render failure, not an OOM
  (`business-rules.md:100`);
* a merge that fails after the first byte leaves the client a partial PDF under
  status 200 (`stories.md:223`);
* `Clear` can fail a healthy conversion (`services.md:93`), which is why
  `FailsForCause` excepts it;
* requests in flight with the same `X-Request-ID` share a scratch directory, and one may
  convert the document of the other: the id is taken from the client (`server.go:112`),
  where `domain-entities.md:196` says "UUID assigned by the server on request arrival" and
  `application-design.md:295` "UUID generated by server on receive". `ConvertsOwnInput` says
  that nothing worse happens;
* `main` returns from `ListenAndServe` as soon as `Shutdown` begins and does not wait for
  it (`main.go:82`; `main.go:71` speaks of a graceful shutdown): requests in flight are
  cut off, which `EveryRequestAnswered` excepts;
* a licence file that is removed leaves the verdict of the file before it in force, and
  so does a file replaced by one with the same mtime (`license.go:15-18` says `/health`
  reflects "what the C++ Aspose engine will actually do"); `VerdictFresh` states what
  holds;
* the history is not always in the order of its stamps (`recent.go:38` says index 0 is
  the newest), since `server.go:430` stamps before the lock; `WalkComplete` excepts it;
* the retry under another format is out of reach for a document that the lite probe counts
  from its metadata or its size as docx or pptx: a workbook named `.doc` goes on to the docx
  renderer and fails there, where `nfr-design-patterns.md:685` says "Handles: Excel-as-.doc,
  Word-as-.ppt". `OkIsBacked` says which counts can be of another format;
* a chunk may render for longer than the 30 minutes of the progress TTL (`progress.go:8`):
  `config.go:112` allows 3600 s, `compose.yaml:41` sets 1800 s, and the parts of a halved
  chunk report only when all are done. The job then disappears from the active list, and its
  next update begins its entry anew without the number of chunks; `ActiveIsTruthful` says
  when a job is listed. A merge longer than the TTL does the same, and a failed job stays
  listed until the TTL;
* `qpdf --show-npages` (`probe_lite.go:191`) has neither timeout nor context, and a killed
  `soffice` leaves `soffice.bin` holding the pipes `Wait` waits for (`libreoffice.go:81`):
  `EngineEnds` names both;
* a write error of the CSV workbook is dropped (`convert.go:207`), and the request goes on
  with what is there.

## 6. Plan

1. *(done)* the pools and their abstract specification; subdivision; the job with
   cache and merge; the handlers; planner; rate limiter; first proofs.
2. *(done)* the stores with their TTLs, late updates and pager; the licence cache
   against replacement of the file; detection, probe, one-shot process and engines.
3. `LineAccumulator` at byte granularity; startup with settings and scratch sweep;
   the UI's convert panel.
4. *(done, section 4)* proofs of the invariants, of both refinements of
   `ChunkRenderer` and of the action property of the progress bar.
5. *(done, section 4)* proofs for `Subdivision`: the number of processes at any depth; with
   one halving, whose pages every file holds; and for the walk through the history.

## 7. Not modelled

Formatting of read-only endpoints; parsing of settings; the bytes behind the sniffs of
the probe, the CSV reader and the licence XML; the Aspose, LibreOffice, Gotenberg, S3 and
qpdf programs themselves (they appear as outcomes); the C++ calls into the Aspose
libraries behind the worker's steps; deployment scripts. `PROJECT.json` gives the reason component by
component.
