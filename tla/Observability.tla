--------------------------- MODULE Observability ---------------------------
(***************************************************************************)
(* The stores behind the dashboard, internal/obs: the table of job         *)
(* progress and the heartbeat rings, both with a TTL and lazy eviction,    *)
(* and the bounded history of conversions with its pager.  They are        *)
(* written by conversions (internal/orchestrator, internal/server) and by  *)
(* the goroutines that tail the workers' stderr (internal/worker), and     *)
(* read by GET requests and by the web UI's walk through the history.      *)
(***************************************************************************)
EXTENDS Integers, Sequences, SequencesExt

CONSTANTS
    Jobs,       \* request ids, as numbers: the pager orders by them
    Office,     \* the jobs that ConvertJob does; the rest go to other engines
    Old,        \* ids of conversions recorded before, newest first
    Filters,    \* subset of {"all", "ui", "cross", "failed"}
    MaxChunks,  \* bound: chunks of a plan
    MaxLines,   \* bound: stderr lines that a pool writes
    TTL,        \* progressTTL, and the rings' TTL, in ticks
    MaxNow,     \* bound: ticks
    RingMax,    \* RingStore.max
    Maxlen,     \* RecentStore.maxlen
    Limit       \* page size of the walk

ASSUME ObservabilityAssumption ==
    /\ Jobs \subseteq Nat /\ Office \subseteq Jobs /\ Old \in Seq(Nat \ Jobs)
    /\ Filters \subseteq {"all", "ui", "cross", "failed"}
    /\ {MaxChunks, RingMax, Maxlen, Limit} \subseteq Nat \ {0}
    /\ {MaxLines, MaxNow, TTL} \subseteq Nat

VARIABLES
    now,        \* the clock
    job,        \* job[j]: the conversion j
    store,      \* JobProgressStore.store
    ring,       \* RingStore.store and lastTouched of the heartbeats
    stderr,     \* stderr[j]: lines that j's tailer has not read yet
    stamp,      \* the latest completion timestamp given
    recent,     \* RecentStore.buf
    beats,      \* history: beats[j]: the heartbeats recorded for j
    walk,       \* a walk of the history panel from its first page to its last
    inverted    \* history: records were inserted in another order than stamped

vars == <<now, job, store, ring, stderr, stamp, recent, beats, walk, inverted>>

-----------------------------------------------------------------------------
(* JobProgressStore.  Load progress is counted in halves.                  *)

FullLoad == 2

NoUpdate == [total |-> -1, phase |-> "nil", load |-> -1, merge |-> -1, chunks |-> 0]

\* Mutant: a job is dropped a TTL after its start.
ExpiredSinceStart(e) == now - e.started > TTL

\* evictLocked
Expired(e) == now - e.touched > TTL

Live == {r \in DOMAIN store : ~Expired(store[r])}

Clamp01(v) == IF v > FullLoad THEN FullLoad ELSE v

\* Mutant: the latest value counts.
LatestLoad(old, v) == IF v >= 0 THEN Clamp01(v) ELSE old

\* u.LoadProgress != nil && *u.LoadProgress > jp.LoadProgress
LoadAfter(old, v) == IF v > old THEN Clamp01(v) ELSE old

NewEntry == [total |-> 0, rendered |-> 0, phase |-> "init", load |-> 0, merge |-> 0,
             started |-> now, touched |-> now]

\* Evict, then change or create the entry of j.
Update(j, u) ==
    LET e == IF j \in Live THEN store[j] ELSE NewEntry
        f == [e EXCEPT !.total    = IF u.total >= 0 THEN u.total ELSE @,
                       !.phase    = IF u.phase # "nil" THEN u.phase ELSE @,
                       !.load     = LoadAfter(@, u.load),
                       !.merge    = IF u.merge >= 0 THEN u.merge ELSE @,
                       !.rendered = @ + u.chunks,
                       !.touched  = now]
    IN  store' = [r \in Live \cup {j} |-> IF r = j THEN f ELSE store[r]]

\* Active, of the store after eviction.
Active == {r \in Live : store[r].phase # "complete"}

\* WeightedPercent, in thousandths.
WeightedPercent(e) ==
    LET chunkPct == IF e.total = 0 THEN 0
                    ELSE IF e.rendered > e.total THEN 650
                    ELSE (650 * e.rendered) \div e.total
        pct == 150 * e.load + chunkPct + 50 * e.merge
    IN  IF e.phase = "complete" THEN 1000 ELSE IF pct > 999 THEN 999 ELSE pct

-----------------------------------------------------------------------------
(* RingStore, with the numbers of the heartbeats as events.                *)

\* Mutant: a full ring keeps its oldest events.
KeepOldest(buf) == IF Len(buf) > RingMax THEN SubSeq(buf, 1, RingMax) ELSE buf

\* buf[len(buf)-s.max:]
KeepNewest(buf) == IF Len(buf) > RingMax THEN SubSeq(buf, Len(buf) - RingMax + 1, Len(buf)) ELSE buf

\* evictLocked of the ring: store and lastTouched lose the same requests.
RingLive(r) == [i \in {i \in DOMAIN r : now - r[i].touched <= TTL} |-> r[i]]

RingRecord(j, n) ==
    LET buf == IF j \in DOMAIN ring THEN ring[j].buf ELSE <<>>
        new == [r \in DOMAIN ring \cup {j} |->
                   IF r = j THEN [buf |-> KeepNewest(Append(buf, n)), touched |-> now] ELSE ring[r]]
    IN  ring' = RingLive(new)

-----------------------------------------------------------------------------
(* RecentStore and its pager.                                              *)

Matches(rec, flt) == CASE flt = "all"    -> TRUE
                       [] flt = "failed" -> rec.status = "failed"
                       [] OTHER          -> rec.source = flt

\* Mutant: the timestamp alone is compared.
LessStamp(a, b) == a.ts < b.ts

LessTuple(a, b) == a.ts < b.ts \/ (a.ts = b.ts /\ a.id < b.id)

NoCursor == [ts |-> -1, id |-> -1]

\* The loop of a filter: the records of s that are in S, in their order.
Picked(s, S) ==
    LET picked[i \in 0..Len(s)] ==
            IF i = 0 THEN <<>>
            ELSE IF s[i] \in S THEN Append(picked[i - 1], s[i]) ELSE picked[i - 1]
    IN  picked[Len(s)]

\* Paginate and makePage, on the records that match the filter.
Paginate(items, cursor) ==
    LET anchored == \E i \in DOMAIN items : items[i].ts = cursor.ts /\ items[i].id = cursor.id
        stale    == cursor # NoCursor /\ ~anchored
        after    == {r \in Range(items) : LessTuple(r, cursor)}
        rest     == IF cursor = NoCursor \/ stale THEN items ELSE Picked(items, after)
        more     == Len(rest) > Limit
        entries  == IF more THEN SubSeq(rest, 1, Limit) ELSE rest
    IN  [entries |-> entries, stale |-> stale,
         next |-> IF more THEN [ts |-> Last(entries).ts, id |-> Last(entries).id] ELSE NoCursor]

Record(rec) == recent' = LET buf == <<rec>> \o recent
                         IN  IF Len(buf) > Maxlen THEN SubSeq(buf, 1, Maxlen) ELSE buf

\* Newest first, and by falling ids where the stamps are equal.
Descending(s) ==
    \A i \in 1..Len(s) - 1 :
        \/ s[i + 1].ts < s[i].ts
        \/ s[i + 1].ts = s[i].ts /\ s[i + 1].id < s[i].id

-----------------------------------------------------------------------------
NoWalk == [at |-> "idle", flt |-> "all", cursor |-> NoCursor, seen |-> <<>>, kept |-> {}]

Init ==
    /\ now = 0
    /\ \E pooled \in SUBSET Office :
          job = [j \in Jobs |-> [at |-> "init", pool |-> j \in pooled, total |-> 0, left |-> 0, extra |-> 0,
                                 planned |-> 0, heard |-> 0, lines |-> 0, status |-> "none", ts |-> 0]]
    /\ store = <<>> /\ ring = <<>>
    /\ stderr = [j \in Jobs |-> <<>>] /\ beats = [j \in Jobs |-> <<>>]
    /\ stamp = 0
    /\ recent = [i \in DOMAIN Old |-> [id |-> Old[i], ts |-> 0, source |-> "cross", status |-> "success"]]
    /\ walk = NoWalk
    /\ inverted = ~Descending(recent)

Moved(j, at) == [job EXCEPT ![j].at = at]
Heard(f, j)  == [f EXCEPT ![j].heard = now]
Follows(f, j, n) == [f EXCEPT ![j].total = n, ![j].left = n, ![j].planned = now]
\* What ConvertJob knew of its plan is gone when it returns.
Finish(f, j, status) ==
    [f EXCEPT ![j].at = "over", ![j].status = status, ![j].total = 0, ![j].left = 0,
              ![j].extra = 0, ![j].planned = 0, ![j].heard = 0, ![j].lines = 0]

-----------------------------------------------------------------------------
(* The conversion: ConvertJob, dispatchPool, dispatchOneShot.              *)

\* Another engine is used, or the probe fails: no progress is reported.
NoProgress(j) ==
    /\ job[j].at = "init"
    /\ \E s \in {"success", "failed"} : job' = Finish(job, j, s)
    /\ UNCHANGED <<now, store, ring, stderr, stamp, recent, beats, walk, inverted>>

\* A final-cache hit is complete before it is streamed.
CacheHit(j) ==
    /\ j \in Office /\ job[j].at = "init"
    /\ Update(j, [NoUpdate EXCEPT !.total = 1, !.load = FullLoad, !.merge = 1, !.phase = "complete"])
    /\ \E s \in {"success", "failed"} : job' = Finish(job, j, s)
    /\ UNCHANGED <<now, ring, stderr, stamp, recent, beats, walk, inverted>>

Planned(j) ==
    /\ j \in Office /\ job[j].at = "init"
    /\ \E n \in 1..MaxChunks :
          /\ Update(j, [NoUpdate EXCEPT !.total = n, !.phase = "loading"])
          /\ job' = Heard(Follows(Moved(j, "loading"), j, n), j)
    /\ UNCHANGED <<now, ring, stderr, stamp, recent, beats, walk, inverted>>

\* The pool is open, or one-shot workers are about to be started.
Loaded(j) ==
    /\ job[j].at = "loading"
    /\ Update(j, [NoUpdate EXCEPT !.load = FullLoad, !.phase = "rendering"])
    /\ job' = Heard(Moved(j, IF job[j].pool THEN "replan" ELSE "rendering"), j)
    /\ UNCHANGED <<now, ring, stderr, stamp, recent, beats, walk, inverted>>

\* The pool counts other pages than the probe: a new plan before any chunk.
Replan(j) ==
    /\ job[j].at = "replan"
    /\ \/ /\ job' = Moved(j, "rendering")
          /\ UNCHANGED store
       \/ \E n \in 1..MaxChunks :
            /\ Update(j, [NoUpdate EXCEPT !.total = n])
            /\ job' = Heard(Follows(Moved(j, "rendering"), j, n), j)
    /\ UNCHANGED <<now, ring, stderr, stamp, recent, beats, walk, inverted>>

\* A chunk is rendered, or found in the cache.  One-shot mode does not count a
\* cached chunk, and counts each part of a halved one.
ChunkDone(j) ==
    /\ job[j].at = "rendering" /\ job[j].left > 0
    /\ \/ /\ Update(j, [NoUpdate EXCEPT !.chunks = 1])
          /\ job' = Heard([job EXCEPT ![j].left = @ - 1], j)
       \/ /\ ~job[j].pool
          /\ job' = [job EXCEPT ![j].left = @ - 1]
          /\ UNCHANGED store
       \/ /\ ~job[j].pool /\ job[j].extra = 0
          /\ Update(j, [NoUpdate EXCEPT !.chunks = 1])
          /\ job' = Heard([job EXCEPT ![j].extra = 1], j)
    /\ UNCHANGED <<now, ring, stderr, stamp, recent, beats, walk, inverted>>

StartMerge(j) ==
    /\ job[j].at = "rendering" /\ job[j].left = 0
    /\ Update(j, [NoUpdate EXCEPT !.phase = "merging"])
    /\ job' = Moved(j, "merging")
    /\ UNCHANGED <<now, ring, stderr, stamp, recent, beats, walk, inverted>>

MergeDone(j) ==
    /\ job[j].at = "merging"
    /\ Update(j, [NoUpdate EXCEPT !.merge = 1, !.phase = "complete"])
    /\ job' = Finish(job, j, "success")
    /\ UNCHANGED <<now, ring, stderr, stamp, recent, beats, walk, inverted>>

\* An error on the way: the entry stays as it is.
JobFails(j) ==
    /\ job[j].at \in {"loading", "rendering", "merging"}
    /\ job' = Finish(job, j, "failed")
    /\ UNCHANGED <<now, store, ring, stderr, stamp, recent, beats, walk, inverted>>

\* recordConversion takes the time, ...
StampRecord(j) ==
    /\ job[j].at = "over"
    /\ stamp' = stamp + 1
    /\ job' = [Moved(j, "stamped") EXCEPT ![j].ts = stamp + 1]
    /\ UNCHANGED <<now, store, ring, stderr, recent, beats, walk, inverted>>

\* ... and then the lock of the history.
RecordConversion(j) ==
    /\ job[j].at = "stamped"
    /\ Record([id |-> j, ts |-> job[j].ts, source |-> "ui", status |-> job[j].status])
    /\ inverted' = (inverted \/ ~Descending(recent'))
    /\ job' = Moved(j, "recorded")
    /\ UNCHANGED <<now, store, ring, stderr, stamp, beats, walk>>

-----------------------------------------------------------------------------
(* The pool's stderr and its tailer, handleStderrLine.                     *)

Line(type, v) == [type |-> type, v |-> v]

WorkerLine(j) ==
    /\ job[j].pool /\ job[j].at \in {"loading", "replan", "rendering"} /\ job[j].lines < MaxLines
    /\ job' = [job EXCEPT ![j].lines = @ + 1]
    /\ \E l \in {Line("heartbeat", job[j].lines + 1)} \cup
                (IF job[j].at = "loading" THEN {Line("load_progress", v) : v \in {1, FullLoad + 1}} ELSE {}) :
          stderr' = [stderr EXCEPT ![j] = Append(@, l)]
    /\ UNCHANGED <<now, store, ring, stamp, recent, beats, walk, inverted>>

\* Nothing makes the tailer keep up: the job may be complete when it reads.
HandleStderrLine(j) ==
    /\ stderr[j] # <<>>
    /\ stderr' = [stderr EXCEPT ![j] = Tail(@)]
    /\ LET l == Head(stderr[j]) IN
       IF l.type = "load_progress"
       THEN Update(j, [NoUpdate EXCEPT !.load = l.v]) /\ UNCHANGED <<ring, beats>>
       ELSE /\ RingRecord(j, l.v)
            /\ beats' = [beats EXCEPT ![j] = Append(@, l.v)]
            /\ UNCHANGED store
    /\ UNCHANGED <<now, job, stamp, recent, walk, inverted>>

-----------------------------------------------------------------------------
(* Readers, and time.                                                      *)

\* GET /v1/jobs/active, /v1/progress/{id}, /v1/heartbeats/{id}
Read ==
    /\ store' = [r \in Live |-> store[r]]
    /\ ring' = RingLive(ring)
    /\ UNCHANGED <<now, job, stderr, stamp, recent, beats, walk, inverted>>

Ids(s) == {s[i].id : i \in DOMAIN s}
IdsOf(s) == [i \in DOMAIN s |-> s[i].id]

\* One GET /v1/conversions of the walk; a stale cursor starts it anew.
NextPage ==
    /\ walk.at # "done"
    /\ \E f \in IF walk.at = "idle" THEN Filters ELSE {walk.flt} :
         LET items == Picked(recent, {r \in Range(recent) : Matches(r, f)})
             page  == Paginate(items, walk.cursor)
         IN  walk' = IF page.stale THEN NoWalk
                     ELSE [at |-> IF page.next = NoCursor THEN "done" ELSE "paging",
                           flt |-> f, cursor |-> page.next,
                           seen |-> walk.seen \o IdsOf(page.entries),
                           kept |-> IF walk.at = "idle" THEN Ids(items) ELSE walk.kept \cap Ids(items)]
    /\ UNCHANGED <<now, job, store, ring, stderr, stamp, recent, beats, inverted>>

\* Nothing bounds the time between two updates of a job: a chunk may take longer
\* than the TTL.  A tailer is less than a tick behind.
Tick ==
    /\ now < MaxNow
    /\ \A j \in Jobs : stderr[j] = <<>>
    /\ now' = now + 1
    /\ UNCHANGED <<job, store, ring, stderr, stamp, recent, beats, walk, inverted>>

JobStep(j) == \/ NoProgress(j) \/ CacheHit(j) \/ Planned(j) \/ Loaded(j) \/ Replan(j)
              \/ ChunkDone(j) \/ StartMerge(j) \/ MergeDone(j) \/ JobFails(j)
              \/ StampRecord(j) \/ RecordConversion(j)

Next == \/ \E j \in Jobs : JobStep(j) \/ WorkerLine(j) \/ HandleStderrLine(j)
        \/ Read \/ NextPage \/ Tick

Spec == Init /\ [][Next]_vars

-----------------------------------------------------------------------------
(* Properties.                                                             *)

\* The progress bar of a job never goes back, whatever the order in which the
\* conversion and the tailer of its pool update the entry: a load progress read
\* late, a new plan, a cached or a halved chunk.
PercentNeverFalls ==
    [][\A j \in DOMAIN store \cap DOMAIN store' :
          store[j].started = store'[j].started =>
              WeightedPercent(store[j]) <= WeightedPercent(store'[j])]_vars

\* A conversion that loads or renders and reported anything within the TTL is
\* listed among the active jobs, also one that had been evicted before.  Its
\* total is that of the plan it follows, unless the entry was evicted and begun
\* anew since it reported that plan: then the code has lost the total.  A success
\* in the history is not listed, not even if its entry was evicted during a long
\* merge or its tailer reads on.
ActiveIsTruthful ==
    \A j \in Jobs :
        /\ job[j].at \in {"loading", "replan", "rendering"} /\ now - job[j].heard <= TTL =>
              /\ j \in Active
              /\ store[j].started <= job[j].planned => store[j].total = job[j].total
        /\ job[j].at = "recorded" /\ job[j].status = "success" => j \notin Active

\* A ring holds the newest events of its request, in order, and no more than
\* its capacity.
RingKeepsNewest ==
    \A j \in DOMAIN ring :
        Len(ring[j].buf) \in 1..RingMax /\ IsSuffix(ring[j].buf, beats[j])

\* A walk through the pages of the history that never met a stale cursor has
\* shown each record at most once, and each one that stayed in the buffer and
\* matches the filter, while conversions were recorded and evicted meanwhile:
\* unless two conversions were recorded in another order than stamped.
WalkComplete ==
    walk.at = "done" /\ ~inverted =>
        /\ IsInjective(walk.seen)
        /\ walk.kept \subseteq Range(walk.seen)
=============================================================================
