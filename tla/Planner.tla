------------------------------ MODULE Planner ------------------------------
(***************************************************************************)
(* How a document is cut into chunks: AdaptiveMaxPages and PlanChunks of   *)
(* internal/planner/planner.go as ConvertJob and dispatchPool call them in *)
(* internal/orchestrator/orchestrator.go.  One step is one iteration of a  *)
(* loop.  A megabyte of estimated output is the unit of cost and a probe   *)
(* carries the cost of the whole document (its size times the format's     *)
(* amplification); estimates are compared exactly, the rounding of the     *)
(* code's floating point is left out.                                      *)
(***************************************************************************)
EXTENDS Naturals, Sequences, FiniteSets

CONSTANTS
    Probes,         \* [pages, cost, seams]: the probe's results
    Limits,         \* [parallel, budget, ceiling, maxPages, maxMB, least]:
                    \* settings, and what they come to for the format
    MinPagesFloor,  \* AdaptiveMaxPages' default for MinPagesFloor
    MinChunks,      \* planner.MinChunks
    PoolMinChunks,  \* settings.PoolMinChunks
    PageCounts      \* what a loaded document's page count may turn out to be

\* cs cuts pages 1..n into consecutive, non-empty ranges.
Tiles(cs, n) ==
    /\ \A i \in 1..Len(cs) :
          /\ cs[i].from = IF i = 1 THEN 1 ELSE cs[i - 1].to + 1
          /\ cs[i].from <= cs[i].to
    /\ n = IF cs = <<>> THEN 0 ELSE cs[Len(cs)].to

PageRange == [from : Nat, to : Nat]

\* Seams, if a worker reports any, are parts of the document (sections,
\* sheets, slides): they tile it.
ASSUME PlannerAssumption ==
    /\ \A p \in Probes : /\ p.pages \in Nat /\ p.cost \in Nat
                         /\ p.seams \in Seq(PageRange)
                         /\ p.seams # <<>> => Tiles(p.seams, p.pages)
    /\ \A l \in Limits : /\ l.parallel \in Nat \ {0} /\ l.budget \in Nat
                         /\ l.ceiling \in Nat /\ l.maxPages \in Nat
                         /\ l.maxMB \in Nat /\ l.least \in Nat
    /\ MinPagesFloor \in Nat \ {0} /\ MinChunks \in Nat \ {0}
    /\ PoolMinChunks \in Nat /\ PageCounts \subseteq Nat

VARIABLES
    pages, cost, seams, \* the probe result the plan is made from
    lim,                \* the settings
    pc,                 \* "size", "plan", "seams", "balance", "split", "grow", "done"
    eff,                \* effMaxPages
    chunks,             \* the plan
    natural,            \* its NaturalSeam flag
    k,                  \* groupSeams: the next seam
    pending,            \* groupSeams: the group being formed, a sequence of 0 or 1
    cursor, end,        \* pageRangeSplit
    replanned           \* dispatchPool has planned again

probeVars == <<pages, cost, seams, lim>>
loopVars  == <<k, pending, cursor, end>>
vars == <<probeVars, pc, eff, chunks, natural, loopVars, replanned>>

Init == /\ \E p \in Probes : /\ pages = p.pages
                             /\ cost = p.cost
                             /\ seams = p.seams
        /\ lim \in Limits
        /\ pc = "size"
        /\ eff = 0
        /\ chunks = <<>>
        /\ natural = FALSE
        /\ k = 1 /\ pending = <<>>
        /\ cursor = 1 /\ end = 1
        /\ replanned = FALSE

AtMost(a, b)  == IF a < b THEN a ELSE b
AtLeast(a, b) == IF a > b THEN a ELSE b

-----------------------------------------------------------------------------
(* Chunk size.                                                             *)

\* Mutant: the share of a worker is not looked at.
AdaptiveParallelOnly ==
    AtLeast(AtMost(pages \div AtLeast(MinChunks, lim.parallel), lim.ceiling), MinPagesFloor)

\* The most pages whose estimated output fits a worker, less if parallel
\* workers would otherwise idle, clamped into [MinPagesFloor, ceiling].
AdaptiveMaxPages ==
    IF pages = 0 THEN MinPagesFloor
    ELSE IF cost = 0 THEN lim.ceiling
    ELSE LET pagesByRAM == (lim.budget * pages) \div cost
             pagesByParallelism == pages \div AtLeast(MinChunks, lim.parallel)
             optimal == IF pages > MinPagesFloor
                        THEN AtMost(pagesByRAM, pagesByParallelism)
                        ELSE pagesByRAM
         IN  AtLeast(AtMost(optimal, lim.ceiling), MinPagesFloor)

Adapt ==
    /\ pc = "size"
    /\ eff' = AtLeast(AtMost(AdaptiveMaxPages, lim.maxPages), lim.least)
    /\ pc' = "plan"
    /\ UNCHANGED <<probeVars, chunks, natural, loopVars, replanned>>

-----------------------------------------------------------------------------
(* PlanChunks.                                                             *)

\* EstimateChunkMB(n) <= maxMB, and n <= maxPages
Fits(n) == n <= eff /\ n * cost <= lim.maxMB * pages

PlanChunks ==
    /\ pc = "plan"
    /\ pc' = IF pages = 0 THEN "done"
             ELSE IF seams # <<>> THEN "seams" ELSE "split"
    /\ UNCHANGED <<probeVars, eff, chunks, natural, loopVars, replanned>>

Span(c) == c.to - c.from + 1

\* Mutant: the seam that does not fit is dropped.
NextGroupDrops(s) == chunks' = Append(chunks, pending[1]) /\ pending' = <<>>
NextGroup(s) == chunks' = Append(chunks, pending[1]) /\ pending' = <<s>>

\* One iteration of groupSeams: the seam joins the group, or starts the next.
GroupSeam ==
    /\ pc = "seams" /\ k <= Len(seams)
    /\ LET s == seams[k] IN
       IF pending = <<>>
       THEN pending' = <<s>> /\ UNCHANGED chunks
       ELSE IF Fits(Span(pending[1]) + Span(s))
       THEN pending' = <<[from |-> pending[1].from, to |-> s.to]>> /\ UNCHANGED chunks
       ELSE NextGroup(s)
    /\ k' = k + 1
    /\ UNCHANGED <<probeVars, pc, eff, natural, cursor, end, replanned>>

\* The last group.
EndSeams ==
    /\ pc = "seams" /\ k > Len(seams)
    /\ chunks' = chunks \o pending
    /\ pending' = <<>>
    /\ natural' = TRUE
    /\ pc' = "balance"
    /\ UNCHANGED <<probeVars, eff, k, cursor, end, replanned>>

\* The pages of all chunks: totalMB, in units of one page's estimate.
PlannedPages ==
    LET planned[i \in 0..Len(chunks)] == IF i = 0 THEN 0 ELSE planned[i - 1] + Span(chunks[i])
    IN  planned[Len(chunks)]

\* Within 1.5 times the limits; a chunk's share of the plan's summed estimate.
IsBalanced ==
    \A i \in 1..Len(chunks) :
        /\ 2 * Span(chunks[i]) <= 3 * eff
        /\ 2 * PlannedPages * cost * Span(chunks[i]) <= 3 * lim.maxMB * pages * pages

Balance ==
    /\ pc = "balance"
    /\ IF IsBalanced
       THEN pc' = "done" /\ UNCHANGED <<chunks, natural>>
       ELSE pc' = "split" /\ chunks' = <<>> /\ natural' = FALSE
    /\ UNCHANGED <<probeVars, eff, loopVars, replanned>>

\* for cursor <= PageCount
Split ==
    /\ pc = "split"
    /\ IF cursor <= pages
       THEN pc' = "grow" /\ end' = cursor
       ELSE pc' = "done" /\ UNCHANGED end
    /\ UNCHANGED <<probeVars, eff, chunks, natural, k, pending, cursor, replanned>>

\* Mutant: the page limit is exceeded by one.
GrowsOneMore == end + 1 <= pages /\ Fits(end + 1 - cursor)
Grows == end + 1 <= pages /\ Fits(end + 1 - cursor + 1)

\* Mutant: a page that does not fit by itself is not taken.
CompleteIfFits ==
    IF Fits(1) THEN /\ chunks' = Append(chunks, [from |-> cursor, to |-> end])
                    /\ cursor' = end + 1
               ELSE UNCHANGED <<chunks, cursor>>
Complete == /\ chunks' = Append(chunks, [from |-> cursor, to |-> end])
            /\ cursor' = end + 1

\* One iteration of the inner loop: a page more, or the chunk is complete.
Grow ==
    /\ pc = "grow"
    /\ IF Grows
       THEN end' = end + 1 /\ UNCHANGED <<pc, chunks, cursor>>
       ELSE Complete /\ pc' = "split" /\ UNCHANGED end
    /\ UNCHANGED <<probeVars, eff, natural, k, pending, replanned>>

\* dispatchPool: the loaded document has another page count than the probe
\* said.  The plan is made again, without seams and for the old effMaxPages.
Replan ==
    /\ pc = "done" /\ ~replanned /\ Len(chunks) >= PoolMinChunks
    /\ \E actual \in PageCounts \ {pages} : pages' = actual
    /\ seams' = <<>>
    /\ pc' = "plan" /\ chunks' = <<>> /\ natural' = FALSE
    /\ k' = 1 /\ pending' = <<>> /\ cursor' = 1 /\ end' = 1
    /\ replanned' = TRUE
    /\ UNCHANGED <<cost, lim, eff>>

Terminated == pc = "done" /\ UNCHANGED vars

Step == Adapt \/ PlanChunks \/ GroupSeam \/ EndSeams \/ Balance \/ Split \/ Grow
Next == Step \/ Replan \/ Terminated
Spec == Init /\ [][Next]_vars
\* The planner is sequential code without waits: it keeps running.
FairSpec == Spec /\ WF_vars(Step)

-----------------------------------------------------------------------------
(* Properties.                                                             *)

\* Types.
TypeOK ==
    /\ pages \in Nat /\ cost \in Nat /\ lim \in Limits
    /\ pc \in {"size", "plan", "seams", "balance", "split", "grow", "done"}
    /\ eff \in Nat
    /\ seams \in Seq(PageRange) /\ chunks \in Seq(PageRange) /\ pending \in Seq(PageRange)
    /\ Len(pending) <= 1
    /\ natural \in BOOLEAN /\ replanned \in BOOLEAN
    /\ k \in 1..(Len(seams) + 1) /\ cursor \in Nat /\ end \in Nat

\* types.go: a ChunkPlan is an ordered, complete, non-overlapping cover of
\* [1..TotalPages], by whichever loops it was made.
PlanCovers == pc = "done" => Tiles(chunks, pages)

\* Pages a chunk of a page-range plan may have.
PerChunk == AtLeast(1, AtMost(eff, IF cost = 0 THEN eff ELSE (lim.maxMB * pages) \div cost))

\* pageRangeSplit computes the plan one would write down: all chunks as large
\* as page and size limit allow, the last one with what is left.
RangesGreedy ==
    /\ Len(chunks) = (pages + PerChunk - 1) \div PerChunk
    /\ \A i \in 1..Len(chunks) :
          chunks[i] = [from |-> (i - 1) * PerChunk + 1, to |-> AtMost(i * PerChunk, pages)]

\* groupSeams cuts no seam in two, puts several into a chunk only if they fit
\* together and the next one would not; the plan is used only if no chunk
\* exceeds either limit by more than half.
SeamsGreedy ==
    \A i \in 1..Len(chunks) :
        LET c == chunks[i] IN
        /\ \E a, b \in 1..Len(seams) :
              /\ c.from = seams[a].from /\ c.to = seams[b].to
              /\ a < b => Fits(Span(c))
              /\ b < Len(seams) => ~Fits(Span(c) + Span(seams[b + 1]))
        /\ 2 * Span(c) <= 3 * eff /\ 2 * cost * Span(c) <= 3 * lim.maxMB * pages

\* What the loops of PlanChunks compute is the greedy plan, of either kind.
PlanIsGreedy == pc = "done" => IF natural THEN SeamsGreedy ELSE RangesGreedy

\* A chunk with more pages than the floors ask for is estimated to fit the
\* worker that renders it (page-range plans from the probe's page count).
FitsWorker ==
    pc = "done" /\ ~natural /\ ~replanned =>
        \A i \in 1..Len(chunks) :
            \/ Span(chunks[i]) <= AtLeast(MinPagesFloor, lim.least)
            \/ Span(chunks[i]) * cost <= lim.budget * pages

\* The loops end, also when not even one page fits, and again after a replan.
PlanEnds == (pc # "done") ~> (pc = "done")
=============================================================================
