------------------------------- MODULE Server -------------------------------
(***************************************************************************)
(* Concurrent requests to POST /v1/convert and /v1/convert/html/*: the     *)
(* handlers of internal/server/convert.go and convert_html.go, from the    *)
(* rate limiter to the release of the job slot, and the process's exit in  *)
(* cmd/orchestrator/main.go.  Requests share the semaphore of MaxJobs job  *)
(* slots, the activeJobs gauge, and the scratch root, where a request      *)
(* works under its request id.  The engines are opaque: ConvertJob models  *)
(* the Aspose one.                                                         *)
(***************************************************************************)
EXTENDS Naturals, FiniteSets

CONSTANTS
    Requests,
    Html,           \* the requests to the HTML endpoints
    S3Out,          \* the requests with s3_output
    Rid,            \* Rid[r]: r's X-Request-ID, its own or a fresh one
    MaxJobs,        \* settings.MaxJobs
    None            \* no request

ASSUME ServerAssumption ==
    /\ IsFiniteSet(Requests) /\ None \notin Requests
    /\ Html \subseteq Requests /\ S3Out \subseteq Requests \ Html
    /\ MaxJobs \in Nat \ {0}

Ids == {Rid[r] : r \in Requests}

VARIABLES
    server,     \* "up", "draining" (Shutdown called), "exited"
    pc,         \* pc[r]: where r's handler is
    sem,        \* places taken in srv.sem
    activeJobs, \* srv.activeJobs
    released,   \* the requests whose handler has run release()
    dir,        \* the ids whose scratch directory exists
    tmp,        \* tmp[i]: the request whose upload is in i/input.tmp
    input,      \* input[i]: the request whose upload is in i/input.<ext>
    doc,        \* doc[r]: the request whose document r's engine converted
    resp,       \* resp[r]: how r was answered
    rec,        \* rec[r]: r's entry in the recent-conversions store
    s3tmp,      \* the requests whose s3out temp file exists
    s3          \* the requests whose PDF was uploaded

slotVars    == <<sem, activeJobs, released>>
handlerVars == <<pc, slotVars>>
scratchVars == <<dir, tmp, input>>
resultVars  == <<doc, resp, rec, s3tmp, s3>>
vars        == <<server, handlerVars, scratchVars, resultVars>>

Init == /\ server = "up"
        /\ pc = [r \in Requests |-> "new"]
        /\ sem = 0
        /\ activeJobs = 0
        /\ released = {}
        /\ dir = {}
        /\ tmp = [i \in Ids |-> None]
        /\ input = [i \in Ids |-> None]
        /\ doc = [r \in Requests |-> None]
        /\ resp = [r \in Requests |-> "none"]
        /\ rec = [r \in Requests |-> "none"]
        /\ s3tmp = {}
        /\ s3 = {}

At(r, p)   == server # "exited" /\ pc[r] = p
Goto(r, p) == pc' = [pc EXCEPT ![r] = p]
Answer(r, a) == resp' = [resp EXCEPT ![r] = a]
Record(r, s) == rec' = [rec EXCEPT ![r] = s]

\* os.RemoveAll(scratchDir)
RemoveScratch(i) ==
    /\ dir' = dir \ {i}
    /\ tmp' = [tmp EXCEPT ![i] = None]
    /\ input' = [input EXCEPT ![i] = None]

-----------------------------------------------------------------------------
(* Admission.                                                              *)

\* Mutant: the scratch directory is made before a slot is taken.
ScratchBeforeSlot(r) ==
    /\ server = "up" /\ pc[r] = "new"
    /\ Goto(r, "admit")
    /\ dir' = dir \cup {Rid[r]}
    /\ UNCHANGED <<server, slotVars, tmp, input, resultVars>>

\* rl.Check: refused before it can take a slot, or let through.
RateLimit(r) ==
    /\ server = "up" /\ pc[r] = "new"
    /\ \/ Goto(r, "admit") /\ UNCHANGED resp
       \/ Goto(r, "done") /\ Answer(r, "limited")
    /\ UNCHANGED <<server, slotVars, scratchVars, doc, rec, s3tmp, s3>>

\* select { case srv.sem <- struct{}{}: default: 503 busy }
Admit(r) ==
    /\ At(r, "admit")
    /\ IF sem < MaxJobs
       THEN Goto(r, "admitted") /\ sem' = sem + 1 /\ UNCHANGED resp
       ELSE Goto(r, "done") /\ Answer(r, "busy") /\ UNCHANGED sem
    /\ UNCHANGED <<server, activeJobs, released, scratchVars, doc, rec, s3tmp, s3>>

CountActive(r) ==
    /\ At(r, "admitted")
    /\ Goto(r, "check")
    /\ activeJobs' = activeJobs + 1
    /\ UNCHANGED <<server, sem, released, scratchVars, resultVars>>

\* Wait options, licence, input source, output bucket: fail fast, no scratch yet.
Check(r) ==
    /\ At(r, "check")
    /\ \/ Goto(r, "mkdir") /\ UNCHANGED resp
       \/ Goto(r, "return") /\ Answer(r, "error")
    /\ UNCHANGED <<server, slotVars, scratchVars, doc, rec, s3tmp, s3>>

-----------------------------------------------------------------------------
(* The input.                                                              *)

MakeScratch(r) ==
    /\ At(r, "mkdir")
    /\ \/ Goto(r, "store") /\ dir' = dir \cup {Rid[r]} /\ UNCHANGED resp
       \/ Goto(r, "return") /\ Answer(r, "error") /\ UNCHANGED dir
    /\ UNCHANGED <<server, slotVars, tmp, input, doc, rec, s3tmp, s3>>

\* Mutant: every request stores its upload in the same file.
StoreInputShared(r) ==
    /\ At(r, "store") /\ Rid[r] \in dir
    /\ IF r \in Html
       THEN Goto(r, "produce") /\ input' = [i \in Ids |-> r] /\ UNCHANGED tmp
       ELSE Goto(r, "detect") /\ tmp' = [i \in Ids |-> r] /\ UNCHANGED input
    /\ UNCHANGED <<server, slotVars, dir, resultVars>>

\* Upload or S3 download into input.tmp (HTML: straight into input.html).
StoreInput(r) ==
    /\ At(r, "store") /\ Rid[r] \in dir
    /\ IF r \in Html
       THEN Goto(r, "produce") /\ input' = [input EXCEPT ![Rid[r]] = r] /\ UNCHANGED tmp
       ELSE Goto(r, "detect") /\ tmp' = [tmp EXCEPT ![Rid[r]] = r] /\ UNCHANGED input
    /\ UNCHANGED <<server, slotVars, dir, resultVars>>

\* DetectFormat (after a CSV is rewritten as XLSX), then the rename to input.<ext>.
DetectFormat(r) ==
    /\ At(r, "detect") /\ tmp[Rid[r]] # None
    /\ Goto(r, "produce")
    /\ input' = [input EXCEPT ![Rid[r]] = tmp[Rid[r]]]
    /\ tmp' = [tmp EXCEPT ![Rid[r]] = None]
    /\ UNCHANGED <<server, slotVars, dir, resultVars>>

\* Too large, empty, unreadable, not stored, not HTML or of no known format: the
\* scratch directory goes and nothing is recorded.  An HTML document on
\* /v1/convert is refused too, but recorded.
RejectInput(r) ==
    /\ At(r, "store") \/ At(r, "detect")
    /\ RemoveScratch(Rid[r])
    /\ Answer(r, "error")
    /\ \/ UNCHANGED rec
       \/ pc[r] = "detect" /\ tmp[Rid[r]] # None /\ Record(r, "failed")
    /\ Goto(r, "return")
    /\ UNCHANGED <<server, slotVars, doc, s3tmp, s3>>

-----------------------------------------------------------------------------
(* The engine, and finishStream.                                           *)

\* The engine opens the input by its path.  Without its temp file (CreateTemp
\* failed) finishStream goes on and uploads nothing.
ProduceStarts(r) ==
    /\ At(r, "produce") /\ input[Rid[r]] # None
    /\ doc' = [doc EXCEPT ![r] = input[Rid[r]]]
    /\ s3tmp' \in {s3tmp, s3tmp \cup ({r} \cap S3Out)}
    /\ Goto(r, "stream")
    /\ UNCHANGED <<server, slotVars, scratchVars, resp, rec, s3>>

\* Mutant: a failed engine is started again, without limit.
ProduceRetries(r) ==
    /\ At(r, "produce") \/ At(r, "stream")
    /\ Goto(r, "produce")
    /\ UNCHANGED <<server, slotVars, scratchVars, resultVars>>

\* produce failed before the first byte: a JSON error.
ProduceFails(r) ==
    /\ At(r, "produce") \/ At(r, "stream")
    /\ Answer(r, "error")
    /\ Record(r, "failed")
    /\ s3tmp' = s3tmp \ {r}
    /\ Goto(r, "sweep")
    /\ UNCHANGED <<server, slotVars, scratchVars, doc, s3>>

\* Mutant: the temp file of the S3 upload is not removed.
StreamBreaksKeepsTemp(r) ==
    /\ At(r, "stream")
    /\ Answer(r, "truncated")
    /\ Record(r, "failed")
    /\ Goto(r, "sweep")
    /\ UNCHANGED <<server, slotVars, scratchVars, doc, s3tmp, s3>>

\* Mutant: 200 was sent, so the conversion counts as a success.
StreamBreaksAsSuccess(r) ==
    /\ At(r, "stream")
    /\ Answer(r, "truncated")
    /\ Record(r, "success")
    /\ s3tmp' = s3tmp \ {r}
    /\ Goto(r, "sweep")
    /\ UNCHANGED <<server, slotVars, scratchVars, doc, s3>>

\* It failed later: the status is out already, the body just ends.
StreamBreaks(r) ==
    /\ At(r, "stream")
    /\ Answer(r, "truncated")
    /\ Record(r, "failed")
    /\ s3tmp' = s3tmp \ {r}
    /\ Goto(r, "sweep")
    /\ UNCHANGED <<server, slotVars, scratchVars, doc, s3>>

StreamEnds(r) ==
    /\ At(r, "stream")
    /\ Answer(r, "pdf")
    /\ Goto(r, IF r \in s3tmp THEN "upload" ELSE "record")
    /\ UNCHANGED <<server, slotVars, scratchVars, doc, rec, s3tmp, s3>>

\* A failed upload is only logged.
Upload(r) ==
    /\ At(r, "upload")
    /\ s3' \in {s3, s3 \cup {r}}
    /\ s3tmp' = s3tmp \ {r}
    /\ Goto(r, "record")
    /\ UNCHANGED <<server, slotVars, scratchVars, doc, resp, rec>>

\* recordConversion, after the upload and whatever became of it.
RecordSuccess(r) ==
    /\ At(r, "record")
    /\ Record(r, "success")
    /\ Goto(r, "sweep")
    /\ UNCHANGED <<server, slotVars, scratchVars, doc, resp, s3tmp, s3>>

\* finishStream's deferred RemoveAll.
Sweep(r) ==
    /\ At(r, "sweep")
    /\ RemoveScratch(Rid[r])
    /\ Goto(r, "release")
    /\ UNCHANGED <<server, slotVars, resultVars>>

\* The body of release(): <-srv.sem, then activeJobs.Add(-1) at next.
GiveBack(r, next) ==
    /\ sem > 0 /\ sem' = sem - 1
    /\ released' = released \cup {r}
    /\ Goto(r, next)

\* The explicit call, once finishStream has returned.
Release(r) ==
    /\ At(r, "release")
    /\ GiveBack(r, "uncount")
    /\ UNCHANGED <<server, activeJobs, scratchVars, resultVars>>

\* Mutant: the deferred call does not look at the flag.
ReturnReleasesAgain(r) ==
    /\ At(r, "return")
    /\ GiveBack(r, "lastUncount")
    /\ UNCHANGED <<server, activeJobs, scratchVars, resultVars>>

\* The deferred call, on every exit: nothing left to do if released is set.
Return(r) ==
    /\ At(r, "return")
    /\ IF r \in released
       THEN Goto(r, "done") /\ UNCHANGED <<sem, released>>
       ELSE GiveBack(r, "lastUncount")
    /\ UNCHANGED <<server, activeJobs, scratchVars, resultVars>>

UncountActive(r) ==
    /\ At(r, "uncount") \/ At(r, "lastUncount")
    /\ activeJobs' = activeJobs - 1
    /\ Goto(r, IF pc[r] = "uncount" THEN "return" ELSE "done")
    /\ UNCHANGED <<server, sem, released, scratchVars, resultVars>>

-----------------------------------------------------------------------------
(* main: SIGTERM calls httpSrv.Shutdown, upon which ListenAndServe returns *)
(* at once, and with it main.                                              *)

Shutdown ==
    /\ server = "up"
    /\ server' = "draining"
    /\ UNCHANGED <<handlerVars, scratchVars, resultVars>>

MainReturns ==
    /\ server = "draining"
    /\ server' = "exited"
    /\ UNCHANGED <<handlerVars, scratchVars, resultVars>>

-----------------------------------------------------------------------------
HandlerStep(r) == \/ RateLimit(r) \/ Admit(r) \/ CountActive(r) \/ Check(r)
                  \/ MakeScratch(r) \/ StoreInput(r) \/ DetectFormat(r) \/ RejectInput(r)
                  \/ ProduceStarts(r) \/ ProduceFails(r) \/ StreamBreaks(r) \/ StreamEnds(r)
                  \/ Upload(r) \/ RecordSuccess(r) \/ Sweep(r)
                  \/ Release(r) \/ Return(r) \/ UncountActive(r)

Terminated == /\ server = "exited" \/ \A r \in Requests : pc[r] = "done"
              /\ UNCHANGED vars

Next == \/ \E r \in Requests : HandlerStep(r)
        \/ Shutdown \/ MainReturns
        \/ Terminated

Spec == Init /\ [][Next]_vars

\* Where a handler waits for what may never come: its client's upload or its
\* download from S3, its engine and the reader of its stream, the upload to S3.
Outside == {"store", "stream", "upload"}

\* Handlers are scheduled; nothing is assumed of what they wait for.
FairSpec == Spec /\ \A r \in Requests : WF_vars(pc[r] \notin Outside /\ HandlerStep(r))

-----------------------------------------------------------------------------
(* Properties.                                                             *)

HandlerState == {"new", "admit", "admitted", "check", "mkdir", "store", "detect", "produce",
                 "stream", "upload", "record", "sweep", "release", "uncount", "return",
                 "lastUncount", "done"}

TypeOK ==
    /\ server \in {"up", "draining", "exited"}
    /\ pc \in [Requests -> HandlerState]
    /\ sem \in Nat /\ activeJobs \in Nat /\ released \subseteq Requests
    /\ dir \subseteq Ids
    /\ tmp \in [Ids -> Requests \cup {None}]
    /\ input \in [Ids -> Requests \cup {None}]
    /\ doc \in [Requests -> Requests \cup {None}]
    /\ resp \in [Requests -> {"none", "limited", "busy", "error", "truncated", "pdf"}]
    /\ rec \in [Requests -> {"none", "failed", "success"}]
    /\ s3tmp \subseteq Requests /\ s3 \subseteq Requests

\* The requests that own a place in the semaphore, or a count of activeJobs.
Holders == {r \in Requests : pc[r] \notin {"new", "admit", "done"} /\ r \notin released}
Counted == {r \in Requests : /\ pc[r] \notin {"new", "admit", "admitted", "done"}
                             /\ ~(pc[r] = "return" /\ r \in released)}

\* Job slots are neither leaked nor released twice, although release() is called
\* at the end of a handler and deferred on every exit: the semaphore counts
\* exactly the requests that are being served, at most MaxJobs of them, and the
\* activeJobs gauge follows.
SlotsBalance ==
    /\ sem = Cardinality(Holders) /\ sem <= MaxJobs
    /\ activeJobs = Cardinality(Counted)

\* Scratch space is bounded by the job slots: a directory is made by a request
\* that has a slot, and every exit removes it before it gives up the slot, so there
\* are never more directories than slots taken, at most MaxJobs.
ScratchWithinBudget == Cardinality(dir) <= sem

\* A served request leaves nothing behind in the scratch root or in /tmp.
NothingLeftBehind ==
    (\A r \in Requests : pc[r] = "done") => dir = {} /\ s3tmp = {}

\* A request converts its own upload.  Ids come from the clients, and requests
\* that share one share a scratch directory: only then, and only while both are
\* being served from it, may a request open the other's document.  It never gets
\* that of a request with another id, or what one that is over has left.
InScratch == {"store", "detect", "produce", "stream", "upload", "record", "sweep"}
MayConvert(r) == {q \in Requests : q = r \/ (Rid[q] = Rid[r] /\ pc[q] \in InScratch)}
ConvertsOwnInput ==
    [][\A r \in Requests : doc'[r] # doc[r] => doc'[r] \in MayConvert(r)]_vars

\* The history tells the truth.  The PDF is in the output bucket before the
\* conversion is recorded, but only if the client was sent the whole of it, and it
\* is never recorded as failed; once the handler goes on to clean up, the record
\* says success if and only if the client was sent the whole PDF.
Recorded == {"sweep", "release", "uncount", "return", "lastUncount", "done"}
HistoryTruthful ==
    \A r \in Requests :
        /\ rec[r] = "success" => resp[r] = "pdf"
        /\ r \in s3 => resp[r] = "pdf" /\ rec[r] # "failed"
        /\ pc[r] \in Recorded /\ resp[r] = "pdf" => rec[r] = "success"

\* Every request that is let through is answered, unless the process exits or the
\* request waits for ever on what is outside the handlers.
EveryRequestAnswered ==
    \A r \in Requests : \/ pc[r] = "admit" ~> (pc[r] = "done" \/ server = "exited")
                       \/ <>[](pc[r] \in Outside)
=============================================================================
