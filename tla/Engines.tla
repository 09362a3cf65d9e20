------------------------------ MODULE Engines ------------------------------
(***************************************************************************)
(* One request on its way through the conversion engines, beside a poller  *)
(* of GET /health and an operator who changes the licence file:            *)
(*   - the licence check and the routing of POST /v1/convert and           *)
(*     POST /v1/convert/html/{engine} (internal/server);                   *)
(*   - format detection and the two-tier probe (internal/probe), up to the *)
(*     page count that ConvertJob plans with;                              *)
(*   - the one-shot worker process (runWorkerBin, internal/worker), with   *)
(*     its two pipe readers, its Wait goroutine and its timer;             *)
(*   - the e-mail pipeline, LibreOffice and the Gotenberg client.          *)
(* A worker may refuse, crash or hang; what its libraries answer, and what *)
(* qpdf and soffice do, is external.                                       *)
(***************************************************************************)
EXTENDS License

CONSTANTS
    Req,        \* the request's goroutine; the other Callers poll /health
    Endpoints,  \* subset of {"convert", "html/aspose", "html/gotenberg"}
    Docs        \* the documents that may be uploaded

ASSUME EnginesAssumption ==
    /\ Req \in Callers
    /\ Endpoints \subseteq {"convert", "html/aspose", "html/gotenberg"}
    /\ Docs \subseteq [magic : {"pdf", "zip", "ole2", "rtf", "image", "html", "eml", "other"},
                       mime : STRING, main : {"docx", "pptx", "xlsx", "none"},
                       streams : SUBSET {"docx", "pptx", "xlsx"}, ext : STRING,
                       size : Nat, pages : Int, slides : Nat,
                       real : {"docx", "pptx", "xlsx", "pdf", "none"}]

VARIABLES
    doc,        \* the document, as the sniffers and the workers see it
    endpoint,   \* the route that the request came by
    req,        \* the handler's position and locals
    run,        \* the process that the handler runs, and its pipes
    made,       \* the files in the scratch directory: "mht" and "pdf"
    fate,       \* history: what went wrong outside the orchestrator
    calm        \* history: licence and date are as at the handler's os.Stat

engineVars == <<doc, endpoint, req, run, made, fate, calm>>
vars == <<licenseVars, engineVars>>

-----------------------------------------------------------------------------
(* Format detection, internal/probe/probe.go.  doc.magic is the first of   *)
(* DetectFormat's sniffs that the head of the file satisfies: no two of    *)
(* them share a beginning.                                                 *)

OdfMimetypeToFormat == [odt |-> "docx", ods |-> "xlsx", odp |-> "pptx", odg |-> "odg"]
UnrenderableODFSubtypes == {"formula", "base"}

ClassifyByContentTypes(main) == IF main \in {"docx", "pptx", "xlsx"} THEN main ELSE "docx"

\* mimetype of an ODF package, else [Content_Types].xml; what is no archive or
\* has neither is taken for a docx.
InspectOOXMLPath(d) ==
    CASE d.mime \in DOMAIN OdfMimetypeToFormat -> OdfMimetypeToFormat[d.mime]
      [] d.mime \in UnrenderableODFSubtypes   -> "unsupported"
      [] OTHER                                -> ClassifyByContentTypes(d.main)

Ole2ExtToFormat == [doc |-> "docx", ppt |-> "pptx", xls |-> "xlsx"]

\* Streams named in the first 512 KiB, docx > pptx > xlsx, else the extension.
ClassifyOLE2(d) ==
    IF      "docx" \in d.streams THEN "docx"
    ELSE IF "pptx" \in d.streams THEN "pptx"
    ELSE IF "xlsx" \in d.streams THEN "xlsx"
    ELSE IF d.ext \in DOMAIN Ole2ExtToFormat THEN Ole2ExtToFormat[d.ext] ELSE "unsupported"

DetectImageFormat(d) == d.magic = "image"
LooksLikeHTML(d)     == d.magic = "html"
LooksLikeEML(d)      == d.magic = "eml"
HasHTMLExtension(d)  == d.ext = "html"
IsHTMLUpload(d)      == LooksLikeHTML(d) \/ HasHTMLExtension(d)

DetectFormat(d) ==
    CASE d.magic = "pdf"      -> "pdf"
      [] d.magic = "zip"      -> InspectOOXMLPath(d)
      [] d.magic = "ole2"     -> ClassifyOLE2(d)
      [] d.magic = "rtf"      -> "docx"
      [] DetectImageFormat(d) -> "image"
      [] LooksLikeHTML(d)     -> "html"
      [] LooksLikeEML(d)      -> "eml"
      [] OTHER -> IF HasHTMLExtension(d) THEN "html" ELSE "unsupported"

LibreofficeFormats == {"odg", "image"}

-----------------------------------------------------------------------------
(* The metadata probe, internal/probe/probe_lite.go.  Sizes are in units   *)
(* of 1000 bytes; 0 stands for "no count".                                 *)

StaleMetadataSizeThreshold == 200
BytesPerPageEstimate == [docx |-> 20, pptx |-> 100, xlsx |-> 50, pdf |-> 30]

EstimatePagesFromSize(size, format) ==
    LET est == size \div BytesPerPageEstimate[format] IN IF est < 1 THEN 1 ELSE est

\* ooxmlCount: <Pages> or <Slides> of docProps/app.xml is d.pages.
ProbeLite(d, format, qpdfPages) ==
    CASE format = "docx" -> IF d.pages <= 0 \/ (d.pages = 1 /\ d.size > StaleMetadataSizeThreshold)
                            THEN EstimatePagesFromSize(d.size, format) ELSE d.pages
      [] format = "pptx" -> IF d.pages > 0 THEN d.pages
                            ELSE IF d.slides > 0 THEN d.slides
                            ELSE EstimatePagesFromSize(d.size, format)
      [] format = "pdf"  -> qpdfPages
      [] OTHER           -> 0

\* Mutant: the retry is for documents that have the hinted format already.
MismatchRetrySame(hint, format) ==
    CASE hint = "word doc" /\ format = "docx" -> "docx"
      [] hint \in {"excel", "workbook"} /\ format = "xlsx" -> "xlsx"
      [] hint \in {"powerpoint", "presentation"} /\ format = "pptx" -> "pptx"
      [] OTHER -> "none"

\* The format that a refusal hints at, with the precedence of the code: a
\* message with "excel" makes even the xlsx worker's refusal be retried.
MismatchRetryFormat(hint, format) ==
    CASE hint = "word doc" /\ format # "docx" -> "docx"
      [] hint = "excel" \/ (hint = "workbook" /\ format # "xlsx") -> "xlsx"
      [] hint = "powerpoint" \/ (hint = "presentation" /\ format # "pptx") -> "pptx"
      [] OTHER -> "none"

\* External: how a worker may name the kind of document that it was given.
Hints(real) ==
    {"vague"} \cup CASE real = "docx" -> {"word doc"}
                     [] real = "xlsx" -> {"excel", "workbook"}
                     [] real = "pptx" -> {"powerpoint", "presentation"}
                     [] OTHER         -> {}

-----------------------------------------------------------------------------
NoRun == [proc |-> "none", code |-> 0, out |-> "empty", diag |-> "empty",
          hint |-> "vague", child |-> FALSE, reaped |-> FALSE]

Init ==
    /\ LicenseInit
    /\ doc \in Docs
    /\ endpoint \in Endpoints
    /\ req = [at |-> "gate", stage |-> "none", format |-> "none", pages |-> 0, err |-> "none"]
    /\ run = NoRun
    /\ made = [mht |-> "none", pdf |-> "none"]
    /\ fate = {}
    /\ calm = TRUE

Ended == req.at = "ended"

\* The request is answered: with a result if e is "none", else with an error.
End(e) == req' = [req EXCEPT !.at = "ended", !.err = e]

Start(stage, format) == req' = [req EXCEPT !.at = "spawn", !.stage = stage, !.format = format]

HasGate == endpoint # "html/gotenberg"

IsCSVFilename == doc.ext = "csv"

\* Past the licence check; only POST /v1/convert takes CSV.
Admitted == req' = [req EXCEPT !.at = IF endpoint = "convert" /\ IsCSVFilename
                                      THEN "csv" ELSE "dispatch"]

\* The licence check of convert and convertHTML.  A refusal asks for the
\* expiry date once more, to report it.
Gate ==
    /\ req.at = "gate"
    /\ IF ~HasGate
       THEN Admitted /\ UNCHANGED ask
       ELSE /\ ask[Req].at = "judged"
            /\ IF ask[Req].problem = "none"
               THEN Admitted /\ UNCHANGED ask
               ELSE IF endpoint = "convert" /\ ask[Req].problem # "license_expired"
               THEN End("license_expired") /\ UNCHANGED ask
               ELSE /\ req' = [req EXCEPT !.at = "date", !.err = "license_expired"]
                    /\ ask' = [ask EXCEPT ![Req].at = "idle"]
    /\ UNCHANGED <<file, today, mu, mgr, changes, during, used, reused>>
    /\ UNCHANGED <<doc, endpoint, run, made, fate, calm>>

GateDate ==
    /\ req.at = "date" /\ ask[Req].at = "dated"
    /\ End(req.err)
    /\ UNCHANGED <<licenseVars, doc, endpoint, run, made, fate, calm>>

\* The upload is rewritten as a workbook, ...
CSVBytesToXLSXBytes(d) == [d EXCEPT !.magic = "zip", !.main = "xlsx", !.real = "xlsx"]

\* ... of which a failed write, whose error is dropped, leaves a part or nothing.
CutShort(d) == {[d EXCEPT !.magic = "zip", !.real = "none"],
                [d EXCEPT !.magic = "other", !.real = "none"]}

\* What is no CSV stays as it is; a workbook beyond the size limit is refused.
NormalizeCSV ==
    /\ req.at = "csv"
    /\ \/ /\ doc' \in {doc, CSVBytesToXLSXBytes(doc)} \cup CutShort(doc)
          /\ req' = [req EXCEPT !.at = "dispatch"]
       \/ End("input_too_large") /\ UNCHANGED doc
    /\ UNCHANGED <<licenseVars, endpoint, run, made, fate, calm>>

\* Detection and the choice of the producer.
Dispatch ==
    /\ req.at = "dispatch"
    /\ \/ /\ endpoint = "html/gotenberg"
          /\ IF IsHTMLUpload(doc) THEN req' = [req EXCEPT !.at = "post"] ELSE End("input_unprocessable")
       \/ /\ endpoint = "html/aspose"
          /\ IF IsHTMLUpload(doc) THEN Start("html", "docx") ELSE End("input_unprocessable")
       \/ /\ endpoint = "convert"
          /\ LET f == DetectFormat(doc) IN
             CASE f \in {"unsupported", "html"} -> End("unsupported_format")
               [] f \in LibreofficeFormats -> Start("office", f)
               [] f = "eml" -> Start("mht", "email")
               [] OTHER -> req' = [req EXCEPT !.at = "lite", !.format = f]
    /\ UNCHANGED <<licenseVars, doc, endpoint, run, made, fate, calm>>

\* The metadata probe is tried before the worker.
Counted(pages) == IF pages > 0 THEN req' = [req EXCEPT !.at = "ended", !.pages = pages]
                  ELSE Start("probe", req.format)

Probe ==
    /\ req.at = "lite"
    /\ IF req.format = "pdf" THEN req' = [req EXCEPT !.at = "qpdf"]
                             ELSE Counted(ProbeLite(doc, req.format, 0))
    /\ UNCHANGED <<licenseVars, doc, endpoint, run, made, fate, calm>>

\* qpdfPageCount: `qpdf --show-npages`, run without a timer, counts or fails.
QpdfPageCount ==
    /\ req.at = "qpdf"
    /\ \E n \in IF doc.real = "pdf" THEN {0, doc.pages} ELSE {0} :
          Counted(ProbeLite(doc, req.format, n))
    /\ UNCHANGED <<licenseVars, doc, endpoint, run, made, fate, calm>>

-----------------------------------------------------------------------------
(* runWorkerBin and, for LibreOffice, runWithTimeout.                      *)

\* A stage of the request has failed.  A retried probe reports the error of
\* the probe before it.
StageFails(e) == End(IF req.stage = "retry" THEN "input_unprocessable" ELSE e)

Spawn ==
    /\ req.at = "spawn"
    /\ \/ /\ run' = [NoRun EXCEPT !.proc = "started"]
          /\ req' = [req EXCEPT !.at = "wait"]
          /\ UNCHANGED fate
       \/ /\ StageFails("render_failed")
          /\ fate' = fate \cup {"unspawned"}
          /\ UNCHANGED run
    /\ UNCHANGED <<licenseVars, doc, endpoint, made, calm>>

Target == IF req.stage = "mht" THEN "mht" ELSE "pdf"
Probing == req.stage \in {"probe", "retry", "pages"}

\* External: what SetLicense of the worker's library accepts.
LicenceHolds == file.content.kind = "licence" /\ \A d \in file.content.dates : today <= d

\* The worker process applies the licence, ...
ApplyLicense ==
    /\ run.proc = "started" /\ req.stage # "office"
    /\ IF LicenceHolds
       THEN run' = [run EXCEPT !.proc = "working"] /\ UNCHANGED fate
       ELSE /\ run' = [run EXCEPT !.proc = "exited", !.code = 2, !.diag = "full"]
            /\ fate' = fate \cup {"licence"}
    /\ UNCHANGED <<licenseVars, doc, endpoint, req, made, calm>>

\* ... and prints the probe result, or writes the output file and exits with 0,
CanOpen == req.stage \in {"probe", "retry"} => doc.real = req.format

WorkerSucceeds ==
    /\ run.proc = "working" /\ req.stage # "office" /\ CanOpen
    /\ run' = [run EXCEPT !.proc = "exited", !.out = IF Probing THEN "full" ELSE "empty"]
    /\ IF Probing THEN UNCHANGED made
       ELSE \E x \in {"whole", "junk", "none"} : made' = [made EXCEPT ![Target] = x]
    /\ UNCHANGED <<licenseVars, doc, endpoint, req, fate, calm>>

\* or finds that it cannot open the file (in probe mode, exit code 3),
WorkerRefuses ==
    /\ run.proc = "working" /\ Probing
    /\ \E h \in IF CanOpen THEN {"vague"} ELSE Hints(doc.real) :
          /\ run' = [run EXCEPT !.proc = "exited", !.code = 3, !.diag = "full", !.hint = h]
          /\ fate' = fate \cup (IF h = "vague" THEN {"vague"} ELSE {})
    /\ UNCHANGED <<licenseVars, doc, endpoint, req, made, calm>>

\* or fails otherwise: 1, 137 (bad_alloc), or a signal, whose ExitCode() is -1.
WorkerFails ==
    /\ run.proc = "working" /\ req.stage # "office"
    /\ \E c \in {1, 137, -1} : run' = [run EXCEPT !.proc = "exited", !.code = c, !.diag = "full"]
    /\ IF Probing THEN UNCHANGED made
       ELSE \E x \in {"none", "partial"} : made' = [made EXCEPT ![Target] = x]
    /\ fate' = fate \cup {"crashed"}
    /\ UNCHANGED <<licenseVars, doc, endpoint, req, calm>>

\* External: soffice starts soffice.bin, which inherits its pipes, ...
SofficeForks ==
    /\ run.proc = "started" /\ req.stage = "office"
    /\ run' = [run EXCEPT !.proc = "working", !.child = TRUE]
    /\ UNCHANGED <<licenseVars, doc, endpoint, req, made, fate, calm>>

\* ... which ends with a PDF or without, also when the launcher is gone,
SofficeBinEnds ==
    /\ run.child
    /\ run' = [run EXCEPT !.child = FALSE]
    /\ \E x \in {"whole", "none"} : made' = [made EXCEPT !.pdf = x]
    /\ UNCHANGED <<licenseVars, doc, endpoint, req, fate, calm>>

\* and the launcher ends, with 0 only after its child.
SofficeExits ==
    /\ req.stage = "office" /\ run.proc \in {"started", "working"}
    /\ \E c \in IF run.proc = "working" /\ ~run.child THEN {0, 1} ELSE {1} :
          run' = [run EXCEPT !.proc = "exited", !.code = c]
    /\ UNCHANGED <<licenseVars, doc, endpoint, req, made, fate, calm>>

-----------------------------------------------------------------------------
Open(pipe) == run.proc # "none" /\ ~run.reaped /\ run[pipe] = "full"

\* io.ReadAll in the goroutines of the two pipes.
ReadPipe(pipe) ==
    /\ Open(pipe)
    /\ run' = [run EXCEPT ![pipe] = "read"]
    /\ UNCHANGED <<licenseVars, doc, endpoint, req, made, fate, calm>>

Lost(pipe) == IF run[pipe] = "full" THEN "lost" ELSE run[pipe]

\* cmd.Wait in its goroutine.  With StdoutPipe it closes the read ends as soon
\* as the process is reaped, whatever is left in the pipes; with a Builder as
\* cmd.Stdout it first waits until nobody holds the write ends.
Wait ==
    /\ run.proc = "exited" /\ ~run.reaped
    /\ req.stage = "office" => ~run.child
    /\ run' = [run EXCEPT !.reaped = TRUE, !.out = Lost("out"), !.diag = Lost("diag")]
    /\ fate' = fate \cup (IF "full" \in {run.out, run.diag} THEN {"cut"} ELSE {})
    /\ UNCHANGED <<licenseVars, doc, endpoint, req, made, calm>>

\* Mutant: the timer gives the process up without killing it.
GiveUp == UNCHANGED run

\* cmd.Process.Kill(): of the process itself, not of its children.
Kill == run' = IF run.proc = "exited" THEN run ELSE [run EXCEPT !.proc = "exited", !.code = -1]

\* <-time.After(timeout), which select may prefer to a process that is done.
Timeout ==
    /\ req.at = "wait"
    /\ Kill
    /\ req' = [req EXCEPT !.at = "killed"]
    /\ made' \in IF run.proc = "exited" \/ Probing \/ req.stage = "office" THEN {made}
                 ELSE {[made EXCEPT ![Target] = x] : x \in {"none", "partial"}}
    /\ fate' = fate \cup {"timeout"}
    /\ UNCHANGED <<licenseVars, doc, endpoint, calm>>

\* <-done; rwg.Wait(); the timeout error.
Killed ==
    /\ req.at = "killed" /\ run.reaped
    /\ StageFails("render_failed")
    /\ UNCHANGED <<licenseVars, doc, endpoint, run, made, fate, calm>>

\* Mutant: death by a signal, which has no exit code, is taken for success.
MapSignalToOK(rc) ==
    CASE rc \in {0, -1} -> "none"
      [] rc = 2         -> "license_expired"
      [] rc = 3         -> "input_unprocessable"
      [] OTHER          -> "render_failed"

\* mapExitCode with a nil chunk, for which an OOM is a render failure too.
MapExitCode(rc) ==
    CASE rc = 0 -> "none"
      [] rc = 2 -> "license_expired"
      [] rc = 3 -> "input_unprocessable"
      [] OTHER  -> "render_failed"

\* LibreOffice's exit codes are not the workers'.
ErrorOf(rc) == IF req.stage = "office" THEN IF rc = 0 THEN "none" ELSE "render_failed"
               ELSE MapExitCode(rc)

Finished(e) == req.at = "wait" /\ run.reaped /\ ErrorOf(run.code) = e

-----------------------------------------------------------------------------
(* What the callers of runWorkerBin do with its result.                    *)

\* The hint is looked for in the part of stderr that was read.
RetryFormat == IF run.diag = "read" THEN MismatchRetryFormat(run.hint, req.format) ELSE "none"

\* Probe retries a refused document once, as the format hinted at; everyone
\* else returns the error.
RunFailed ==
    /\ \E e \in {"license_expired", "input_unprocessable", "render_failed"} :
          /\ Finished(e)
          /\ IF e = "input_unprocessable" /\ req.stage = "probe" /\ RetryFormat # "none"
             THEN Start("retry", RetryFormat)
             ELSE StageFails(e)
    /\ UNCHANGED <<licenseVars, doc, endpoint, run, made, fate, calm>>

\* ParseProbeJSON: what Wait cut off is not JSON.  A worker may count 0 pages.
ProbeDone ==
    /\ Finished("none") /\ req.stage \in {"probe", "retry"}
    /\ IF run.out = "read"
       THEN \E n \in {0, 1} : req' = [req EXCEPT !.at = "ended", !.pages = n]
       ELSE StageFails("input_unprocessable")
    /\ UNCHANGED <<licenseVars, doc, endpoint, run, made, fate, calm>>

\* email.ConvertToPDF: EML to MHT, the MHT's page count, MHT to PDF.
MhtDone ==
    /\ Finished("none") /\ req.stage = "mht"
    /\ IF made.mht = "none" THEN End("render_failed") ELSE Start("pages", "docx")
    /\ UNCHANGED <<licenseVars, doc, endpoint, run, made, fate, calm>>

PagesDone ==
    /\ Finished("none") /\ req.stage = "pages"
    /\ \E n \in {0, 1} : IF run.out # "read" \/ n < 1 THEN End("render_failed") ELSE Start("pdf", "docx")
    /\ UNCHANGED <<licenseVars, doc, endpoint, run, made, fate, calm>>

\* The e-mail's PDF is not looked at, only for.
PdfDone ==
    /\ Finished("none") /\ req.stage = "pdf"
    /\ End(IF made.pdf = "none" THEN "render_failed" ELSE "none")
    /\ UNCHANGED <<licenseVars, doc, endpoint, run, made, fate, calm>>

\* LibreOffice's is, under whatever name.
OfficeDone ==
    /\ Finished("none") /\ req.stage = "office"
    /\ End(IF made.pdf = "none" THEN "render_failed" ELSE "none")
    /\ UNCHANGED <<licenseVars, doc, endpoint, run, made, fate, calm>>

\* RenderHTMLOneShot, then validatePDFMagic.
HtmlDone ==
    /\ Finished("none") /\ req.stage = "html"
    /\ End(IF made.pdf \in {"none", "junk"} THEN "render_failed" ELSE "none")
    /\ UNCHANGED <<licenseVars, doc, endpoint, run, made, fate, calm>>

-----------------------------------------------------------------------------
(* gotenberg.ConvertHTML: no form, no URL or no response within the        *)
(* client's timeout, a status, and the body that writePDF copies.          *)

\* buildForm cannot read the upload.
BuildFormFails == End("render_failed") /\ UNCHANGED <<made, fate>>

Answers == {"unavailable", "4xx", "5xx", "whole", "junk", "partial"}

\* A body that does not begin as a PDF is not copied.
WritePDF(a) == IF a \in {"whole", "partial"} THEN a ELSE "none"

ConvertHTML ==
    /\ req.at = "post"
    /\ \/ BuildFormFails
       \/ \E a \in Answers :
            /\ made' = [made EXCEPT !.pdf = WritePDF(a)]
            /\ fate' = fate \cup (IF a = "4xx" THEN {"rejected"} ELSE {})
            /\ End(CASE a = "whole"       -> "none"
                     [] a = "unavailable" -> "engine_unavailable"
                     [] a = "4xx"         -> "input_unprocessable"
                     [] OTHER             -> "render_failed")
    /\ UNCHANGED <<licenseVars, doc, endpoint, run, calm>>

-----------------------------------------------------------------------------
AskLicense(c) ==
    /\ c = Req => HasGate /\ (req.at = "gate" \/ (req.at = "date" /\ ask[c].at # "dated"))
    /\ ManagerStep(c)
    /\ calm' = (calm \/ (c = Req /\ ask[c].at = "idle"))
    /\ UNCHANGED <<doc, endpoint, req, run, made, fate>>

OperatorActs ==
    /\ OperatorStep
    /\ calm' = FALSE
    /\ UNCHANGED <<doc, endpoint, req, run, made, fate>>

Handler == \/ Gate \/ GateDate \/ NormalizeCSV \/ Dispatch \/ Probe \/ Spawn \/ Timeout \/ Killed
           \/ RunFailed \/ ProbeDone \/ MhtDone \/ PagesDone \/ PdfDone \/ OfficeDone
           \/ HtmlDone \/ ConvertHTML

Process == ApplyLicense \/ WorkerSucceeds \/ WorkerRefuses \/ WorkerFails
           \/ QpdfPageCount \/ SofficeForks \/ SofficeBinEnds \/ SofficeExits

Goroutine == Wait \/ \E p \in {"out", "diag"} : ReadPipe(p)

\* Everything is over; /health has been asked, the operator may have stopped.
Done == Ended /\ run.proc \in {"none", "exited"} /\ ~run.child /\ UNCHANGED vars

Next == \/ Handler \/ Process \/ Goroutine \/ OperatorActs \/ Done
        \/ \E c \in Callers : AskLicense(c)

\* The scheduler runs every goroutine and timers fire; a process may hang.
Fairness ==
    /\ WF_vars(Handler) /\ WF_vars(Goroutine)
    /\ \A c \in Callers : WF_vars(AskLicense(c))

Spec == Init /\ [][Next]_vars /\ Fairness

-----------------------------------------------------------------------------
(* Properties.                                                             *)

\* A worker refuses the licence of a request that has passed the check only if
\* the file or the date has changed since the check looked at the file, if it
\* found the file gone and went by a date read earlier, or if the file had the
\* mtime of another version of it.
GateForesees ==
    "licence" \in fate /\ calm =>
        file.content = Absent \/ ask[Req].stat \in reused

\* A document is called unprocessable because no worker can open it, because a
\* worker gave no reason, because the end of a worker's output was lost when
\* Wait closed the pipes, or because the retry failed for a reason of its own.
\* So a mislabelled document that reaches the probing worker is not refused for
\* its label.  One that the metadata probe counts never reaches it: see OkIsBacked.
RefusalHasCause ==
    Ended /\ req.err = "input_unprocessable" =>
        \/ endpoint = "convert" /\ doc.real = "none"
        \/ endpoint # "convert" /\ (~IsHTMLUpload(doc) \/ "rejected" \in fate)
        \/ fate \cap {"vague", "cut", "unspawned", "licence", "crashed", "timeout"} # {}

\* A request that has no error has its result: a page count that was counted or
\* read to the end, from a worker that can open the document, or a PDF that its
\* engine finished.  A count from metadata or from the size says nothing of who
\* can open the document: a workbook named .doc is counted as a docx and goes on
\* to the docx renderer; only pdf and xlsx are sure to be what they are taken for.
\* Neither a process that was killed or crashed nor a
\* response that broke off can leave a partial PDF that is sent as a result.
OkIsBacked ==
    Ended /\ req.err = "none" =>
        CASE req.stage \in {"probe", "retry"} -> run.out = "read" /\ doc.real = req.format
          [] req.stage = "none" /\ endpoint = "convert" ->
                 req.pages >= 1 /\ (doc.real = req.format \/ req.format \in {"docx", "pptx"})
          [] OTHER -> made.pdf = "whole" \/ (endpoint = "convert" /\ made.pdf = "junk")

\* Whatever hangs, the request is answered and no process of it is left, unless
\* soffice.bin outlives the launcher that the timer killed (it keeps the pipes
\* that Wait waits for), or qpdf, which has no timer, never counts the pages.
EngineEnds ==
    \/ <>[](Ended /\ run.proc \in {"none", "exited"} /\ ~run.child)
    \/ <>[](run.child)
    \/ <>[](req.at = "qpdf")
=============================================================================
