--------------------------- MODULE EnginesProofs ---------------------------
(***************************************************************************)
(* For any callers, licence files, documents and bounds: the licence       *)
(* manager's verdicts are fresh, the licence check foresees what the       *)
(* workers will say, and an engine's answer, refusal or result, has a      *)
(* cause or a backing.  The invariant has three parts: LicenseInv is about *)
(* the manager and the file, RunInv about the request and its processes,   *)
(* GateInv relates the two.                                                *)
(***************************************************************************)
EXTENDS Engines, TLAPS

-----------------------------------------------------------------------------
(* The licence manager.                                                    *)

Files    == Contents \cup {Absent}
Expiries == [kind : {"missing", "invalid", "permanent", "date"}, day : Int]
Problems == {"none", "license_path_missing", "license_invalid", "license_expired"}
Asks == [at : {"idle", "stat", "dated", "judged"}, stat : Nat,
         expiry : Expiries, problem : Problems]

LicenseTypes ==
    /\ file \in [content : Files, mtime : 1..MaxMtime]
    /\ today \in Nat
    /\ mu \in Callers \cup {Nobody}
    /\ mgr \in [read : BOOLEAN, modTime : Nat, expiry : Expiries]
    /\ ask \in [Callers -> Asks]
    /\ changes \in Nat
    /\ during \in [Callers -> SUBSET Files]
    /\ used \in SUBSET (1..MaxMtime) /\ reused \in SUBSET used

\* Between the stat and the parse, a caller has the mutex, has seen every version
\* of the file since, and the stat is the mtime of one of them, if there was one.
StatSound ==
    \A c \in Callers : ask[c].at = "stat" =>
        /\ mu = c
        /\ file.content \in during[c]
        /\ IF ask[c].stat = NoStat THEN Absent \in during[c] ELSE ask[c].stat \in used

\* The current file has had its mtime.  What the manager remembers is never an
\* error, and under its mtime there has been the file it was parsed from, or two.
KeptSound ==
    /\ file.mtime \in used
    /\ ~Failed(mgr.expiry)
    /\ ~mgr.read => mgr.modTime = NoStat
    /\ mgr.modTime # NoStat =>
          /\ mgr.modTime \in used
          /\ \/ mgr.modTime \in reused
             \/ file.mtime # mgr.modTime
             \/ file.content = Absent
             \/ mgr.expiry = Parsed(file.content)

\* A caller whose stat agrees with what is remembered may go by it.
HitSound ==
    \A c \in Callers :
        ask[c].at = "stat" /\ mgr.read /\ ask[c].stat = mgr.modTime /\ mgr.modTime # NoStat =>
            \/ \E x \in during[c] : mgr.expiry = Parsed(x)
            \/ Absent \in during[c]
            \/ mgr.modTime \in reused

LicenseInv == LicenseTypes /\ StatSound /\ KeptSound /\ HitSound /\ VerdictFresh

\* What parseExpiry returns, and that it is an error only of a file that is
\* absent or malformed.
LEMMA ParsedType ==
    ASSUME NEW x \in Files
    PROVE  Parsed(x) \in Expiries
  <1>1. CASE x = Absent
    BY <1>1 DEF Parsed, Expiry, Expiries
  <1>2. CASE x = Malformed
    BY <1>2 DEF Parsed, Expiry, Expiries, Absent, Malformed
  <1>3. ASSUME NEW d \in Licences, x = Licence(d) PROVE Parsed(x) \in Expiries
    <2>1. x # Absent /\ x # Malformed /\ x.dates = d
      BY <1>3 DEF Licence, Absent, Malformed
    <2>2. CASE d = {}
      BY <2>1, <2>2 DEF Parsed, Permanent, Expiry, Expiries
    <2>3. CASE d # {}
      <3>1. \E a \in d : \A b \in d : a <= b BY <2>3, LicenseAssumption
      <3>2. (CHOOSE a \in d : \A b \in d : a <= b) \in d BY <3>1
      <3>3. (CHOOSE a \in d : \A b \in d : a <= b) \in Int BY <3>2, LicenseAssumption
      <3>4. Parsed(x) = Expiry("date", CHOOSE a \in d : \A b \in d : a <= b)
        BY <2>1, <2>3 DEF Parsed
      <3> QED BY <3>3, <3>4 DEF Expiry, Expiries
    <2> QED BY <2>2, <2>3
  <1> QED BY <1>1, <1>2, <1>3 DEF Files, Contents

\* The earliest of a licence's dates, if it has any.
LEMMA ParsedDate ==
    ASSUME NEW d \in Licences, d # {}
    PROVE  LET e == Parsed(Licence(d)) IN
           /\ e.kind = "date" /\ e.day \in d
           /\ \A b \in d : e.day <= b
  <1>1. Licence(d) # Absent /\ Licence(d) # Malformed /\ Licence(d).dates = d
    BY DEF Licence, Absent, Malformed
  <1> DEFINE m == CHOOSE a \in d : \A b \in d : a <= b
  <1>2. \E a \in d : \A b \in d : a <= b BY LicenseAssumption
  <1>3. m \in d /\ \A b \in d : m <= b BY <1>2
  <1>4. Parsed(Licence(d)) = Expiry("date", m) BY <1>1 DEF Parsed
  <1> HIDE DEF m
  <1> QED BY <1>3, <1>4 DEF Expiry

\* The updates of a caller's record keep its type.
LEMMA AskTypes ==
    ASSUME NEW f \in [Callers -> Asks], NEW c \in Callers
    PROVE  /\ \A s \in Nat : [f EXCEPT ![c].at = "stat", ![c].stat = s] \in [Callers -> Asks]
           /\ \A e \in Expiries :
                 [f EXCEPT ![c].at = "dated", ![c].expiry = e] \in [Callers -> Asks]
           /\ \A p \in Problems :
                 [f EXCEPT ![c].at = "judged", ![c].problem = p] \in [Callers -> Asks]
           /\ [f EXCEPT ![c].at = "idle"] \in [Callers -> Asks]
  <1>1. f[c] \in Asks OBVIOUS
  <1>2. \A a \in Asks : [f EXCEPT ![c] = a] \in [Callers -> Asks]
    OBVIOUS
  <1>3. ASSUME NEW s \in Nat
        PROVE  [f EXCEPT ![c].at = "stat", ![c].stat = s] \in [Callers -> Asks]
    <2>1. [f[c] EXCEPT !.at = "stat", !.stat = s] \in Asks BY <1>1 DEF Asks
    <2> QED BY <1>2, <2>1
  <1>4. ASSUME NEW e \in Expiries
        PROVE  [f EXCEPT ![c].at = "dated", ![c].expiry = e] \in [Callers -> Asks]
    <2>1. [f[c] EXCEPT !.at = "dated", !.expiry = e] \in Asks BY <1>1 DEF Asks
    <2> QED BY <1>2, <2>1
  <1>5. ASSUME NEW p \in Problems
        PROVE  [f EXCEPT ![c].at = "judged", ![c].problem = p] \in [Callers -> Asks]
    <2>1. [f[c] EXCEPT !.at = "judged", !.problem = p] \in Asks BY <1>1 DEF Asks
    <2> QED BY <1>2, <2>1
  <1>6. [f EXCEPT ![c].at = "idle"] \in [Callers -> Asks]
    <2>1. [f[c] EXCEPT !.at = "idle"] \in Asks BY <1>1 DEF Asks
    <2> QED BY <1>2, <2>1
  <1> QED BY <1>3, <1>4, <1>5, <1>6

\* The initial state satisfies the manager's invariant.
LEMMA LicenseInvInit == LicenseInit => LicenseInv
  <1> SUFFICES ASSUME LicenseInit PROVE LicenseInv OBVIOUS
  <1> USE LicenseAssumption DEF LicenseInit, FirstMtime, NoStat
  <1>1. Permanent \in Expiries /\ ~Failed(Permanent)
    BY DEF Permanent, Expiry, Expiries, Failed
  <1>2. LicenseTypes BY <1>1 DEF LicenseTypes, Asks, Files, Problems
  <1>3. StatSound BY DEF StatSound
  <1>4. KeptSound BY <1>1 DEF KeptSound
  <1>5. HitSound BY DEF HitSound
  <1>6. VerdictFresh BY DEF VerdictFresh
  <1> QED BY <1>2, <1>3, <1>4, <1>5, <1>6 DEF LicenseInv

\* ExpiryDate up to os.Stat.
LEMMA StatLicenseStep ==
    ASSUME LicenseInv, NEW c \in Callers, StatLicense(c)
    PROVE  LicenseInv'
  <1> USE LicenseAssumption DEF LicenseInv, StatLicense, NoStat
  <1>1. LicenseTypes'
    <2> DEFINE s == IF file.content = Absent THEN NoStat ELSE file.mtime
    <2>1. s \in Nat BY DEF LicenseTypes
    <2> HIDE DEF s
    <2>2. [ask EXCEPT ![c].at = "stat", ![c].stat = s] \in [Callers -> Asks]
      BY <2>1, AskTypes DEF LicenseTypes
    <2>4. ask' \in [Callers -> Asks] BY <2>2 DEF s
    <2>5. during' \in [Callers -> SUBSET Files] BY DEF LicenseTypes
    <2> QED BY <2>4, <2>5 DEF LicenseTypes
  <1>2. StatSound' BY DEF LicenseTypes, StatSound, KeptSound
  <1>3. KeptSound' BY DEF KeptSound
  <1>4. HitSound'
    <2> SUFFICES ASSUME NEW d \in Callers, ask'[d].at = "stat", mgr.read,
                        ask'[d].stat = mgr.modTime, mgr.modTime # NoStat
                 PROVE  \/ \E x \in during'[d] : mgr.expiry = Parsed(x)
                        \/ Absent \in during'[d]
                        \/ mgr.modTime \in reused
      BY DEF HitSound
    <2>1. CASE d = c
      <3>1. during'[c] = {file.content} BY DEF LicenseTypes
      <3>2. file.content = Absent \/ file.mtime = mgr.modTime BY <2>1 DEF LicenseTypes
      <3> QED BY <2>1, <3>1, <3>2 DEF KeptSound
    <2>2. CASE d # c
      BY <2>2 DEF LicenseTypes, HitSound
    <2> QED BY <2>1, <2>2
  <1>5. VerdictFresh' BY DEF LicenseTypes, VerdictFresh
  <1> QED BY <1>1, <1>2, <1>3, <1>4, <1>5

\* The rest of ExpiryDate.
LEMMA ReadLicenseStep ==
    ASSUME LicenseInv, NEW c \in Callers, ReadLicense(c)
    PROVE  LicenseInv'
  <1> USE DEF LicenseInv
  <1> DEFINE again == ~mgr.read \/ Changed(c)
             e     == IF again THEN Parsed(file.content) ELSE mgr.expiry
  <1>1. e \in Expiries BY ParsedType DEF LicenseTypes
  <1>2. /\ ask[c].at = "stat" /\ mu = c /\ mu' = Nobody
        /\ ask' = [ask EXCEPT ![c].at = "dated", ![c].expiry = e]
        /\ IF again /\ ~Failed(e) THEN Remember(c, e) ELSE UNCHANGED mgr
        /\ UNCHANGED <<file, today, changes, during, used, reused>>
    BY DEF ReadLicense, StatSound
  <1>3. again => e = Parsed(file.content) OBVIOUS
  <1>4. ~again => e = mgr.expiry /\ mgr.read /\ (ask[c].stat = NoStat \/ ask[c].stat = mgr.modTime)
    BY DEF Changed
  <1>5. again /\ ask[c].stat = NoStat => ~mgr.read BY DEF Changed
  <1> HIDE DEF again, e
  <1>6. LicenseTypes'
    <2>1. [ask EXCEPT ![c].at = "dated", ![c].expiry = e] \in [Callers -> Asks]
      BY <1>1, AskTypes DEF LicenseTypes
    <2>3. ask' \in [Callers -> Asks] BY <1>2, <2>1
    <2>4. ask[c].stat \in Nat BY DEF LicenseTypes, Asks
    <2>5. mgr' \in [read : BOOLEAN, modTime : Nat, expiry : Expiries]
      <3>1. CASE again /\ ~Failed(e)
        <4>1. mgr' = [read |-> TRUE, expiry |-> e,
                      modTime |-> IF ask[c].stat = NoStat THEN mgr.modTime ELSE ask[c].stat]
          BY <1>2, <3>1 DEF Remember
        <4>2. mgr.modTime \in Nat BY DEF LicenseTypes
        <4> QED BY <1>1, <2>4, <4>1, <4>2
      <3>2. CASE ~(again /\ ~Failed(e)) BY <1>2, <3>2 DEF LicenseTypes
      <3> QED BY <3>1, <3>2
    <2> QED BY <1>2, <2>3, <2>5 DEF LicenseTypes
  <1>7. StatSound' BY <1>2 DEF LicenseTypes, StatSound
  <1>8. KeptSound'
    <2>1. CASE again /\ ~Failed(e)
      <3>1. /\ mgr'.read = TRUE /\ mgr'.expiry = e
            /\ mgr'.modTime = IF ask[c].stat = NoStat THEN mgr.modTime ELSE ask[c].stat
        BY <1>2, <2>1 DEF Remember
      <3>2. ask[c].stat = NoStat => mgr'.modTime = NoStat BY <1>5, <2>1, <3>1 DEF KeptSound
      <3>3. ask[c].stat # NoStat => ask[c].stat \in used BY <1>2 DEF StatSound
      <3> QED BY <1>2, <1>3, <2>1, <3>1, <3>2, <3>3 DEF KeptSound
    <2>2. CASE ~(again /\ ~Failed(e)) BY <1>2, <2>2 DEF KeptSound
    <2> QED BY <2>1, <2>2
  <1>9. HitSound' BY <1>2 DEF LicenseTypes, StatSound, HitSound
  <1>10. VerdictFresh'
    <2>1. /\ ask'[c].expiry = e /\ ask'[c].stat = ask[c].stat
          /\ \A d \in Callers \ {c} : ask'[d] = ask[d]
      BY <1>2 DEF LicenseTypes
    <2>2. \/ \E x \in during[c] : e = Parsed(x)
          \/ ~Failed(e) /\ (Absent \in during[c] \/ ask[c].stat \in reused)
      <3>1. CASE again BY <1>2, <1>3, <3>1 DEF StatSound
      <3>2. CASE ~again
        <4>1. ~Failed(e) BY <1>4, <3>2 DEF KeptSound
        <4>2. CASE ask[c].stat = NoStat BY <1>2, <4>1, <4>2 DEF StatSound
        <4>3. CASE ask[c].stat # NoStat
          BY <1>2, <1>4, <3>2, <4>1, <4>3 DEF HitSound
        <4> QED BY <4>2, <4>3
      <3> QED BY <3>1, <3>2
    <2>3. ASSUME NEW d \in Callers, ask'[d].at \in {"dated", "judged"}
          PROVE  \/ \E x \in during[d] : ask'[d].expiry = Parsed(x)
                 \/ ~Failed(ask'[d].expiry) /\ (Absent \in during[d] \/ ask'[d].stat \in reused)
      <3>1. CASE d = c BY <2>1, <2>2, <3>1
      <3>2. CASE d # c BY <2>1, <2>3, <3>2 DEF VerdictFresh
      <3> QED BY <3>1, <3>2
    <2> QED BY <1>2, <2>3 DEF VerdictFresh
  <1> QED BY <1>6, <1>7, <1>8, <1>9, <1>10

\* The comparison with today's date.
LEMMA JudgeStep ==
    ASSUME LicenseInv, NEW c \in Callers, Judge(c)
    PROVE  LicenseInv'
  <1> USE DEF LicenseInv, Judge
  <1>1. Problem(ask[c].expiry) \in Problems BY DEF Problem, Problems
  <1>2. LicenseTypes'
    <2>1. [ask EXCEPT ![c].at = "judged", ![c].problem = Problem(ask[c].expiry)] \in [Callers -> Asks]
      BY <1>1, AskTypes DEF LicenseTypes
    <2> QED BY <2>1 DEF LicenseTypes
  <1>3. StatSound' /\ KeptSound' /\ HitSound'
    BY DEF LicenseTypes, StatSound, KeptSound, HitSound
  <1>4. VerdictFresh' BY DEF LicenseTypes, VerdictFresh
  <1> QED BY <1>2, <1>3, <1>4

\* The operator's steps, and the calendar's.
LEMMA OperatorKeepsLicense ==
    ASSUME LicenseInv, OperatorStep
    PROVE  LicenseInv'
  <1> USE DEF LicenseInv
  <1>1. CASE NewDay
    BY <1>1 DEF NewDay, LicenseTypes, StatSound, KeptSound, HitSound, VerdictFresh
  <1>2. ASSUME NEW x \in Files, during' = Witnessed(x), reused \subseteq reused',
               used \subseteq used', UNCHANGED <<mu, mgr, ask>>, file'.content = x,
               LicenseTypes, LicenseTypes'
        PROVE  StatSound' /\ HitSound' /\ VerdictFresh'
    <2>1. \A c \in Callers : during'[c] = IF ask[c].at = "stat" THEN during[c] \cup {x}
                                                                ELSE during[c]
      BY <1>2 DEF Witnessed
    <2>2. StatSound' BY <1>2, <2>1 DEF StatSound
    <2>3. HitSound' BY <1>2, <2>1 DEF HitSound
    <2>4. VerdictFresh' BY <1>2, <2>1 DEF VerdictFresh
    <2> QED BY <2>2, <2>3, <2>4
  <1>3. CASE ReplaceFile
    <2>1. PICK x \in Contents, m \in 1..MaxMtime :
              /\ file' = [content |-> x, mtime |-> m]
              /\ during' = Witnessed(x)
              /\ used' = used \cup {m}
              /\ reused' = reused \cup ({m} \cap used)
      BY <1>3 DEF ReplaceFile
    <2>2. x \in Files BY DEF Files
    <2>3. LicenseTypes'
      BY <1>3, <2>1, <2>2 DEF ReplaceFile, Touch, Witnessed, LicenseTypes
    <2>4. KeptSound' BY <1>3, <2>1 DEF ReplaceFile, KeptSound
    <2> QED BY <1>2, <1>3, <2>1, <2>2, <2>3, <2>4 DEF ReplaceFile
  <1>4. CASE RemoveFile
    <2>1. Absent \in Files BY DEF Files
    <2>2. LicenseTypes'
      BY <1>4, <2>1 DEF RemoveFile, Touch, Witnessed, LicenseTypes
    <2>3. file'.content = Absent /\ file'.mtime = file.mtime
      BY <1>4 DEF RemoveFile, LicenseTypes
    <2>4. KeptSound' BY <1>4, <2>3 DEF RemoveFile, KeptSound
    <2> QED BY <1>2, <1>4, <2>1, <2>2, <2>3, <2>4 DEF RemoveFile
  <1> QED BY <1>1, <1>3, <1>4 DEF OperatorStep

-----------------------------------------------------------------------------
(* The request and its processes.                                          *)

Formats   == {"docx", "pptx", "xlsx", "pdf", "none"}
Documents == [magic : {"pdf", "zip", "ole2", "rtf", "image", "html", "eml", "other"},
              mime : STRING, main : {"docx", "pptx", "xlsx", "none"},
              streams : SUBSET {"docx", "pptx", "xlsx"}, ext : STRING,
              size : Nat, pages : Int, slides : Nat, real : Formats]
Before    == {"gate", "date", "csv", "dispatch", "lite", "qpdf", "post"}
Running   == {"wait", "killed"}
Stages    == {"probe", "retry", "mht", "pages", "pdf", "html", "office"}
Pipes     == {"empty", "full", "read", "lost"}
Outputs   == {"none", "partial", "junk", "whole"}
Reasons   == {"vague", "word doc", "excel", "workbook", "powerpoint", "presentation"}
Errors    == {"none", "license_expired", "input_too_large", "input_unprocessable",
              "unsupported_format", "render_failed", "engine_unavailable"}
Fates     == {"licence", "vague", "cut", "unspawned", "crashed", "timeout", "rejected"}
Runs      == [proc : {"none", "started", "working", "exited"}, code : {0, 1, 2, 3, 137, -1},
              out : Pipes, diag : Pipes, hint : Reasons, child : BOOLEAN, reaped : BOOLEAN]
Reqs      == [at : Before \cup Running \cup {"spawn", "ended"}, stage : Stages \cup {"none"},
              format : Formats \cup {"odg", "image", "email"}, pages : Int, err : Errors]

RunTypes ==
    /\ doc \in Documents
    /\ endpoint \in {"convert", "html/aspose", "html/gotenberg"}
    /\ req \in Reqs
    /\ run \in Runs
    /\ made \in [mht : Outputs, pdf : Outputs]
    /\ fate \in SUBSET Fates

\* Which endpoint leads where, and what there is before the first process.
Routes ==
    /\ req.at \in {"csv", "lite", "qpdf"} => endpoint = "convert"
    /\ req.stage \in Stages \ {"html"} => endpoint = "convert"
    /\ req.stage = "html" => endpoint = "html/aspose"
    /\ req.at = "post" => endpoint = "html/gotenberg"
    /\ req.at \in Before => req.stage = "none" /\ run = NoRun /\ made.pdf = "none" /\ fate = {}
    /\ endpoint = "html/gotenberg" => req.stage = "none"
    /\ req.at \in Running \cup {"spawn"} => req.stage # "none"
    /\ req.at # "ended" => req.err \in {"none", "license_expired"}
    /\ req.at = "date" => req.err = "license_expired"

\* The life of a process: while it lives the handler waits, and the handler goes
\* on only when it was reaped.  Pipes fill up only at its end.
ProcSound ==
    /\ run.proc \in {"started", "working"} => req.at = "wait"
    /\ req.at \in Running => run.proc # "none"
    /\ req.at = "killed" => run.proc = "exited" /\ "timeout" \in fate
    /\ req.at \in {"spawn", "ended"} => run.proc = "none" \/ run.reaped
    /\ run.child => req.stage = "office" /\ req.at \in Running /\ ~run.reaped
    /\ run.reaped => run.proc = "exited" /\ run.out # "full" /\ run.diag # "full"
    /\ run.proc # "exited" => run.code = 0 /\ run.out = "empty" /\ run.diag = "empty"

\* Why the process of the current stage ended as it did.
CodeSound ==
    req.at \in Running =>
        /\ run.code = 2 => "licence" \in fate
        /\ run.code = 3 =>
              /\ Probing /\ run.diag # "empty"
              /\ IF run.hint = "vague" THEN "vague" \in fate
                 ELSE ~CanOpen /\ run.hint \in Hints(doc.real)
        /\ run.code \in {1, 137, -1} /\ req.stage # "office" /\ req.at = "wait" => "crashed" \in fate
        /\ "lost" \in {run.out, run.diag} => "cut" \in fate
        /\ run.proc = "exited" /\ run.code = 0 /\ req.stage \in {"probe", "retry"} =>
              run.out # "empty" /\ CanOpen
        /\ run.proc = "exited" /\ run.code = 0 /\ req.stage \in {"pdf", "html"} =>
              made.pdf \in {"whole", "junk", "none"}

\* A document is retried as what it is, and LibreOffice leaves no partial PDF.
StageSound ==
    /\ req.stage = "retry" => req.format = doc.real
    /\ req.stage = "office" => made.pdf \in {"whole", "none"}

RunInv ==
    RunTypes /\ Routes /\ ProcSound /\ CodeSound /\ StageSound /\ RefusalHasCause /\ OkIsBacked

-----------------------------------------------------------------------------
(* The two together.                                                       *)

\* A request past the licence check was let through by it.
PastGate ==
    HasGate /\ req.at \in {"csv", "dispatch", "lite", "qpdf", "spawn", "wait", "killed"} =>
        ask[Req].at = "judged" /\ ask[Req].problem = "none"

\* As long as file and date are as at the handler's stat, it has seen one version
\* of the file, and its verdict would be the same now.
CalmSound ==
    calm => /\ ask[Req].at # "idle" => during[Req] = {file.content}
            /\ ask[Req].at = "judged" => ask[Req].problem = Problem(ask[Req].expiry)

GateInv == PastGate /\ CalmSound /\ GateForesees

EnginesInv == LicenseInv /\ RunInv /\ GateInv

-----------------------------------------------------------------------------
(* How the handler may move.                                               *)

\* The state before the first process.
LEMMA NoRunFacts ==
    /\ NoRun \in Runs /\ NoRun.proc = "none" /\ NoRun.code = 0 /\ NoRun.out = "empty"
    /\ NoRun.diag = "empty" /\ ~NoRun.child /\ ~NoRun.reaped
  BY DEF NoRun, Runs, Pipes, Reasons

\* The initial state satisfies RunInv.
LEMMA RunInvInit == Init => RunInv
  <1> SUFFICES ASSUME Init PROVE RunInv OBVIOUS
  <1> USE EnginesAssumption DEF Init
  <1>1. RunTypes
    <2>1. [at |-> "gate", stage |-> "none", format |-> "none", pages |-> 0, err |-> "none"] \in Reqs
      BY DEF Reqs, Before, Formats, Errors
    <2>2. run \in Runs BY NoRunFacts
    <2>3. doc \in Documents BY DEF Documents, Formats
    <2>4. made \in [mht : Outputs, pdf : Outputs] BY DEF Outputs
    <2> QED BY <2>1, <2>2, <2>3, <2>4 DEF RunTypes
  <1>2. req.at = "gate" /\ req.stage = "none" /\ req.err = "none" OBVIOUS
  <1>3. Routes BY <1>2 DEF Routes, Stages, Running
  <1>4. ProcSound BY <1>2 DEF ProcSound, NoRun, Running
  <1>5. CodeSound /\ StageSound BY <1>2 DEF CodeSound, StageSound, Running
  <1>6. RefusalHasCause /\ OkIsBacked BY <1>2 DEF RefusalHasCause, OkIsBacked, Ended
  <1> QED BY <1>1, <1>3, <1>4, <1>5, <1>6 DEF RunInv

\* What the assignments to the handler's locals do.
LEMMA EndFacts ==
    ASSUME req \in Reqs, NEW e \in Errors, End(e)
    PROVE  /\ req' \in Reqs /\ req'.at = "ended" /\ req'.err = e
           /\ req'.stage = req.stage /\ req'.format = req.format /\ req'.pages = req.pages
  BY DEF End, Reqs

\* The next stage is set.
LEMMA StartFacts ==
    ASSUME req \in Reqs, NEW st \in Stages, NEW f \in Formats \cup {"odg", "image", "email"}, Start(st, f)
    PROVE  /\ req' \in Reqs /\ req'.at = "spawn" /\ req'.stage = st /\ req'.format = f
           /\ req'.err = req.err
  BY DEF Start, Reqs

\* Only the position changes.
LEMMA MoveFacts ==
    ASSUME req \in Reqs, NEW a \in Before \cup Running, req' = [req EXCEPT !.at = a]
    PROVE  /\ req' \in Reqs /\ req'.at = a /\ req'.err = req.err
           /\ req'.stage = req.stage /\ req'.format = req.format /\ req'.pages = req.pages
  BY DEF Reqs

\* The request is answered when its last process, if any, was reaped.
LEMMA HandlerEnds ==
    ASSUME RunInv, req.at # "ended",
           req' \in Reqs, req'.at = "ended", req'.stage = req.stage, req'.format = req.format,
           doc' = doc, endpoint' = endpoint, run' = run, run.proc = "none" \/ run.reaped,
           made' \in [mht : Outputs, pdf : Outputs], made' = made \/ req.stage = "none",
           fate' \in SUBSET Fates,
           RefusalHasCause', OkIsBacked'
    PROVE  RunInv'
  <1> USE DEF RunInv
  <1>1. RunTypes' BY DEF RunTypes
  <1>2. Routes' BY DEF Routes, Before, Running
  <1>3. ProcSound' BY DEF ProcSound, Running
  <1>4. CodeSound' BY DEF CodeSound, Running
  <1>5. StageSound' BY DEF StageSound
  <1> QED BY <1>1, <1>2, <1>3, <1>4, <1>5

\* The next process of the request is to be started.
LEMMA HandlerStarts ==
    ASSUME RunInv, req.at # "ended", NEW st \in Stages, NEW f \in Formats \cup {"odg", "image", "email"}, Start(st, f),
           endpoint = IF st = "html" THEN "html/aspose" ELSE "convert",
           st = "retry" => f = doc.real,
           st = "office" => made.pdf = "none",
           run.proc = "none" \/ run.reaped,
           UNCHANGED <<doc, endpoint, run, made, fate>>
    PROVE  RunInv'
  <1> USE DEF RunInv
  <1>0. /\ req' \in Reqs /\ req'.at = "spawn" /\ req'.stage = st /\ req'.format = f
        /\ req'.err = req.err
    BY StartFacts DEF RunTypes
  <1>1. RunTypes' BY <1>0 DEF RunTypes
  <1>2. Routes' BY <1>0 DEF Routes, Before, Running, Stages
  <1>3. ProcSound' BY <1>0 DEF ProcSound, Running
  <1>4. CodeSound' BY <1>0 DEF CodeSound, Running
  <1>5. StageSound' BY <1>0 DEF StageSound
  <1>6. RefusalHasCause' /\ OkIsBacked' BY <1>0 DEF RefusalHasCause, OkIsBacked, Ended
  <1> QED BY <1>1, <1>2, <1>3, <1>4, <1>5, <1>6

\* The handler goes on without having started a process.
LEMMA HandlerMoves ==
    ASSUME RunInv, req.at \in Before,
           req' \in Reqs, req'.at \in Before, req'.stage = req.stage,
           req'.err = IF req'.at = "date" THEN "license_expired" ELSE req.err,
           req'.at \in {"csv", "lite", "qpdf"} => endpoint = "convert",
           req'.at = "post" => endpoint = "html/gotenberg",
           doc' \in Documents, UNCHANGED <<endpoint, run, made, fate>>
    PROVE  RunInv'
  <1> USE DEF RunInv
  <1>1. RunTypes' BY DEF RunTypes
  <1>2. req'.at \notin Running \cup {"spawn", "ended"} /\ req.at # "ended" BY DEF Before, Running
  <1>3. Routes' BY <1>2 DEF Routes, Stages
  <1>8. /\ run'.proc = "none" /\ run'.code = 0 /\ run'.out = "empty" /\ run'.diag = "empty"
        /\ ~run'.child /\ ~run'.reaped
    BY NoRunFacts DEF Routes
  <1>4. ProcSound' BY <1>2, <1>8 DEF ProcSound, Running
  <1>5. CodeSound' BY <1>2 DEF CodeSound
  <1>6. StageSound' BY DEF StageSound, Routes
  <1>7. RefusalHasCause' /\ OkIsBacked' BY <1>2 DEF RefusalHasCause, OkIsBacked, Ended
  <1> QED BY <1>1, <1>3, <1>4, <1>5, <1>6, <1>7

\* An answer that is neither a result nor a refusal of the document.
LEMMA PlainError ==
    ASSUME req'.err \notin {"none", "input_unprocessable"}
    PROVE  RefusalHasCause' /\ OkIsBacked'
  BY DEF RefusalHasCause, OkIsBacked, Ended

-----------------------------------------------------------------------------
(* The handler up to the first process.                                    *)

\* The licence check: on to the document, a refusal, or the date to report.
LEMMA GateStep ==
    ASSUME RunInv, Gate
    PROVE  RunInv'
  <1> USE DEF RunInv
  <1>1. req \in Reqs /\ req.at = "gate" /\ req.stage = "none" /\ run = NoRun
    BY DEF Gate, RunTypes, Routes, Before
  <1>2. doc' = doc /\ doc \in Documents /\ UNCHANGED <<endpoint, run, made, fate>>
    BY DEF Gate, RunTypes
  <1>3. CASE Admitted
    <2>1. CASE endpoint = "convert" /\ IsCSVFilename
      <3>1. req' = [req EXCEPT !.at = "csv"] BY <1>3, <2>1 DEF Admitted
      <3>2. req' \in Reqs /\ req'.at = "csv" /\ req'.err = req.err /\ req'.stage = req.stage
        BY <1>1, <3>1, MoveFacts DEF Before
      <3> QED BY <1>1, <1>2, <2>1, <3>2, HandlerMoves DEF Before
    <2>2. CASE ~(endpoint = "convert" /\ IsCSVFilename)
      <3>1. req' = [req EXCEPT !.at = "dispatch"] BY <1>3, <2>2 DEF Admitted
      <3>2. req' \in Reqs /\ req'.at = "dispatch" /\ req'.err = req.err /\ req'.stage = req.stage
        BY <1>1, <3>1, MoveFacts DEF Before
      <3> QED BY <1>1, <1>2, <3>2, HandlerMoves DEF Before
    <2> QED BY <2>1, <2>2
  <1>4. CASE End("license_expired")
    <2>1. /\ req' \in Reqs /\ req'.at = "ended" /\ req'.err = "license_expired"
          /\ req'.stage = req.stage /\ req'.format = req.format
      BY <1>1, <1>4, EndFacts DEF Errors
    <2> QED BY <1>1, <1>2, <2>1, PlainError, HandlerEnds, NoRunFacts DEF RunTypes
  <1>5. CASE req' = [req EXCEPT !.at = "date", !.err = "license_expired"]
    <2>1. /\ req' \in Reqs /\ req'.at = "date" /\ req'.err = "license_expired"
          /\ req'.stage = req.stage
      BY <1>1, <1>5 DEF Reqs, Before, Errors
    <2> QED BY <1>1, <1>2, <2>1, HandlerMoves DEF Before
  <1> QED BY <1>3, <1>4, <1>5 DEF Gate

\* The answer with the date.
LEMMA GateDateStep ==
    ASSUME RunInv, GateDate
    PROVE  RunInv'
  <1> USE DEF RunInv
  <1>1. req \in Reqs /\ req.at = "date" /\ req.err = "license_expired" /\ run = NoRun
    BY DEF GateDate, RunTypes, Routes, Before
  <1>2. UNCHANGED <<doc, endpoint, run, made, fate>> BY DEF GateDate
  <1>3. /\ req' \in Reqs /\ req'.at = "ended" /\ req'.err = "license_expired"
        /\ req'.stage = req.stage /\ req'.format = req.format
    BY <1>1, EndFacts DEF GateDate, Errors
  <1> QED BY <1>1, <1>2, <1>3, PlainError, HandlerEnds, NoRunFacts DEF RunTypes

\* CSV normalisation keeps what the document is made of.
LEMMA NormalizeCSVStep ==
    ASSUME RunInv, NormalizeCSV
    PROVE  RunInv'
  <1> USE DEF RunInv
  <1>1. /\ req \in Reqs /\ req.at = "csv" /\ req.stage = "none" /\ run = NoRun
        /\ doc \in Documents
    BY DEF NormalizeCSV, RunTypes, Routes, Before
  <1>2. UNCHANGED <<endpoint, run, made, fate>> BY DEF NormalizeCSV
  <1>3. CASE End("input_too_large") /\ UNCHANGED doc
    <2>1. /\ req' \in Reqs /\ req'.at = "ended" /\ req'.err = "input_too_large"
          /\ req'.stage = req.stage /\ req'.format = req.format
      BY <1>1, <1>3, EndFacts DEF Errors
    <2> QED BY <1>1, <1>2, <1>3, <2>1, PlainError, HandlerEnds, NoRunFacts DEF RunTypes
  <1>4. CASE /\ doc' \in {doc, CSVBytesToXLSXBytes(doc)} \cup CutShort(doc)
             /\ req' = [req EXCEPT !.at = "dispatch"]
    <2>1. CSVBytesToXLSXBytes(doc) \in Documents
      BY <1>1 DEF CSVBytesToXLSXBytes, Documents, Formats
    <2>2. \A d \in CutShort(doc) : d \in Documents
      BY <1>1, ZenonT(60) DEF CutShort, Documents, Formats
    <2>3. doc' \in Documents BY <1>1, <1>4, <2>1, <2>2
    <2>4. /\ req' \in Reqs /\ req'.at = "dispatch" /\ req'.err = req.err /\ req'.stage = req.stage
      BY <1>1, <1>4, MoveFacts DEF Before
    <2> QED BY <1>1, <1>2, <2>3, <2>4, HandlerMoves DEF Before
  <1> QED BY <1>3, <1>4 DEF NormalizeCSV

\* What a document of /v1/convert is taken for.
LEMMA DetectFormatType ==
    ASSUME NEW d \in Documents
    PROVE  DetectFormat(d) \in Formats \cup {"odg", "image", "html", "eml", "unsupported"}
  <1>1. InspectOOXMLPath(d) \in Formats \cup {"odg", "unsupported"}
    <2>1. ClassifyByContentTypes(d.main) \in Formats
      BY DEF ClassifyByContentTypes, Formats
    <2>2. \A m \in DOMAIN OdfMimetypeToFormat : OdfMimetypeToFormat[m] \in Formats \cup {"odg"}
      BY DEF OdfMimetypeToFormat, Formats
    <2> HIDE DEF OdfMimetypeToFormat
    <2> QED BY <2>1, <2>2 DEF InspectOOXMLPath
  <1>2. ClassifyOLE2(d) \in Formats \cup {"unsupported"}
    <2>1. \A m \in DOMAIN Ole2ExtToFormat : Ole2ExtToFormat[m] \in Formats
      BY DEF Ole2ExtToFormat, Formats
    <2>2. {"docx", "pptx", "xlsx"} \subseteq Formats BY DEF Formats
    <2> QED BY <2>1, <2>2 DEF ClassifyOLE2
  <1>3. {"pdf", "docx"} \subseteq Formats BY DEF Formats
  <1> QED BY <1>1, <1>2, <1>3 DEF DetectFormat

\* Detection and routing.
LEMMA DispatchStep ==
    ASSUME RunInv, Dispatch
    PROVE  RunInv'
  <1> USE DEF RunInv
  <1>1. /\ req \in Reqs /\ req.at = "dispatch" /\ req.stage = "none" /\ run = NoRun
        /\ made.pdf = "none" /\ doc \in Documents
        /\ endpoint \in {"convert", "html/aspose", "html/gotenberg"}
    BY DEF Dispatch, RunTypes, Routes, Before
  <1>2. UNCHANGED <<doc, endpoint, run, made, fate>> BY DEF Dispatch
  <1> DEFINE f == DetectFormat(doc)
  <1>3. f \in Formats \cup {"odg", "image", "html", "eml", "unsupported"}
    BY <1>1, DetectFormatType
  <1> HIDE DEF f
  <1>4. \/ endpoint = "html/gotenberg" /\ req' = [req EXCEPT !.at = "post"]
        \/ endpoint # "convert" /\ ~IsHTMLUpload(doc) /\ End("input_unprocessable")
        \/ endpoint = "html/aspose" /\ Start("html", "docx")
        \/ End("unsupported_format")
        \/ endpoint = "convert" /\ f \in LibreofficeFormats /\ Start("office", f)
        \/ endpoint = "convert" /\ Start("mht", "email")
        \/ /\ endpoint = "convert" /\ req' = [req EXCEPT !.at = "lite", !.format = f]
           /\ f \notin {"unsupported", "html", "eml"} \cup LibreofficeFormats
    <2>1. CASE endpoint = "html/gotenberg" BY <2>1 DEF Dispatch
    <2>2. CASE endpoint = "html/aspose" BY <2>2 DEF Dispatch
    <2>3. CASE endpoint = "convert" BY <2>3 DEF Dispatch, f, LibreofficeFormats
    <2> QED BY <1>1, <2>1, <2>2, <2>3
  <1>5. CASE endpoint = "html/gotenberg" /\ req' = [req EXCEPT !.at = "post"]
    <2>1. /\ req' \in Reqs /\ req'.at = "post" /\ req'.err = req.err /\ req'.stage = req.stage
      BY <1>1, <1>5, MoveFacts DEF Before
    <2> QED BY <1>1, <1>2, <1>5, <2>1, HandlerMoves DEF Before
  <1>6. CASE endpoint # "convert" /\ ~IsHTMLUpload(doc) /\ End("input_unprocessable")
    <2>1. /\ req' \in Reqs /\ req'.at = "ended" /\ req'.err = "input_unprocessable"
          /\ req'.stage = req.stage /\ req'.format = req.format
      BY <1>1, <1>6, EndFacts DEF Errors
    <2>2. ~IsHTMLUpload(doc')
      BY <1>2, <1>6 DEF IsHTMLUpload, LooksLikeHTML, HasHTMLExtension
    <2>3. RefusalHasCause' BY <1>2, <1>6, <2>2 DEF RefusalHasCause
    <2>4. OkIsBacked' BY <2>1 DEF OkIsBacked
    <2> QED BY <1>1, <1>2, <2>1, <2>3, <2>4, HandlerEnds, NoRunFacts DEF RunTypes
  <1>7. CASE endpoint = "html/aspose" /\ Start("html", "docx")
    BY <1>1, <1>2, <1>7, HandlerStarts, NoRunFacts DEF Stages, Formats
  <1>8. CASE End("unsupported_format")
    <2>1. /\ req' \in Reqs /\ req'.at = "ended" /\ req'.err = "unsupported_format"
          /\ req'.stage = req.stage /\ req'.format = req.format
      BY <1>1, <1>8, EndFacts DEF Errors
    <2> QED BY <1>1, <1>2, <2>1, PlainError, HandlerEnds, NoRunFacts DEF RunTypes
  <1>9. CASE endpoint = "convert" /\ f \in LibreofficeFormats /\ Start("office", f)
    <2>1. f \in Formats \cup {"odg", "image", "email"} BY <1>9 DEF LibreofficeFormats
    <2> QED BY <1>1, <1>2, <1>9, <2>1, HandlerStarts, NoRunFacts DEF Stages
  <1>10. CASE endpoint = "convert" /\ Start("mht", "email")
    BY <1>1, <1>2, <1>10, HandlerStarts, NoRunFacts DEF Stages
  <1>11. CASE /\ endpoint = "convert" /\ req' = [req EXCEPT !.at = "lite", !.format = f]
              /\ f \notin {"unsupported", "html", "eml"} \cup LibreofficeFormats
    <2>1. f \in Formats BY <1>3, <1>11 DEF LibreofficeFormats
    <2>2. /\ req' \in Reqs /\ req'.at = "lite" /\ req'.err = req.err /\ req'.stage = req.stage
      BY <1>1, <1>11, <2>1 DEF Reqs, Before
    <2> QED BY <1>1, <1>2, <1>11, <2>2, HandlerMoves DEF Before
  <1> QED BY <1>4, <1>5, <1>6, <1>7, <1>8, <1>9, <1>10, <1>11

\* The metadata probe's count is a number.
LEMMA ProbeLiteType ==
    ASSUME NEW d \in Documents, NEW f, NEW q \in Int
    PROVE  ProbeLite(d, f, q) \in Int
  <1>1. d.size \in Nat /\ d.pages \in Int /\ d.slides \in Nat BY DEF Documents
  <1>2. BytesPerPageEstimate["docx"] = 20 /\ BytesPerPageEstimate["pptx"] = 100
    BY DEF BytesPerPageEstimate
  <1>3. \A g \in {"docx", "pptx"} : EstimatePagesFromSize(d.size, g) \in Int
    BY <1>1, <1>2 DEF EstimatePagesFromSize
  <1> QED BY <1>1, <1>3 DEF ProbeLite

\* A count ends the probe, without one the worker is asked.
LEMMA CountedStep ==
    ASSUME RunInv, req.at \in {"lite", "qpdf"}, NEW n \in Int, Counted(n),
           n > 0 => doc.real = req.format \/ req.format \in {"docx", "pptx"},
           UNCHANGED <<doc, endpoint, run, made, fate>>
    PROVE  RunInv'
  <1> USE DEF RunInv
  <1>1. /\ req \in Reqs /\ req.at # "ended" /\ req.stage = "none" /\ run = NoRun
        /\ endpoint = "convert" /\ req.err \in {"none", "license_expired"}
    BY DEF RunTypes, Routes, Before
  <1>2. CASE n > 0
    <2>1. /\ req' \in Reqs /\ req'.at = "ended" /\ req'.pages = n /\ req'.err = req.err
          /\ req'.stage = req.stage /\ req'.format = req.format
      BY <1>1, <1>2 DEF Counted, Reqs
    <2>2. RefusalHasCause' BY <1>1, <2>1 DEF RefusalHasCause
    <2>3. req'.pages >= 1 BY <1>2, <2>1
    <2>4. OkIsBacked' BY <1>1, <1>2, <2>1, <2>3 DEF OkIsBacked
    <2> QED BY <1>1, <2>1, <2>2, <2>4, HandlerEnds, NoRunFacts DEF RunTypes
  <1>3. CASE ~(n > 0)
    <2>1. Start("probe", req.format) BY <1>3 DEF Counted
    <2>2. req.format \in Formats \cup {"odg", "image", "email"} BY <1>1 DEF Reqs
    <2>3. "probe" \in Stages BY DEF Stages
    <2> QED BY <1>1, <2>1, <2>2, <2>3, HandlerStarts, NoRunFacts
  <1> QED BY <1>2, <1>3

\* The metadata probe.
LEMMA ProbeStep ==
    ASSUME RunInv, Probe
    PROVE  RunInv'
  <1> USE DEF RunInv
  <1>1. /\ req \in Reqs /\ req.at = "lite" /\ doc \in Documents /\ endpoint = "convert"
        /\ UNCHANGED <<doc, endpoint, run, made, fate>>
    BY DEF Probe, RunTypes, Routes
  <1>2. CASE req.format = "pdf"
    <2>1. req' = [req EXCEPT !.at = "qpdf"] BY <1>2 DEF Probe
    <2>2. /\ req' \in Reqs /\ req'.at = "qpdf" /\ req'.err = req.err /\ req'.stage = req.stage
      BY <1>1, <2>1, MoveFacts DEF Before
    <2> QED BY <1>1, <2>2, HandlerMoves DEF Before
  <1>3. CASE req.format # "pdf"
    <2>1. Counted(ProbeLite(doc, req.format, 0)) BY <1>3 DEF Probe
    <2>2. ProbeLite(doc, req.format, 0) \in Int BY <1>1, ProbeLiteType
    <2>3. ProbeLite(doc, req.format, 0) > 0 => req.format \in {"docx", "pptx"}
      BY <1>3 DEF ProbeLite
    <2> QED BY <1>1, <2>1, <2>2, <2>3, CountedStep
  <1> QED BY <1>2, <1>3

\* qpdf's answer.
LEMMA QpdfPageCountStep ==
    ASSUME RunInv, QpdfPageCount
    PROVE  RunInv'
  <1> USE DEF RunInv
  <1>1. /\ req.at = "qpdf" /\ doc \in Documents /\ UNCHANGED <<doc, endpoint, run, made, fate>>
    BY DEF QpdfPageCount, RunTypes
  <1>2. PICK n \in IF doc.real = "pdf" THEN {0, doc.pages} ELSE {0} :
            Counted(ProbeLite(doc, req.format, n))
    BY DEF QpdfPageCount
  <1>3. n \in Int BY <1>1 DEF Documents
  <1>4. ProbeLite(doc, req.format, n) \in Int BY <1>1, <1>3, ProbeLiteType
  <1>5. ProbeLite(doc, req.format, n) > 0 => doc.real = req.format \/ req.format \in {"docx", "pptx"}
    BY <1>2 DEF ProbeLite
  <1> QED BY <1>1, <1>2, <1>4, <1>5, CountedStep

\* Gotenberg.
LEMMA ConvertHTMLStep ==
    ASSUME RunInv, ConvertHTML
    PROVE  RunInv'
  <1> USE DEF RunInv
  <1>1. /\ req \in Reqs /\ req.at = "post" /\ req.stage = "none" /\ run = NoRun
        /\ endpoint = "html/gotenberg"
        /\ made \in [mht : Outputs, pdf : Outputs] /\ fate \in SUBSET Fates
        /\ UNCHANGED <<doc, endpoint, run>>
    BY DEF ConvertHTML, RunTypes, Routes, Before
  <1>2. CASE BuildFormFails
    <2>1. /\ req' \in Reqs /\ req'.at = "ended" /\ req'.err = "render_failed"
          /\ req'.stage = req.stage /\ req'.format = req.format
      BY <1>1, <1>2, EndFacts DEF BuildFormFails, Errors
    <2> QED BY <1>1, <1>2, <2>1, PlainError, HandlerEnds, NoRunFacts DEF BuildFormFails
  <1>3. ASSUME NEW a \in Answers,
               made' = [made EXCEPT !.pdf = WritePDF(a)],
               fate' = fate \cup (IF a = "4xx" THEN {"rejected"} ELSE {}),
               End(CASE a = "whole"       -> "none"
                     [] a = "unavailable" -> "engine_unavailable"
                     [] a = "4xx"         -> "input_unprocessable"
                     [] OTHER             -> "render_failed")
        PROVE  RunInv'
    <2> DEFINE e == CASE a = "whole"       -> "none"
                      [] a = "unavailable" -> "engine_unavailable"
                      [] a = "4xx"         -> "input_unprocessable"
                      [] OTHER             -> "render_failed"
    <2>1. /\ e \in Errors
          /\ e = "none" => a = "whole"
          /\ e = "input_unprocessable" => a = "4xx"
      BY <1>3 DEF Errors, Answers
    <2>2. End(e) BY <1>3
    <2> HIDE DEF e
    <2>3. /\ req' \in Reqs /\ req'.at = "ended" /\ req'.err = e
          /\ req'.stage = req.stage /\ req'.format = req.format
      BY <1>1, <2>1, <2>2, EndFacts
    <2>4. /\ made' \in [mht : Outputs, pdf : Outputs]
          /\ a = "whole" => made'.pdf = "whole"
      BY <1>1, <1>3 DEF WritePDF, Outputs
    <2>5. fate' \in SUBSET Fates /\ (a = "4xx" => "rejected" \in fate')
      BY <1>1, <1>3 DEF Fates
    <2>6. RefusalHasCause' BY <1>1, <2>1, <2>3, <2>5 DEF RefusalHasCause
    <2>7. OkIsBacked' BY <1>1, <2>1, <2>3, <2>4 DEF OkIsBacked
    <2> QED BY <1>1, <2>3, <2>4, <2>5, <2>6, <2>7, HandlerEnds, NoRunFacts
  <1> QED BY <1>2, <1>3 DEF ConvertHTML

-----------------------------------------------------------------------------
(* The process.                                                            *)

\* A step of the process, or of the goroutines that serve it.
LEMMA ProcessMoves ==
    ASSUME RunInv, req.at \in Running, UNCHANGED <<doc, endpoint, req>>,
           run' \in Runs, made' \in [mht : Outputs, pdf : Outputs], fate' \in SUBSET Fates,
           ProcSound', CodeSound', StageSound'
    PROVE  RunInv'
  <1> USE DEF RunInv
  <1>1. RunTypes' BY DEF RunTypes
  <1>2. req.at \notin Before /\ req.at # "ended" BY DEF Running, Before
  <1>3. Routes' BY <1>2 DEF Routes
  <1>4. RefusalHasCause' /\ OkIsBacked' BY <1>2 DEF RefusalHasCause, OkIsBacked, Ended
  <1> QED BY <1>1, <1>3, <1>4

\* The process is started, or cannot be.
LEMMA SpawnStep ==
    ASSUME RunInv, Spawn
    PROVE  RunInv'
  <1> USE DEF RunInv
  <1>1. /\ req \in Reqs /\ req.at = "spawn" /\ req.err \in {"none", "license_expired"}
        /\ run.proc = "none" \/ run.reaped
        /\ req.stage # "none" /\ made \in [mht : Outputs, pdf : Outputs] /\ fate \in SUBSET Fates
        /\ UNCHANGED <<doc, endpoint, made>>
    BY DEF Spawn, RunTypes, Routes, ProcSound
  <1>2. CASE /\ run' = [NoRun EXCEPT !.proc = "started"]
             /\ req' = [req EXCEPT !.at = "wait"]
             /\ UNCHANGED fate
    <2>1. /\ req' \in Reqs /\ req'.at = "wait" /\ req'.err = req.err
          /\ req'.stage = req.stage /\ req'.format = req.format
      BY <1>1, <1>2, MoveFacts DEF Running
    <2>2. /\ run' \in Runs /\ run'.proc = "started" /\ run'.code = 0 /\ run'.out = "empty"
          /\ run'.diag = "empty" /\ ~run'.child /\ ~run'.reaped
      BY <1>2 DEF NoRun, Runs, Pipes, Reasons
    <2>3. RunTypes' BY <1>1, <1>2, <2>1, <2>2 DEF RunTypes
    <2>4. Routes' BY <1>1, <1>2, <2>1 DEF Routes, Before
    <2>5. ProcSound' BY <2>1, <2>2 DEF ProcSound, Running
    <2>6. CodeSound' BY <2>1, <2>2 DEF CodeSound
    <2>7. StageSound' BY <1>1, <2>1 DEF StageSound
    <2>8. RefusalHasCause' /\ OkIsBacked' BY <2>1 DEF RefusalHasCause, OkIsBacked, Ended
    <2> QED BY <2>3, <2>4, <2>5, <2>6, <2>7, <2>8
  <1>3. CASE StageFails("render_failed") /\ fate' = fate \cup {"unspawned"} /\ UNCHANGED run
    <2>1. PICK e \in {"render_failed", "input_unprocessable"} : End(e)
      BY <1>3 DEF StageFails
    <2>2. /\ req' \in Reqs /\ req'.at = "ended" /\ req'.err = e
          /\ req'.stage = req.stage /\ req'.format = req.format
      BY <1>1, <2>1, EndFacts DEF Errors
    <2>3. fate' \in SUBSET Fates /\ "unspawned" \in fate' BY <1>1, <1>3 DEF Fates
    <2>4. RefusalHasCause' BY <2>3 DEF RefusalHasCause
    <2>5. OkIsBacked' BY <2>2 DEF OkIsBacked
    <2> QED BY <1>1, <1>3, <2>2, <2>3, <2>4, <2>5, HandlerEnds
  <1> QED BY <1>2, <1>3 DEF Spawn

\* The state that a living process leaves to its end.
LEMMA Living ==
    ASSUME RunInv, run.proc \in {"started", "working"}
    PROVE  /\ req.at = "wait" /\ run.code = 0 /\ run.out = "empty" /\ run.diag = "empty"
           /\ ~run.reaped /\ run \in Runs /\ made \in [mht : Outputs, pdf : Outputs]
           /\ fate \in SUBSET Fates /\ req \in Reqs /\ doc \in Documents
           /\ req.stage # "none"
           /\ run.child => req.stage = "office"
  BY DEF RunInv, ProcSound, RunTypes, Routes, Running

\* The worker's licence check.
LEMMA ApplyLicenseStep ==
    ASSUME RunInv, ApplyLicense
    PROVE  RunInv'
  <1> USE DEF RunInv
  <1>1. /\ run.proc = "started" /\ req.stage # "office"
        /\ UNCHANGED <<doc, endpoint, req, made>>
    BY DEF ApplyLicense
  <1>2. /\ req.at = "wait" /\ run \in Runs /\ run.out = "empty" /\ run.diag = "empty" /\ run.code = 0
        /\ ~run.reaped /\ ~run.child /\ fate \in SUBSET Fates
        /\ made \in [mht : Outputs, pdf : Outputs]
    BY <1>1, Living
  <1>3. CASE run' = [run EXCEPT !.proc = "working"] /\ UNCHANGED fate
    <2>1. /\ run' \in Runs /\ run'.proc = "working" /\ run'.code = 0 /\ run'.out = "empty"
          /\ run'.diag = "empty" /\ ~run'.child /\ ~run'.reaped
      BY <1>2, <1>3 DEF Runs
    <2>2. ProcSound' BY <1>1, <1>2, <2>1 DEF ProcSound, Running
    <2>3. CodeSound' BY <1>1, <1>2, <2>1 DEF CodeSound
    <2>4. StageSound' BY <1>1 DEF StageSound
    <2> QED BY <1>1, <1>2, <1>3, <2>1, <2>2, <2>3, <2>4, ProcessMoves DEF Running
  <1>4. CASE /\ run' = [run EXCEPT !.proc = "exited", !.code = 2, !.diag = "full"]
             /\ fate' = fate \cup {"licence"}
    <2>1. /\ run' \in Runs /\ run'.proc = "exited" /\ run'.code = 2 /\ run'.out = "empty"
          /\ run'.diag = "full" /\ ~run'.child /\ ~run'.reaped
      BY <1>2, <1>4 DEF Runs, Pipes
    <2>2. ProcSound' BY <1>1, <1>2, <2>1 DEF ProcSound, Running
    <2>3. CodeSound' BY <1>1, <1>2, <1>4, <2>1 DEF CodeSound
    <2>4. StageSound' BY <1>1 DEF StageSound
    <2>5. fate' \in SUBSET Fates BY <1>2, <1>4 DEF Fates
    <2> QED BY <1>1, <1>2, <1>4, <2>1, <2>2, <2>3, <2>4, <2>5, ProcessMoves DEF Running
  <1> QED BY <1>3, <1>4 DEF ApplyLicense

\* What a worker that is not asked to probe may do to the output files.
LEMMA MadeFacts ==
    ASSUME RunInv, NEW x \in Outputs, req.stage # "office",
           made' = [made EXCEPT ![Target] = x], UNCHANGED <<req, doc>>
    PROVE  /\ made' \in [mht : Outputs, pdf : Outputs]
           /\ StageSound'
           /\ req.stage \in {"pdf", "html"} => made'.pdf = x
  <1>1. made \in [mht : Outputs, pdf : Outputs] BY DEF RunInv, RunTypes
  <1>2. CASE req.stage = "mht"
    <2>1. made' = [made EXCEPT !.mht = x] BY <1>2 DEF Target
    <2> QED BY <1>1, <1>2, <2>1 DEF StageSound, RunInv
  <1>3. CASE req.stage # "mht"
    <2>1. made' = [made EXCEPT !.pdf = x] BY <1>3 DEF Target
    <2> QED BY <1>1, <1>3, <2>1 DEF StageSound, RunInv
  <1> QED BY <1>2, <1>3

\* The worker ends well.
LEMMA WorkerSucceedsStep ==
    ASSUME RunInv, WorkerSucceeds
    PROVE  RunInv'
  <1> USE DEF RunInv
  <1>1. /\ run.proc = "working" /\ req.stage # "office" /\ CanOpen
        /\ run' = [run EXCEPT !.proc = "exited", !.out = IF Probing THEN "full" ELSE "empty"]
        /\ UNCHANGED <<doc, endpoint, req, fate>>
    BY DEF WorkerSucceeds
  <1>2. /\ req.at = "wait" /\ run \in Runs /\ run.diag = "empty" /\ run.code = 0
        /\ ~run.reaped /\ ~run.child /\ fate \in SUBSET Fates
        /\ made \in [mht : Outputs, pdf : Outputs]
    BY <1>1, Living
  <1>3. /\ run' \in Runs /\ run'.proc = "exited" /\ run'.code = 0
        /\ run'.out = (IF Probing THEN "full" ELSE "empty")
        /\ run'.diag = "empty" /\ ~run'.child /\ ~run'.reaped
    BY <1>1, <1>2, ZenonT(60) DEF Runs, Pipes
  <1>4. ProcSound' BY <1>1, <1>2, <1>3 DEF ProcSound, Running
  <1>5. CASE Probing
    <2>1. UNCHANGED made BY <1>5 DEF WorkerSucceeds
    <2>2. CodeSound' BY <1>1, <1>2, <1>3, <1>5, <2>1 DEF CodeSound, CanOpen, Probing
    <2>3. StageSound' BY <1>1, <2>1 DEF StageSound
    <2> QED BY <1>1, <1>2, <1>3, <1>4, <2>1, <2>2, <2>3, ProcessMoves DEF Running
  <1>6. CASE ~Probing
    <2>1. PICK x \in {"whole", "junk", "none"} : made' = [made EXCEPT ![Target] = x]
      BY <1>6 DEF WorkerSucceeds
    <2>2. x \in Outputs BY DEF Outputs
    <2>3. /\ made' \in [mht : Outputs, pdf : Outputs] /\ StageSound'
          /\ req.stage \in {"pdf", "html"} => made'.pdf = x
      BY <1>1, <2>1, <2>2, MadeFacts
    <2>4. CodeSound' BY <1>1, <1>2, <1>3, <1>6, <2>3 DEF CodeSound, CanOpen, Probing
    <2> QED BY <1>1, <1>2, <1>3, <1>4, <2>3, <2>4, ProcessMoves DEF Running
  <1> QED BY <1>5, <1>6

\* What a worker may say.
LEMMA HintsFact == \A r \in Formats : Hints(r) \subseteq Reasons
  BY DEF Hints, Reasons, Formats

\* The worker cannot open the document.
LEMMA WorkerRefusesStep ==
    ASSUME RunInv, WorkerRefuses
    PROVE  RunInv'
  <1> USE DEF RunInv
  <1>1. run.proc = "working" /\ Probing /\ UNCHANGED <<doc, endpoint, req, made>>
    BY DEF WorkerRefuses
  <1>2. /\ req.at = "wait" /\ run \in Runs /\ run.out = "empty" /\ run.code = 0
        /\ ~run.reaped /\ fate \in SUBSET Fates /\ made \in [mht : Outputs, pdf : Outputs]
        /\ doc \in Documents /\ ~run.child
    BY <1>1, Living DEF Probing
  <1>3. PICK h \in IF CanOpen THEN {"vague"} ELSE Hints(doc.real) :
            /\ run' = [run EXCEPT !.proc = "exited", !.code = 3, !.diag = "full", !.hint = h]
            /\ fate' = fate \cup (IF h = "vague" THEN {"vague"} ELSE {})
    BY DEF WorkerRefuses
  <1>4. h \in Reasons /\ (h # "vague" => ~CanOpen /\ h \in Hints(doc.real))
    <2>1. doc.real \in Formats BY <1>2 DEF Documents
    <2>2. "vague" \in Reasons BY DEF Reasons
    <2> QED BY <1>3, <2>1, <2>2, HintsFact
  <1>5. /\ run' \in Runs /\ run'.proc = "exited" /\ run'.code = 3 /\ run'.out = "empty"
        /\ run'.diag = "full" /\ run'.hint = h /\ ~run'.child /\ ~run'.reaped
    BY <1>2, <1>3, <1>4, ZenonT(60) DEF Runs, Pipes
  <1>6. fate' \in SUBSET Fates /\ (h = "vague" => "vague" \in fate')
    BY <1>2, <1>3 DEF Fates
  <1>7. CanOpen' = CanOpen /\ Probing' = Probing BY <1>1 DEF CanOpen, Probing
  <1>8. ProcSound' BY <1>1, <1>2, <1>5 DEF ProcSound, Running
  <1>9. CodeSound' BY <1>1, <1>2, <1>4, <1>5, <1>6, <1>7 DEF CodeSound
  <1>10. StageSound' BY <1>1 DEF StageSound
  <1> QED BY <1>1, <1>2, <1>5, <1>6, <1>8, <1>9, <1>10, ProcessMoves DEF Running

\* The worker crashes.
LEMMA WorkerFailsStep ==
    ASSUME RunInv, WorkerFails
    PROVE  RunInv'
  <1> USE DEF RunInv
  <1>1. /\ run.proc = "working" /\ req.stage # "office"
        /\ fate' = fate \cup {"crashed"} /\ UNCHANGED <<doc, endpoint, req>>
    BY DEF WorkerFails
  <1>2. /\ req.at = "wait" /\ run \in Runs /\ run.out = "empty" /\ run.code = 0
        /\ ~run.reaped /\ ~run.child /\ fate \in SUBSET Fates
        /\ made \in [mht : Outputs, pdf : Outputs]
    BY <1>1, Living
  <1>3. PICK c \in {1, 137, -1} :
            run' = [run EXCEPT !.proc = "exited", !.code = c, !.diag = "full"]
    BY DEF WorkerFails
  <1>4. /\ run' \in Runs /\ run'.proc = "exited" /\ run'.code = c /\ run'.out = "empty"
        /\ run'.diag = "full" /\ ~run'.child /\ ~run'.reaped
    BY <1>2, <1>3, ZenonT(60) DEF Runs, Pipes
  <1>5. c \notin {0, 2, 3} OBVIOUS
  <1>6. fate' \in SUBSET Fates /\ "crashed" \in fate' BY <1>1, <1>2 DEF Fates
  <1>7. ProcSound' BY <1>1, <1>2, <1>4 DEF ProcSound, Running
  <1>8. CodeSound' BY <1>1, <1>2, <1>4, <1>5, <1>6 DEF CodeSound
  <1>9. made' \in [mht : Outputs, pdf : Outputs] /\ StageSound'
    <2>1. CASE Probing
      <3>1. UNCHANGED made BY <2>1 DEF WorkerFails
      <3> QED BY <1>1, <1>2, <3>1 DEF StageSound
    <2>2. CASE ~Probing
      <3>1. PICK x \in {"none", "partial"} : made' = [made EXCEPT ![Target] = x]
        BY <2>2 DEF WorkerFails
      <3>2. x \in Outputs BY DEF Outputs
      <3> QED BY <1>1, <3>1, <3>2, MadeFacts
    <2> QED BY <2>1, <2>2
  <1> QED BY <1>1, <1>2, <1>4, <1>6, <1>7, <1>8, <1>9, ProcessMoves DEF Running

\* soffice starts soffice.bin.
LEMMA SofficeForksStep ==
    ASSUME RunInv, SofficeForks
    PROVE  RunInv'
  <1> USE DEF RunInv
  <1>1. /\ run.proc = "started" /\ req.stage = "office"
        /\ run' = [run EXCEPT !.proc = "working", !.child = TRUE]
        /\ UNCHANGED <<doc, endpoint, req, made, fate>>
    BY DEF SofficeForks
  <1>2. /\ req.at = "wait" /\ run \in Runs /\ run.code = 0 /\ run.out = "empty"
        /\ run.diag = "empty" /\ ~run.reaped /\ fate \in SUBSET Fates
        /\ made \in [mht : Outputs, pdf : Outputs]
    BY <1>1, Living
  <1>3. /\ run' \in Runs /\ run'.proc = "working" /\ run'.code = 0 /\ run'.out = "empty"
        /\ run'.diag = "empty" /\ ~run'.reaped
    BY <1>1, <1>2 DEF Runs
  <1>4. ProcSound' BY <1>1, <1>2, <1>3 DEF ProcSound, Running
  <1>5. CodeSound' BY <1>1, <1>2, <1>3 DEF CodeSound
  <1>6. StageSound' BY <1>1 DEF StageSound
  <1> QED BY <1>1, <1>2, <1>3, <1>4, <1>5, <1>6, ProcessMoves DEF Running

\* soffice.bin ends.
LEMMA SofficeBinEndsStep ==
    ASSUME RunInv, SofficeBinEnds
    PROVE  RunInv'
  <1> USE DEF RunInv
  <1>1. /\ run.child /\ run' = [run EXCEPT !.child = FALSE]
        /\ UNCHANGED <<doc, endpoint, req, fate>>
    BY DEF SofficeBinEnds
  <1>2. /\ req.at \in Running /\ req.stage = "office" /\ run \in Runs /\ fate \in SUBSET Fates
        /\ made \in [mht : Outputs, pdf : Outputs]
    BY <1>1 DEF ProcSound, RunTypes
  <1>3. PICK x \in {"whole", "none"} : made' = [made EXCEPT !.pdf = x]
    BY DEF SofficeBinEnds
  <1>4. made' \in [mht : Outputs, pdf : Outputs] /\ made'.pdf = x
    BY <1>2, <1>3 DEF Outputs
  <1>5. /\ run' \in Runs /\ run'.proc = run.proc /\ run'.code = run.code /\ run'.out = run.out
        /\ run'.diag = run.diag /\ run'.hint = run.hint /\ ~run'.child /\ run'.reaped = run.reaped
    BY <1>1, <1>2 DEF Runs
  <1>6. ProcSound' BY <1>1, <1>5 DEF ProcSound, Running
  <1>7. CanOpen' = CanOpen /\ Probing' = Probing BY <1>1 DEF CanOpen, Probing
  <1>8. CodeSound' BY <1>1, <1>2, <1>5, <1>7 DEF CodeSound
  <1>9. StageSound' BY <1>1, <1>2, <1>4 DEF StageSound
  <1> QED BY <1>1, <1>2, <1>4, <1>5, <1>6, <1>8, <1>9, ProcessMoves

\* The launcher ends.
LEMMA SofficeExitsStep ==
    ASSUME RunInv, SofficeExits
    PROVE  RunInv'
  <1> USE DEF RunInv
  <1>1. /\ run.proc \in {"started", "working"} /\ req.stage = "office"
        /\ UNCHANGED <<doc, endpoint, req, made, fate>>
    BY DEF SofficeExits
  <1>2. /\ req.at = "wait" /\ run \in Runs /\ run.out = "empty"
        /\ run.diag = "empty" /\ ~run.reaped /\ fate \in SUBSET Fates
        /\ made \in [mht : Outputs, pdf : Outputs]
    BY <1>1, Living
  <1>3. PICK c \in {0, 1} : run' = [run EXCEPT !.proc = "exited", !.code = c]
    BY DEF SofficeExits
  <1>4. /\ run' \in Runs /\ run'.proc = "exited" /\ run'.code = c /\ run'.out = "empty"
        /\ run'.diag = "empty" /\ ~run'.reaped /\ run'.child = run.child
    BY <1>2, <1>3 DEF Runs
  <1>5. ProcSound' BY <1>1, <1>2, <1>4 DEF ProcSound, Running
  <1>6. CodeSound' BY <1>1, <1>2, <1>4 DEF CodeSound
  <1>7. StageSound' BY <1>1 DEF StageSound
  <1> QED BY <1>1, <1>2, <1>4, <1>5, <1>6, <1>7, ProcessMoves DEF Running

\* A process that has ended but was not reaped still has its handler.
LEMMA Unreaped ==
    ASSUME RunInv, run.proc # "none", ~run.reaped
    PROVE  req.at \in Running
  BY NoRunFacts DEF RunInv, RunTypes, Reqs, Routes, ProcSound

\* One of the two readers gets what its pipe holds.
LEMMA ReadPipeStep ==
    ASSUME RunInv, NEW p \in {"out", "diag"}, ReadPipe(p)
    PROVE  RunInv'
  <1> USE DEF RunInv
  <1>1. /\ run.proc # "none" /\ ~run.reaped /\ run[p] = "full"
        /\ run' = [run EXCEPT ![p] = "read"]
        /\ UNCHANGED <<doc, endpoint, req, made, fate>>
    BY DEF ReadPipe, Open
  <1>2. /\ req.at \in Running /\ run \in Runs /\ fate \in SUBSET Fates
        /\ made \in [mht : Outputs, pdf : Outputs]
    BY <1>1, Unreaped DEF RunTypes
  <1>3. /\ run' \in Runs /\ run'.proc = run.proc /\ run'.code = run.code
        /\ run'.hint = run.hint /\ run'.child = run.child /\ ~run'.reaped
        /\ run'.out = (IF p = "out" THEN "read" ELSE run.out)
        /\ run'.diag = (IF p = "diag" THEN "read" ELSE run.diag)
    <2>1. CASE p = "out" BY <1>1, <1>2, <2>1 DEF Runs, Pipes
    <2>2. CASE p = "diag" BY <1>1, <1>2, <2>2 DEF Runs, Pipes
    <2> QED BY <2>1, <2>2
  <1>4. run.proc = "exited" BY <1>1 DEF ProcSound
  <1>5. ProcSound' BY <1>1, <1>3, <1>4 DEF ProcSound, Running
  <1>6. CanOpen' = CanOpen /\ Probing' = Probing BY <1>1 DEF CanOpen, Probing
  <1>7. CodeSound' BY <1>1, <1>2, <1>3, <1>6 DEF CodeSound
  <1>8. StageSound' BY <1>1 DEF StageSound
  <1> QED BY <1>1, <1>2, <1>3, <1>5, <1>7, <1>8, ProcessMoves

\* cmd.Wait: what the readers have not got by now is lost.
LEMMA WaitStep ==
    ASSUME RunInv, Wait
    PROVE  RunInv'
  <1> USE DEF RunInv
  <1>1. /\ run.proc = "exited" /\ ~run.reaped /\ (req.stage = "office" => ~run.child)
        /\ run' = [run EXCEPT !.reaped = TRUE, !.out = Lost("out"), !.diag = Lost("diag")]
        /\ fate' = fate \cup (IF "full" \in {run.out, run.diag} THEN {"cut"} ELSE {})
        /\ UNCHANGED <<doc, endpoint, req, made>>
    BY DEF Wait
  <1>2. /\ req.at \in Running /\ run \in Runs /\ fate \in SUBSET Fates
        /\ made \in [mht : Outputs, pdf : Outputs] /\ ~run.child
    BY <1>1, Unreaped DEF RunTypes, ProcSound
  <1>3. /\ Lost("out") \in Pipes /\ Lost("diag") \in Pipes
        /\ Lost("out") = IF run.out = "full" THEN "lost" ELSE run.out
        /\ Lost("diag") = IF run.diag = "full" THEN "lost" ELSE run.diag
    BY <1>2 DEF Lost, Runs, Pipes
  <1>4. /\ run' \in Runs /\ run'.proc = "exited" /\ run'.code = run.code
        /\ run'.hint = run.hint /\ ~run'.child /\ run'.reaped
        /\ run'.out = Lost("out") /\ run'.diag = Lost("diag")
    BY <1>1, <1>2, <1>3 DEF Runs
  <1>5. fate' \in SUBSET Fates /\ ("full" \in {run.out, run.diag} => "cut" \in fate')
    BY <1>1, <1>2 DEF Fates
  <1>6. fate \subseteq fate' BY <1>1
  <1>7. ProcSound' BY <1>1, <1>2, <1>3, <1>4, <1>6 DEF ProcSound
  <1>8. CanOpen' = CanOpen /\ Probing' = Probing BY <1>1 DEF CanOpen, Probing
  <1>9. CodeSound' BY <1>1, <1>2, <1>3, <1>4, <1>5, <1>6, <1>8 DEF CodeSound
  <1>10. StageSound' BY <1>1 DEF StageSound
  <1> QED BY <1>1, <1>2, <1>4, <1>5, <1>7, <1>9, <1>10, ProcessMoves

\* The timer: the process is killed, or was dead already.
LEMMA TimeoutStep ==
    ASSUME RunInv, Timeout
    PROVE  RunInv'
  <1> USE DEF RunInv
  <1>1. /\ req.at = "wait" /\ Kill /\ req' = [req EXCEPT !.at = "killed"]
        /\ fate' = fate \cup {"timeout"} /\ UNCHANGED <<doc, endpoint>>
    BY DEF Timeout
  <1>2. /\ req \in Reqs /\ run \in Runs /\ fate \in SUBSET Fates
        /\ made \in [mht : Outputs, pdf : Outputs] /\ run.proc # "none"
        /\ req.stage # "none" /\ req.err \in {"none", "license_expired"}
    BY <1>1 DEF RunTypes, ProcSound, Routes, Running
  <1>3. /\ req' \in Reqs /\ req'.at = "killed" /\ req'.err = req.err
        /\ req'.stage = req.stage /\ req'.format = req.format
    BY <1>1, <1>2, MoveFacts DEF Running
  <1>4. /\ run' \in Runs /\ run'.proc = "exited" /\ run'.out = run.out
        /\ run'.diag = run.diag /\ run'.hint = run.hint /\ run'.child = run.child
        /\ run'.reaped = run.reaped
        /\ run'.code = IF run.proc = "exited" THEN run.code ELSE -1
    <2>1. CASE run.proc = "exited" BY <1>1, <1>2, <2>1 DEF Kill
    <2>2. CASE run.proc # "exited" BY <1>1, <1>2, <2>2 DEF Kill, Runs
    <2> QED BY <2>1, <2>2
  <1>5. fate' \in SUBSET Fates /\ "timeout" \in fate' /\ fate \subseteq fate'
    BY <1>1, <1>2 DEF Fates
  <1>6. /\ made' \in [mht : Outputs, pdf : Outputs]
        /\ run.proc = "exited" \/ req.stage = "office" => made' = made
    <2>1. CASE run.proc = "exited" \/ Probing \/ req.stage = "office"
      BY <1>2, <2>1 DEF Timeout
    <2>2. CASE ~(run.proc = "exited" \/ Probing \/ req.stage = "office")
      <3>1. PICK x \in {"none", "partial"} : made' = [made EXCEPT ![Target] = x]
        BY <2>2 DEF Timeout
      <3>2. Target \in {"mht", "pdf"} BY DEF Target
      <3> QED BY <1>2, <2>2, <3>1, <3>2 DEF Outputs
    <2> QED BY <2>1, <2>2
  <1>7. RunTypes' BY <1>1, <1>3, <1>4, <1>5, <1>6 DEF RunTypes
  <1>8. Routes' BY <1>1, <1>2, <1>3 DEF Routes, Before
  <1>9. ProcSound' BY <1>1, <1>2, <1>3, <1>4, <1>5 DEF ProcSound, Running
  <1>10. CanOpen' = CanOpen /\ Probing' = Probing BY <1>1, <1>3 DEF CanOpen, Probing
  <1>11. CodeSound'
    BY <1>1, <1>3, <1>4, <1>5, <1>6, <1>10 DEF CodeSound, Running
  <1>12. StageSound' BY <1>1, <1>3, <1>6 DEF StageSound
  <1>13. RefusalHasCause' /\ OkIsBacked' BY <1>3 DEF RefusalHasCause, OkIsBacked, Ended
  <1> QED BY <1>7, <1>8, <1>9, <1>11, <1>12, <1>13

-----------------------------------------------------------------------------
(* What the callers do with the result of a process.                       *)

\* The state in which a process that was not killed has finished.
LEMMA FinishedFacts ==
    ASSUME RunInv, NEW e, Finished(e)
    PROVE  /\ req.at = "wait" /\ req \in Reqs /\ run.reaped /\ run.proc = "exited"
           /\ run.code \in {0, 1, 2, 3, 137, -1} /\ ErrorOf(run.code) = e
           /\ run.out \in {"empty", "read", "lost"} /\ run.diag \in {"empty", "read", "lost"}
           /\ req.stage \in Stages /\ fate \in SUBSET Fates
           /\ made \in [mht : Outputs, pdf : Outputs] /\ doc \in Documents
           /\ req.err \in {"none", "license_expired"}
           /\ req.stage # "html" => endpoint = "convert"
           /\ req.stage = "html" => endpoint = "html/aspose"
  <1>1. req.at = "wait" /\ run.reaped /\ ErrorOf(run.code) = e BY DEF Finished
  <1> QED BY <1>1 DEF RunInv, RunTypes, Reqs, Runs, Pipes, Routes, ProcSound, Running

\* Only exit code 0 is success.
LEMMA CodeOfNone ==
    ASSUME NEW rc \in {0, 1, 2, 3, 137, -1}
    PROVE  /\ ErrorOf(rc) = "none" => rc = 0
           /\ ErrorOf(rc) = "input_unprocessable" => rc = 3
           /\ ErrorOf(rc) = "license_expired" => rc = 2
           /\ ErrorOf(rc) = "render_failed" => rc \in {1, 2, 3, 137, -1}
           /\ ErrorOf(rc) = "render_failed" /\ req.stage # "office" => rc \in {1, 137, -1}
  BY DEF ErrorOf, MapExitCode

\* A stage that fails for a cause ends the request.
LEMMA StageFailsSound ==
    ASSUME RunInv, req.at \in Running, run.reaped,
           NEW e \in {"license_expired", "input_unprocessable", "render_failed"}, StageFails(e),
           UNCHANGED <<doc, endpoint, run, made, fate>>,
           e = "input_unprocessable" \/ req.stage = "retry" =>
               fate \cap {"vague", "cut", "unspawned", "licence", "crashed", "timeout"} # {}
    PROVE  RunInv'
  <1>1. /\ req \in Reqs /\ req.at # "ended" /\ made \in [mht : Outputs, pdf : Outputs]
        /\ fate \in SUBSET Fates
    BY DEF RunInv, RunTypes, Running
  <1> DEFINE x == IF req.stage = "retry" THEN "input_unprocessable" ELSE e
  <1>2. x \in Errors /\ x # "none" BY DEF Errors
  <1>3. End(x) BY DEF StageFails
  <1>4. x = "input_unprocessable" => e = "input_unprocessable" \/ req.stage = "retry" OBVIOUS
  <1> HIDE DEF x
  <1>5. /\ req' \in Reqs /\ req'.at = "ended" /\ req'.err = x
        /\ req'.stage = req.stage /\ req'.format = req.format
    BY <1>1, <1>2, <1>3, EndFacts
  <1>6. RefusalHasCause' BY <1>4, <1>5 DEF RefusalHasCause
  <1>7. OkIsBacked' BY <1>2, <1>5 DEF OkIsBacked
  <1> QED BY <1>1, <1>5, <1>6, <1>7, HandlerEnds

\* After the timeout.
LEMMA KilledStep ==
    ASSUME RunInv, Killed
    PROVE  RunInv'
  <1>1. /\ req.at = "killed" /\ run.reaped /\ StageFails("render_failed")
        /\ UNCHANGED <<doc, endpoint, run, made, fate>>
    BY DEF Killed
  <1>2. "timeout" \in fate BY <1>1 DEF RunInv, ProcSound
  <1>3. fate \cap {"vague", "cut", "unspawned", "licence", "crashed", "timeout"} # {} BY <1>2
  <1> QED BY <1>1, <1>3, StageFailsSound DEF Running

\* The heart of RefusalHasCause: a refusal with a reason that was read is of a
\* document of another format, and the retry is for the format that it has.
LEMMA RetryFormatFact ==
    ASSUME NEW d \in Documents, NEW h \in Hints(d.real), h # "vague", NEW f, d.real # f
    PROVE  MismatchRetryFormat(h, f) = d.real /\ d.real # "none"
  <1>1. d.real \in Formats BY DEF Documents
  <1>2. CASE d.real = "docx" BY <1>2 DEF Hints, MismatchRetryFormat
  <1>3. CASE d.real = "xlsx" BY <1>3 DEF Hints, MismatchRetryFormat
  <1>4. CASE d.real = "pptx" BY <1>4 DEF Hints, MismatchRetryFormat
  <1>5. CASE d.real \in {"pdf", "none"} BY <1>5 DEF Hints
  <1> QED BY <1>1, <1>2, <1>3, <1>4, <1>5 DEF Formats

\* Why a process that finished with an error did: of a refusal without a cause
\* outside the orchestrator the reason was read, and the worker could not open
\* the document.
LEMMA FailureCause ==
    ASSUME RunInv, NEW e \in {"license_expired", "input_unprocessable", "render_failed"},
           Finished(e), req.stage # "office"
    PROVE  \/ fate \cap {"vague", "cut", "unspawned", "licence", "crashed", "timeout"} # {}
           \/ /\ e = "input_unprocessable" /\ run.diag = "read" /\ ~CanOpen
              /\ run.hint \in Hints(doc.real) /\ run.hint # "vague"
  <1>1. /\ req.at = "wait" /\ run.code \in {0, 1, 2, 3, 137, -1} /\ ErrorOf(run.code) = e
        /\ run.diag \in {"empty", "read", "lost"}
    BY FinishedFacts
  <1>2. CodeSound BY DEF RunInv
  <1>3. CASE e = "license_expired"
    <2>1. run.code = 2 BY <1>1, <1>3, CodeOfNone
    <2>2. "licence" \in fate BY <1>1, <1>2, <2>1 DEF CodeSound, Running
    <2> QED BY <2>2
  <1>4. CASE e = "render_failed"
    <2>1. run.code \in {1, 137, -1} BY <1>1, <1>4, CodeOfNone
    <2>2. "crashed" \in fate BY <1>1, <1>2, <2>1 DEF CodeSound, Running
    <2> QED BY <2>2
  <1>5. CASE e = "input_unprocessable"
    <2>1. run.code = 3 BY <1>1, <1>5, CodeOfNone
    <2>2. /\ run.diag # "empty"
          /\ IF run.hint = "vague" THEN "vague" \in fate ELSE ~CanOpen /\ run.hint \in Hints(doc.real)
          /\ run.diag = "lost" => "cut" \in fate
      BY <1>1, <1>2, <2>1 DEF CodeSound, Running
    <2>3. CASE run.diag = "lost" BY <2>2, <2>3
    <2>4. CASE run.hint = "vague" BY <2>2, <2>4
    <2>5. CASE run.diag = "read" /\ run.hint # "vague" BY <1>5, <2>2, <2>5
    <2> QED BY <1>1, <2>2, <2>3, <2>4, <2>5
  <1> QED BY <1>3, <1>4, <1>5

\* An error: a probe is retried, everything else fails.
LEMMA RunFailedStep ==
    ASSUME RunInv, RunFailed
    PROVE  RunInv'
  <1>1. PICK e \in {"license_expired", "input_unprocessable", "render_failed"} :
            /\ Finished(e)
            /\ IF e = "input_unprocessable" /\ req.stage = "probe" /\ RetryFormat # "none"
               THEN Start("retry", RetryFormat)
               ELSE StageFails(e)
    BY DEF RunFailed
  <1>2. UNCHANGED <<doc, endpoint, run, made, fate>> BY DEF RunFailed
  <1>3. /\ req.at = "wait" /\ req \in Reqs /\ run.reaped /\ doc \in Documents
        /\ run.diag \in {"empty", "read", "lost"}
        /\ run.code \in {0, 1, 2, 3, 137, -1} /\ ErrorOf(run.code) = e
        /\ req.stage \in Stages /\ (req.stage # "html" => endpoint = "convert")
    BY <1>1, FinishedFacts
  <1>4. CASE req.stage = "office"
    <2>1. StageFails(e) BY <1>1, <1>4
    <2>2. e # "input_unprocessable" BY <1>3, <1>4 DEF ErrorOf
    <2> QED BY <1>2, <1>3, <1>4, <2>1, <2>2, StageFailsSound DEF Running
  <1>5. CASE req.stage # "office" /\ e = "input_unprocessable" /\ req.stage = "probe" /\ RetryFormat # "none"
    <2>1. Start("retry", RetryFormat) BY <1>1, <1>5
    <2>2. run.diag = "read" /\ RetryFormat = MismatchRetryFormat(run.hint, req.format)
      BY <1>5 DEF RetryFormat
    <2>3. run.code = 3 BY <1>3, <1>5, CodeOfNone
    <2>4. IF run.hint = "vague" THEN "vague" \in fate ELSE ~CanOpen /\ run.hint \in Hints(doc.real)
      BY <1>3, <2>3 DEF RunInv, CodeSound, Running
    <2>5. run.hint # "vague" BY <1>5, <2>2 DEF MismatchRetryFormat
    <2>6. doc.real # req.format BY <1>5, <2>4, <2>5 DEF CanOpen
    <2>7. RetryFormat = doc.real BY <1>3, <2>2, <2>4, <2>5, <2>6, RetryFormatFact
    <2>8. RetryFormat \in Formats BY <1>3, <2>7 DEF Documents
    <2>9. "retry" \in Stages BY DEF Stages
    <2> HIDE DEF RetryFormat
    <2> QED BY <1>2, <1>3, <1>5, <2>1, <2>7, <2>8, <2>9, HandlerStarts
  <1>6. CASE req.stage # "office" /\ ~(e = "input_unprocessable" /\ req.stage = "probe" /\ RetryFormat # "none")
    <2>1. StageFails(e) BY <1>1, <1>6
    <2>2. fate \cap {"vague", "cut", "unspawned", "licence", "crashed", "timeout"} # {}
      <3> SUFFICES ASSUME e = "input_unprocessable", run.diag = "read", ~CanOpen,
                          run.hint \in Hints(doc.real), run.hint # "vague"
                   PROVE  FALSE
        BY <1>1, <1>6, FailureCause
      <3>1. req.stage \in {"probe", "retry"} /\ doc.real # req.format BY DEF CanOpen
      <3>2. req.stage = "probe" BY <3>1 DEF RunInv, StageSound
      <3>3. RetryFormat = doc.real /\ doc.real # "none"
        BY <1>3, <3>1, RetryFormatFact DEF RetryFormat
      <3> QED BY <1>6, <3>2, <3>3
    <2> QED BY <1>2, <1>3, <2>1, <2>2, StageFailsSound DEF Running
  <1> QED BY <1>4, <1>5, <1>6

\* The probe's result.
LEMMA ProbeDoneStep ==
    ASSUME RunInv, ProbeDone
    PROVE  RunInv'
  <1>1. /\ Finished("none") /\ req.stage \in {"probe", "retry"}
        /\ UNCHANGED <<doc, endpoint, run, made, fate>>
    BY DEF ProbeDone
  <1>2. /\ req.at = "wait" /\ req \in Reqs /\ run.reaped /\ run.proc = "exited"
        /\ run.code \in {0, 1, 2, 3, 137, -1} /\ ErrorOf(run.code) = "none"
        /\ run.out \in {"empty", "read", "lost"} /\ fate \in SUBSET Fates
        /\ made \in [mht : Outputs, pdf : Outputs] /\ req.err \in {"none", "license_expired"}
    BY <1>1, FinishedFacts
  <1>3. run.code = 0 BY <1>2, CodeOfNone
  <1>4. /\ run.out # "empty" /\ doc.real = req.format
        /\ run.out = "lost" => "cut" \in fate
    BY <1>1, <1>2, <1>3 DEF RunInv, CodeSound, CanOpen, Running
  <1>5. CASE run.out = "read"
    <2>1. PICK n \in {0, 1} : req' = [req EXCEPT !.at = "ended", !.pages = n]
      BY <1>5 DEF ProbeDone
    <2>5. n \in Int OBVIOUS
    <2>2. /\ req' \in Reqs /\ req'.at = "ended" /\ req'.err = req.err
          /\ req'.stage = req.stage /\ req'.format = req.format
      BY <1>2, <2>1, <2>5 DEF Reqs
    <2>3. RefusalHasCause' BY <1>2, <2>2 DEF RefusalHasCause
    <2>4. OkIsBacked' BY <1>1, <1>4, <1>5, <2>2 DEF OkIsBacked
    <2> QED BY <1>1, <1>2, <2>2, <2>3, <2>4, HandlerEnds
  <1>6. CASE run.out # "read"
    <2>1. StageFails("input_unprocessable") BY <1>6 DEF ProbeDone
    <2>2. "cut" \in fate BY <1>2, <1>4, <1>6
    <2>3. fate \cap {"vague", "cut", "unspawned", "licence", "crashed", "timeout"} # {} BY <2>2
    <2> QED BY <1>1, <1>2, <2>1, <2>3, StageFailsSound DEF Running
  <1> QED BY <1>5, <1>6

\* The stages of the e-mail pipeline.
LEMMA MhtDoneStep ==
    ASSUME RunInv, MhtDone
    PROVE  RunInv'
  <1>1. /\ Finished("none") /\ req.stage = "mht"
        /\ UNCHANGED <<doc, endpoint, run, made, fate>>
    BY DEF MhtDone
  <1>2. /\ req.at = "wait" /\ req \in Reqs /\ run.reaped /\ fate \in SUBSET Fates
        /\ made \in [mht : Outputs, pdf : Outputs] /\ endpoint = "convert"
    BY <1>1, FinishedFacts
  <1>3. CASE End("render_failed")
    <2>1. /\ req' \in Reqs /\ req'.at = "ended" /\ req'.err = "render_failed"
          /\ req'.stage = req.stage /\ req'.format = req.format
      BY <1>2, <1>3, EndFacts DEF Errors
    <2> QED BY <1>1, <1>2, <2>1, PlainError, HandlerEnds
  <1>4. CASE Start("pages", "docx")
    BY <1>1, <1>2, <1>4, HandlerStarts DEF Stages, Formats
  <1> QED BY <1>3, <1>4 DEF MhtDone

\* The message's page count.
LEMMA PagesDoneStep ==
    ASSUME RunInv, PagesDone
    PROVE  RunInv'
  <1>1. /\ Finished("none") /\ req.stage = "pages"
        /\ UNCHANGED <<doc, endpoint, run, made, fate>>
    BY DEF PagesDone
  <1>2. /\ req.at = "wait" /\ req \in Reqs /\ run.reaped /\ fate \in SUBSET Fates
        /\ made \in [mht : Outputs, pdf : Outputs] /\ endpoint = "convert"
    BY <1>1, FinishedFacts
  <1>3. CASE End("render_failed")
    <2>1. /\ req' \in Reqs /\ req'.at = "ended" /\ req'.err = "render_failed"
          /\ req'.stage = req.stage /\ req'.format = req.format
      BY <1>2, <1>3, EndFacts DEF Errors
    <2> QED BY <1>1, <1>2, <2>1, PlainError, HandlerEnds
  <1>4. CASE Start("pdf", "docx")
    BY <1>1, <1>2, <1>4, HandlerStarts DEF Stages, Formats
  <1> QED BY <1>3, <1>4 DEF PagesDone

\* A stage whose PDF is the result ends the request with it or with an error.
LEMMA ResultSound ==
    ASSUME RunInv, Finished("none"), req.stage \in {"pdf", "office", "html"},
           UNCHANGED <<doc, endpoint, run, made, fate>>,
           NEW e \in {"none", "render_failed"}, End(e),
           e = "none" => made.pdf = "whole" \/ (endpoint = "convert" /\ made.pdf = "junk")
    PROVE  RunInv'
  <1>1. /\ req.at = "wait" /\ req \in Reqs /\ run.reaped /\ fate \in SUBSET Fates
        /\ made \in [mht : Outputs, pdf : Outputs]
    BY FinishedFacts
  <1>2. /\ req' \in Reqs /\ req'.at = "ended" /\ req'.err = e
        /\ req'.stage = req.stage /\ req'.format = req.format
    BY <1>1, EndFacts DEF Errors
  <1>3. RefusalHasCause' BY <1>2 DEF RefusalHasCause
  <1>4. OkIsBacked' BY <1>2 DEF OkIsBacked
  <1> QED BY <1>1, <1>2, <1>3, <1>4, HandlerEnds

\* The e-mail's PDF, which is only looked for.
LEMMA PdfDoneStep ==
    ASSUME RunInv, PdfDone
    PROVE  RunInv'
  <1>1. /\ Finished("none") /\ req.stage = "pdf"
        /\ End(IF made.pdf = "none" THEN "render_failed" ELSE "none")
        /\ UNCHANGED <<doc, endpoint, run, made, fate>>
    BY DEF PdfDone
  <1>2. /\ req.at = "wait" /\ run.proc = "exited" /\ endpoint = "convert"
        /\ run.code \in {0, 1, 2, 3, 137, -1} /\ ErrorOf(run.code) = "none"
    BY <1>1, FinishedFacts
  <1>3. run.code = 0 BY <1>2, CodeOfNone
  <1>4. made.pdf \in {"whole", "junk", "none"}
    BY <1>1, <1>2, <1>3 DEF RunInv, CodeSound, Running
  <1>5. CASE made.pdf = "none"
    <2>1. End("render_failed") BY <1>1, <1>5
    <2> QED BY <1>1, <2>1, ResultSound
  <1>6. CASE made.pdf # "none"
    <2>1. End("none") BY <1>1, <1>6
    <2> QED BY <1>1, <1>2, <1>4, <1>6, <2>1, ResultSound
  <1> QED BY <1>5, <1>6

\* LibreOffice's PDF.
LEMMA OfficeDoneStep ==
    ASSUME RunInv, OfficeDone
    PROVE  RunInv'
  <1>1. /\ Finished("none") /\ req.stage = "office"
        /\ End(IF made.pdf = "none" THEN "render_failed" ELSE "none")
        /\ UNCHANGED <<doc, endpoint, run, made, fate>>
    BY DEF OfficeDone
  <1>2. made.pdf \in {"whole", "none"} BY <1>1 DEF RunInv, StageSound
  <1>3. CASE made.pdf = "none"
    <2>1. End("render_failed") BY <1>1, <1>3
    <2> QED BY <1>1, <2>1, ResultSound
  <1>4. CASE made.pdf # "none"
    <2>1. End("none") BY <1>1, <1>4
    <2> QED BY <1>1, <1>2, <1>4, <2>1, ResultSound
  <1> QED BY <1>3, <1>4

\* The PDF of an HTML document, whose magic number is checked.
LEMMA HtmlDoneStep ==
    ASSUME RunInv, HtmlDone
    PROVE  RunInv'
  <1>1. /\ Finished("none") /\ req.stage = "html"
        /\ End(IF made.pdf \in {"none", "junk"} THEN "render_failed" ELSE "none")
        /\ UNCHANGED <<doc, endpoint, run, made, fate>>
    BY DEF HtmlDone
  <1>2. /\ req.at = "wait" /\ run.proc = "exited"
        /\ run.code \in {0, 1, 2, 3, 137, -1} /\ ErrorOf(run.code) = "none"
    BY <1>1, FinishedFacts
  <1>3. run.code = 0 BY <1>2, CodeOfNone
  <1>4. made.pdf \in {"whole", "junk", "none"}
    BY <1>1, <1>2, <1>3 DEF RunInv, CodeSound, Running
  <1>5. CASE made.pdf \in {"none", "junk"}
    <2>1. End("render_failed") BY <1>1, <1>5
    <2> QED BY <1>1, <2>1, ResultSound
  <1>6. CASE made.pdf \notin {"none", "junk"}
    <2>1. End("none") BY <1>1, <1>6
    <2> QED BY <1>1, <1>4, <1>6, <2>1, ResultSound
  <1> QED BY <1>5, <1>6

\* A step of the licence manager, of the operator, or of nobody.
LEMMA QuietRunStep ==
    ASSUME RunInv, UNCHANGED <<doc, endpoint, req, run, made, fate>>
    PROVE  RunInv'
  BY DEF RunInv, RunTypes, Routes, ProcSound, CodeSound, StageSound, RefusalHasCause,
         OkIsBacked, CanOpen, Probing, Ended, IsHTMLUpload, LooksLikeHTML, HasHTMLExtension

\* Every step keeps RunInv.
LEMMA RunInvStep == RunInv /\ [Next]_vars => RunInv'
  <1> SUFFICES ASSUME RunInv, [Next]_vars PROVE RunInv' OBVIOUS
  <1>1. CASE Handler
    BY <1>1, GateStep, GateDateStep, NormalizeCSVStep, DispatchStep, ProbeStep, SpawnStep,
       TimeoutStep, KilledStep, RunFailedStep, ProbeDoneStep, MhtDoneStep, PagesDoneStep,
       PdfDoneStep, OfficeDoneStep, HtmlDoneStep, ConvertHTMLStep
       DEF Handler
  <1>2. CASE Process
    BY <1>2, ApplyLicenseStep, WorkerSucceedsStep, WorkerRefusesStep, WorkerFailsStep,
       QpdfPageCountStep, SofficeForksStep, SofficeBinEndsStep, SofficeExitsStep
       DEF Process
  <1>3. CASE Goroutine BY <1>3, WaitStep, ReadPipeStep DEF Goroutine
  <1>4. CASE OperatorActs BY <1>4, QuietRunStep DEF OperatorActs
  <1>5. ASSUME NEW c \in Callers, AskLicense(c) PROVE RunInv'
    BY <1>5, QuietRunStep DEF AskLicense
  <1>6. CASE Done \/ UNCHANGED vars BY <1>6, QuietRunStep DEF Done, vars, engineVars
  <1> QED BY <1>1, <1>2, <1>3, <1>4, <1>5, <1>6 DEF Next

-----------------------------------------------------------------------------
(* The licence manager beside the request.                                 *)

\* Every step keeps LicenseInv: apart from the manager and the operator, only a
\* refusal at the licence check touches the manager's callers.
LEMMA LicenseInvStep == LicenseInv /\ [Next]_vars => LicenseInv'
  <1> SUFFICES ASSUME LicenseInv, [Next]_vars PROVE LicenseInv' OBVIOUS
  <1>1. ASSUME UNCHANGED licenseVars PROVE LicenseInv'
    BY <1>1 DEF licenseVars, LicenseInv, LicenseTypes, StatSound, KeptSound, HitSound, VerdictFresh
  <1>2. CASE Gate
    <2>1. /\ UNCHANGED <<file, today, mu, mgr, changes, during, used, reused>>
          /\ ask' = ask \/ (ask[Req].at = "judged" /\ ask' = [ask EXCEPT ![Req].at = "idle"])
      BY <1>2 DEF Gate
    <2>2. CASE ask' = ask BY <1>1, <2>1, <2>2 DEF licenseVars
    <2>3. CASE ask[Req].at = "judged" /\ ask' = [ask EXCEPT ![Req].at = "idle"]
      <3> USE DEF LicenseInv
      <3>1. ask \in [Callers -> Asks] /\ Req \in Callers BY EnginesAssumption DEF LicenseTypes
      <3>2. ask' \in [Callers -> Asks] BY <2>3, <3>1, AskTypes
      <3>3. /\ ask'[Req].at = "idle"
            /\ \A c \in Callers \ {Req} : ask'[c] = ask[c]
        BY <2>3, <3>1 DEF Asks
      <3>4. LicenseTypes' BY <2>1, <3>2 DEF LicenseTypes
      <3>5. StatSound' BY <2>1, <3>3 DEF StatSound
      <3>6. KeptSound' BY <2>1 DEF KeptSound
      <3>7. HitSound' BY <2>1, <3>3 DEF HitSound
      <3>8. VerdictFresh' BY <2>1, <3>3 DEF VerdictFresh
      <3> QED BY <3>4, <3>5, <3>6, <3>7, <3>8
    <2> QED BY <2>1, <2>2, <2>3
  <1>3. CASE OperatorActs BY <1>3, OperatorKeepsLicense DEF OperatorActs
  <1>4. ASSUME NEW c \in Callers, AskLicense(c) PROVE LicenseInv'
    BY <1>4, StatLicenseStep, ReadLicenseStep, JudgeStep DEF AskLicense, ManagerStep
  <1>5. CASE Handler
    <2>1. CASE Gate BY <1>2, <2>1
    <2>2. CASE ~Gate
      <3>1. UNCHANGED licenseVars
        BY <1>5, <2>2 DEF Handler, GateDate, NormalizeCSV, Dispatch, Probe, Spawn, Timeout, Killed,
           RunFailed, ProbeDone, MhtDone, PagesDone, PdfDone, OfficeDone, HtmlDone, ConvertHTML
      <3> QED BY <1>1, <3>1
    <2> QED BY <2>1, <2>2
  <1>6. CASE Process \/ Goroutine
    <2>1. UNCHANGED licenseVars
      BY <1>6 DEF Process, Goroutine, ApplyLicense, WorkerSucceeds, WorkerRefuses, WorkerFails,
         QpdfPageCount, SofficeForks, SofficeBinEnds, SofficeExits, Wait, ReadPipe
    <2> QED BY <1>1, <2>1
  <1>7. CASE Done \/ UNCHANGED vars BY <1>1, <1>7 DEF Done, vars
  <1> QED BY <1>3, <1>4, <1>5, <1>6, <1>7 DEF Next

\* A verdict without a problem, of the file that is there now, is the worker's.
LEMMA VerdictHolds ==
    ASSUME LicenseTypes, Problem(Parsed(file.content)) = "none"
    PROVE  LicenceHolds
  <1>1. file.content \in Files BY DEF LicenseTypes
  <1>2. CASE file.content = Absent
    <2>1. Parsed(file.content).kind = "missing" BY <1>2 DEF Parsed, Expiry, Absent, Malformed
    <2> QED BY <2>1 DEF Problem, IsExpired
  <1>3. CASE file.content = Malformed
    <2>1. Parsed(file.content).kind = "invalid" BY <1>3 DEF Parsed, Expiry, Absent, Malformed
    <2> QED BY <2>1 DEF Problem, IsExpired
  <1>4. ASSUME NEW d \in Licences, file.content = Licence(d) PROVE LicenceHolds
    <2>1. file.content.kind = "licence" /\ file.content.dates = d BY <1>4 DEF Licence
    <2>2. CASE d = {} BY <2>1, <2>2 DEF LicenceHolds
    <2>3. CASE d # {}
      <3> DEFINE e == Parsed(file.content)
      <3>1. e.kind = "date" /\ e.day \in d /\ \A b \in d : e.day <= b
        BY <1>4, <2>3, ParsedDate
      <3>2. Problem(e) = "none" OBVIOUS
      <3> HIDE DEF e
      <3>3. ~IsExpired(e) BY <3>1, <3>2 DEF Problem, IsExpired
      <3>4. e.day \in Int /\ today \in Nat /\ d \subseteq Int
        BY <3>1, LicenseAssumption DEF LicenseTypes
      <3>5. today <= e.day BY <3>1, <3>3, <3>4 DEF IsExpired
      <3>6. \A b \in d : today <= b BY <3>1, <3>4, <3>5
      <3> QED BY <2>1, <3>6 DEF LicenceHolds
    <2> QED BY <2>2, <2>3
  <1> QED BY <1>1, <1>2, <1>3, <1>4 DEF Files, Contents

\* The initial state satisfies GateInv.
LEMMA GateInvInit == Init => GateInv
  <1> SUFFICES ASSUME Init PROVE GateInv OBVIOUS
  <1>1. ask[Req].at = "idle" BY EnginesAssumption DEF Init, LicenseInit
  <1>2. req.at = "gate" /\ fate = {} BY DEF Init
  <1> QED BY <1>1, <1>2 DEF GateInv, PastGate, CalmSound, GateForesees

\* A step that leaves the licence file, its callers and the history of refusals
\* alone, and starts no request past the check.
LEMMA QuietGateStep ==
    ASSUME GateInv, UNCHANGED <<licenseVars, endpoint, calm>>,
           "licence" \in fate' => "licence" \in fate,
           \/ req'.at = "ended"
           \/ req.at \in {"csv", "dispatch", "lite", "qpdf", "spawn", "wait", "killed"}
           \/ req'.at = req.at
    PROVE  GateInv'
  <1> USE DEF GateInv, licenseVars
  <1>1. PastGate' BY DEF PastGate, HasGate
  <1>2. CalmSound' BY DEF CalmSound, Problem, IsExpired
  <1>3. GateForesees' BY DEF GateForesees
  <1> QED BY <1>1, <1>2, <1>3

\* The licence check itself.
LEMMA GateKeepsGate ==
    ASSUME RunInv, LicenseInv, GateInv, Gate
    PROVE  GateInv'
  <1>1. /\ req.at = "gate" /\ fate = {} /\ fate' = fate /\ req \in Reqs
        /\ UNCHANGED <<file, today, endpoint, calm, during>>
        /\ ask \in [Callers -> Asks] /\ Req \in Callers
    BY EnginesAssumption DEF Gate, RunInv, RunTypes, Routes, Before, LicenseInv, LicenseTypes
  <1>2. GateForesees' BY <1>1 DEF GateForesees
  <1>3. CASE UNCHANGED ask /\ Admitted /\ (HasGate => ask[Req].at = "judged" /\ ask[Req].problem = "none")
    <2>1. PastGate' BY <1>1, <1>3 DEF PastGate, HasGate
    <2>2. CalmSound' BY <1>1, <1>3 DEF GateInv, CalmSound, Problem, IsExpired
    <2> QED BY <1>2, <2>1, <2>2 DEF GateInv
  <1>4. CASE UNCHANGED ask /\ End("license_expired")
    <2>1. req'.at = "ended" BY <1>1, <1>4, EndFacts DEF Errors
    <2>2. PastGate' BY <2>1 DEF PastGate
    <2>3. CalmSound' BY <1>1, <1>4 DEF GateInv, CalmSound, Problem, IsExpired
    <2> QED BY <1>2, <2>2, <2>3 DEF GateInv
  <1>5. CASE /\ req' = [req EXCEPT !.at = "date", !.err = "license_expired"]
             /\ ask' = [ask EXCEPT ![Req].at = "idle"]
    <2>1. req'.at = "date" /\ ask'[Req].at = "idle" BY <1>1, <1>5 DEF Reqs, Asks
    <2> QED BY <1>2, <2>1 DEF GateInv, PastGate, CalmSound
  <1> QED BY <1>3, <1>4, <1>5 DEF Gate

\* The worker's licence check, which must agree with the handler's.
LEMMA ApplyKeepsGate ==
    ASSUME RunInv, LicenseInv, GateInv, ApplyLicense
    PROVE  GateInv'
  <1>1. /\ run.proc = "started" /\ UNCHANGED <<licenseVars, endpoint, req, calm>>
    BY DEF ApplyLicense
  <1>2. req.at = "wait" /\ req.stage # "none" BY <1>1, Living
  <1>3. PastGate' BY <1>1 DEF GateInv, PastGate, HasGate, licenseVars
  <1>4. CalmSound' BY <1>1 DEF GateInv, CalmSound, licenseVars, Problem, IsExpired
  <1>5. CASE LicenceHolds
    <2>1. fate' = fate BY <1>5 DEF ApplyLicense
    <2> QED BY <1>1, <1>3, <1>4, <2>1 DEF GateInv, GateForesees, licenseVars
  <1>6. CASE ~LicenceHolds
    <2>1. calm => file.content = Absent \/ ask[Req].stat \in reused
      <3> SUFFICES ASSUME calm PROVE file.content = Absent \/ ask[Req].stat \in reused
        OBVIOUS
      <3>1. HasGate BY <1>2 DEF RunInv, RunTypes, Routes, HasGate
      <3>2. ask[Req].at = "judged" /\ ask[Req].problem = "none"
        BY <1>2, <3>1 DEF GateInv, PastGate
      <3>3. during[Req] = {file.content} /\ Problem(ask[Req].expiry) = "none"
        BY <3>2 DEF GateInv, CalmSound
      <3>4. \/ ask[Req].expiry = Parsed(file.content)
            \/ file.content = Absent \/ ask[Req].stat \in reused
        BY <3>2, <3>3, EnginesAssumption DEF LicenseInv, VerdictFresh
      <3>5. ask[Req].expiry # Parsed(file.content)
        BY <1>6, <3>3, VerdictHolds DEF LicenseInv
      <3> QED BY <3>4, <3>5
    <2> QED BY <1>1, <1>3, <1>4, <2>1 DEF GateInv, GateForesees, licenseVars
  <1> QED BY <1>5, <1>6

\* Somebody asks for the licence: the request itself, or a poller.
LEMMA AskKeepsGate ==
    ASSUME RunInv, LicenseInv, GateInv, NEW c \in Callers, AskLicense(c)
    PROVE  GateInv'
  <1> USE DEF GateInv
  <1>1. /\ ManagerStep(c) /\ UNCHANGED <<endpoint, req, fate>>
        /\ calm' = (calm \/ (c = Req /\ ask[c].at = "idle"))
        /\ c = Req => req.at \in {"gate", "date"}
    BY DEF AskLicense
  <1>2. /\ UNCHANGED <<file, today, reused>> /\ ask \in [Callers -> Asks] /\ Req \in Callers
        /\ during \in [Callers -> SUBSET Files]
    BY <1>1, EnginesAssumption
       DEF ManagerStep, StatLicense, ReadLicense, Judge, LicenseInv, LicenseTypes
  <1>3. \A d \in Callers \ {c} : ask'[d] = ask[d] /\ during'[d] = during[d]
    BY <1>1, <1>2 DEF ManagerStep, StatLicense, ReadLicense, Judge
  <1>4. CASE c # Req
    <2>1. ask'[Req] = ask[Req] /\ during'[Req] = during[Req] /\ (calm' => calm)
      BY <1>1, <1>2, <1>3, <1>4
    <2>2. PastGate' BY <1>1, <2>1 DEF PastGate, HasGate
    <2>3. CalmSound' BY <1>2, <2>1 DEF CalmSound, Problem, IsExpired
    <2>4. GateForesees' BY <1>1, <1>2, <2>1 DEF GateForesees
    <2> QED BY <2>2, <2>3, <2>4
  <1>5. CASE c = Req
    <2>1. PastGate' BY <1>1, <1>5 DEF PastGate
    <2>2. fate = {} BY <1>1, <1>5 DEF RunInv, Routes, Before
    <2>3. GateForesees' BY <1>1, <2>2 DEF GateForesees
    <2>4. CASE StatLicense(Req)
      <3>1. ask'[Req].at = "stat" /\ during'[Req] = {file.content}
        BY <1>2, <2>4 DEF StatLicense, Asks
      <3>2. CalmSound' BY <1>2, <3>1 DEF CalmSound
      <3> QED BY <2>1, <2>3, <3>2
    <2>5. CASE ReadLicense(Req)
      <3>1. ask[Req].at = "stat" /\ during' = during BY <2>5 DEF ReadLicense
      <3>2. ask'[Req].at = "dated" BY <1>2, <2>5 DEF ReadLicense, Asks
      <3>3. CalmSound' BY <1>1, <1>2, <1>5, <3>1, <3>2 DEF CalmSound
      <3> QED BY <2>1, <2>3, <3>3
    <2>6. CASE Judge(Req)
      <3>1. ask[Req].at = "dated" /\ during' = during BY <2>6 DEF Judge
      <3>2. /\ ask'[Req].at = "judged" /\ ask'[Req].expiry = ask[Req].expiry
            /\ ask'[Req].problem = Problem(ask[Req].expiry)
        BY <1>2, <2>6 DEF Judge, Asks
      <3>3. CalmSound' BY <1>1, <1>2, <1>5, <3>1, <3>2 DEF CalmSound, Problem, IsExpired
      <3> QED BY <2>1, <2>3, <3>3
    <2> QED BY <1>1, <1>5, <2>4, <2>5, <2>6 DEF ManagerStep
  <1> QED BY <1>4, <1>5

\* Every step keeps GateInv.
LEMMA GateInvStep == RunInv /\ LicenseInv /\ GateInv /\ [Next]_vars => GateInv'
  <1> SUFFICES ASSUME RunInv, LicenseInv, GateInv, [Next]_vars PROVE GateInv' OBVIOUS
  <1>0. req \in Reqs /\ fate \in SUBSET Fates BY DEF RunInv, RunTypes
  <1>1. CASE Handler
    <2>1. CASE Gate BY <2>1, GateKeepsGate
    <2>2. CASE ~Gate
      <3>1. UNCHANGED <<licenseVars, endpoint, calm>>
        BY <1>1, <2>2 DEF Handler, GateDate, NormalizeCSV, Dispatch, Probe, Spawn, Timeout, Killed,
           RunFailed, ProbeDone, MhtDone, PagesDone, PdfDone, OfficeDone, HtmlDone, ConvertHTML
      <3>2. "licence" \in fate' => "licence" \in fate
        BY <1>1, <2>2 DEF Handler, GateDate, NormalizeCSV, Dispatch, Probe, Spawn, Timeout, Killed,
           RunFailed, ProbeDone, MhtDone, PagesDone, PdfDone, OfficeDone, HtmlDone, ConvertHTML,
           BuildFormFails
      <3>3. CASE req.at \in {"csv", "dispatch", "lite", "qpdf", "spawn", "wait", "killed"}
        BY <3>1, <3>2, <3>3, QuietGateStep
      <3>4. CASE req.at \notin {"csv", "dispatch", "lite", "qpdf", "spawn", "wait", "killed"}
        <4>1. GateDate \/ ConvertHTML
          BY <1>1, <2>2, <3>4 DEF Handler, NormalizeCSV, Dispatch, Probe, Spawn, Timeout, Killed,
             RunFailed, ProbeDone, MhtDone, PagesDone, PdfDone, OfficeDone, HtmlDone, Finished
        <4>2. req'.at = "ended"
          BY <1>0, <4>1 DEF GateDate, ConvertHTML, BuildFormFails, End, Reqs
        <4> QED BY <3>1, <3>2, <4>2, QuietGateStep
      <3> QED BY <3>3, <3>4
    <2> QED BY <2>1, <2>2
  <1>2. CASE Process
    <2>1. CASE ApplyLicense BY <2>1, ApplyKeepsGate
    <2>2. CASE QpdfPageCount
      BY <2>2, QuietGateStep DEF QpdfPageCount
    <2>3. CASE WorkerSucceeds \/ WorkerRefuses \/ WorkerFails \/ SofficeForks \/ SofficeBinEnds
               \/ SofficeExits
      <3>1. UNCHANGED <<licenseVars, endpoint, calm, req>>
        BY <2>3 DEF WorkerSucceeds, WorkerRefuses, WorkerFails, SofficeForks, SofficeBinEnds,
           SofficeExits
      <3>2. fate' = fate \/ \E x \in {"vague", "crashed"} : fate' \subseteq fate \cup {x}
        <4>1. CASE WorkerRefuses
          <5>1. PICK h : fate' = fate \cup (IF h = "vague" THEN {"vague"} ELSE {})
            BY <4>1 DEF WorkerRefuses
          <5> QED BY <5>1
        <4>2. CASE WorkerFails BY <4>2 DEF WorkerFails
        <4>3. CASE WorkerSucceeds \/ SofficeForks \/ SofficeBinEnds \/ SofficeExits
          BY <4>3 DEF WorkerSucceeds, SofficeForks, SofficeBinEnds, SofficeExits
        <4> QED BY <2>3, <4>1, <4>2, <4>3
      <3> QED BY <3>1, <3>2, QuietGateStep
    <2> QED BY <1>2, <2>1, <2>2, <2>3 DEF Process
  <1>3. CASE Goroutine BY <1>3, QuietGateStep DEF Goroutine, Wait, ReadPipe
  <1>4. CASE OperatorActs
    <2>1. ~calm' /\ UNCHANGED <<endpoint, req, ask>>
      BY <1>4 DEF OperatorActs, OperatorStep, ReplaceFile, RemoveFile, NewDay
    <2> QED BY <2>1 DEF GateInv, PastGate, HasGate, CalmSound, GateForesees
  <1>5. ASSUME NEW c \in Callers, AskLicense(c) PROVE GateInv' BY <1>5, AskKeepsGate
  <1>6. CASE Done \/ UNCHANGED vars
    BY <1>6, QuietGateStep DEF Done, vars, engineVars
  <1> QED BY <1>1, <1>2, <1>3, <1>4, <1>5, <1>6 DEF Next

\* The invariant of the whole.
LEMMA EnginesInvariant == Spec => []EnginesInv
  <1>1. Init => EnginesInv
    BY LicenseInvInit, RunInvInit, GateInvInit DEF EnginesInv, Init
  <1>2. EnginesInv /\ [Next]_vars => EnginesInv'
    BY LicenseInvStep, RunInvStep, GateInvStep DEF EnginesInv
  <1> QED BY <1>1, <1>2, PTL DEF Spec

-----------------------------------------------------------------------------
\* Whatever the operator does to the licence file and however calls overlap, a
\* verdict is about a file that was there during the call, unless the file was
\* gone or its mtime had been used twice.
THEOREM VerdictAlwaysFresh == Spec => []VerdictFresh
  <1>1. EnginesInv => VerdictFresh BY DEF EnginesInv, LicenseInv
  <1> QED BY EnginesInvariant, <1>1, PTL

\* A worker refuses the licence of an admitted request only if file or date changed
\* after the check, the file was gone, or its mtime had been used twice.
THEOREM GateAlwaysForesees == Spec => []GateForesees
  <1>1. EnginesInv => GateForesees BY DEF EnginesInv, GateInv
  <1> QED BY EnginesInvariant, <1>1, PTL

\* A document is called unprocessable only for a cause; the one that is merely
\* mislabelled is retried as what it is.
THEOREM RefusalAlwaysHasCause == Spec => []RefusalHasCause
  <1>1. EnginesInv => RefusalHasCause BY DEF EnginesInv, RunInv
  <1> QED BY EnginesInvariant, <1>1, PTL

\* A request without an error has a counted document or a finished PDF, whatever
\* happened to the processes on the way.
THEOREM OkAlwaysBacked == Spec => []OkIsBacked
  <1>1. EnginesInv => OkIsBacked BY DEF EnginesInv, RunInv
  <1> QED BY EnginesInvariant, <1>1, PTL
=============================================================================
