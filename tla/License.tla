------------------------------ MODULE License ------------------------------
(***************************************************************************)
(* The licence manager, internal/license/license.go: a cache of the        *)
(* licence file's expiry date, keyed by the file's mtime, which handlers   *)
(* and GET /health (internal/server/health.go) consult while an operator   *)
(* renews, breaks or removes the file.  ExpiryDate holds the manager's     *)
(* mutex from the stat to the end of the parse, but nothing holds the file *)
(* still.  Refresh has no caller in the program and is left out.           *)
(***************************************************************************)
EXTENDS Integers

CONSTANTS
    Callers,    \* goroutines that ask whether the licence has expired
    Licences,   \* the dates a well-formed licence file may carry
    MaxMtime,   \* bound: the file gets mtimes in 1..MaxMtime
    MaxChanges, \* bound: how often the operator touches the file
    LastDay,    \* bound: days pass up to LastDay
    Nobody      \* no caller

ASSUME LicenseAssumption ==
    /\ Nobody \notin Callers
    /\ \A d \in Licences : /\ d \subseteq Int
                           /\ d # {} => \E a \in d : \A b \in d : a <= b
    /\ MaxMtime \in Nat /\ MaxMtime >= 2 /\ MaxChanges \in Nat /\ LastDay \in Nat

Licence(dates) == [kind |-> "licence", dates |-> dates]
Malformed == [kind |-> "malformed", dates |-> {}]   \* not XML, or not a date
Absent    == [kind |-> "absent", dates |-> {}]      \* no file
Contents  == {Licence(d) : d \in Licences} \cup {Malformed}

FirstMtime == 2 \* of the file that is there first: later ones may be older
NoStat == 0     \* os.Stat failed; also the zero time of a new Manager

VARIABLES
    file,       \* content and mtime of the licence file
    today,      \* the date, UTC
    mu,         \* who holds Manager.mu
    mgr,        \* Manager: read, modTime, and expiry (with hasExp)
    ask,        \* ask[c]: c's call of IsExpired or DaysRemaining
    changes,    \* how often the operator has touched the file
    during,     \* history: during[c]: contents of the file while c read it
    used,       \* history: the mtimes the file has had
    reused      \* history: the mtimes two versions of the file have had

licenseVars == <<file, today, mu, mgr, ask, changes, during, used, reused>>

-----------------------------------------------------------------------------
(* Parsing and classification.                                             *)

Expiry(kind, day) == [kind |-> kind, day |-> day]
Permanent         == Expiry("permanent", 0)

\* parseExpiry: the error of a file that cannot be opened or parsed, or the
\* earlier of LicenseExpiry and SubscriptionExpiry, if there is any.
Parsed(x) ==
    CASE x = Absent    -> Expiry("missing", 0)
      [] x = Malformed -> Expiry("invalid", 0)
      [] OTHER         -> IF x.dates = {} THEN Permanent
                          ELSE Expiry("date", CHOOSE d \in x.dates : \A e \in x.dates : d <= e)

Failed(e) == e.kind \in {"missing", "invalid"}

\* Mutant: off by one.
IsLongExpired(e) == e.kind = "date" /\ e.day - today < -1

\* DaysRemaining and IsExpired: whole days between two dates.
IsExpired(e) == e.kind = "date" /\ e.day - today < 0

\* snapshot: the problem GET /health reports; the handlers refuse if there is one.
Problem(e) == CASE e.kind = "missing" -> "license_path_missing"
                [] e.kind = "invalid" -> "license_invalid"
                [] IsExpired(e)       -> "license_expired"
                [] OTHER              -> "none"

-----------------------------------------------------------------------------
LicenseInit ==
    /\ file \in [content : Contents \cup {Absent}, mtime : {FirstMtime}]
    /\ today = 0
    /\ mu = Nobody
    /\ mgr = [read |-> FALSE, modTime |-> NoStat, expiry |-> Permanent]
    /\ ask = [c \in Callers |-> [at |-> "idle", stat |-> NoStat,
                                 expiry |-> Permanent, problem |-> "none"]]
    /\ changes = 0
    /\ during = [c \in Callers |-> {}]
    /\ used = {FirstMtime}
    /\ reused = {}

\* m.mu.Lock(); os.Stat
StatLicense(c) ==
    /\ ask[c].at = "idle" /\ mu = Nobody
    /\ mu' = c
    /\ ask' = [ask EXCEPT ![c].at = "stat",
                          ![c].stat = IF file.content = Absent THEN NoStat ELSE file.mtime]
    /\ during' = [during EXCEPT ![c] = {file.content}]
    /\ UNCHANGED <<file, today, mgr, changes, used, reused>>

\* Mutant: only a later mtime counts as a change.
ChangedLater(c) == ask[c].stat > mgr.modTime

\* statErr == nil && !info.ModTime().Equal(m.modTime)
Changed(c) == ask[c].stat # NoStat /\ ask[c].stat # mgr.modTime

\* m.expiry, m.hasExp, m.read = exp, has, true; m.modTime = info.ModTime()
Remember(c, e) ==
    mgr' = [read |-> TRUE, expiry |-> e,
            modTime |-> IF ask[c].stat = NoStat THEN mgr.modTime ELSE ask[c].stat]

\* The rest of ExpiryDate: parse if nothing was read yet or the mtime differs,
\* and keep what was parsed unless there was an error.
ReadLicense(c) ==
    /\ ask[c].at = "stat"
    /\ LET again == ~mgr.read \/ Changed(c)
           e     == IF again THEN Parsed(file.content) ELSE mgr.expiry
       IN  /\ ask' = [ask EXCEPT ![c].at = "dated", ![c].expiry = e]
           /\ IF again /\ ~Failed(e) THEN Remember(c, e) ELSE UNCHANGED mgr
    /\ mu' = Nobody
    /\ UNCHANGED <<file, today, changes, during, used, reused>>

\* The date is compared with today's after the mutex was released.
Judge(c) ==
    /\ ask[c].at = "dated"
    /\ ask' = [ask EXCEPT ![c].at = "judged", ![c].problem = Problem(ask[c].expiry)]
    /\ UNCHANGED <<file, today, mu, mgr, changes, during, used, reused>>

-----------------------------------------------------------------------------
(* External: the operator and the calendar.  A file that is copied into    *)
(* place may get any mtime, even one that another version of it has had.   *)

Witnessed(x) == [c \in Callers |-> IF ask[c].at = "stat" THEN during[c] \cup {x} ELSE during[c]]

Touch == changes < MaxChanges /\ changes' = changes + 1

ReplaceFile ==
    /\ Touch
    /\ \E x \in Contents, m \in 1..MaxMtime :
          /\ x # file.content
          /\ file' = [content |-> x, mtime |-> m]
          /\ during' = Witnessed(x)
          /\ used' = used \cup {m}
          /\ reused' = reused \cup ({m} \cap used)
    /\ UNCHANGED <<today, mu, mgr, ask>>

RemoveFile ==
    /\ Touch
    /\ file.content # Absent
    /\ file' = [file EXCEPT !.content = Absent]
    /\ during' = Witnessed(Absent)
    /\ UNCHANGED <<today, mu, mgr, ask, used, reused>>

NewDay ==
    /\ today < LastDay
    /\ today' = today + 1
    /\ UNCHANGED <<file, mu, mgr, ask, changes, during, used, reused>>

ManagerStep(c) == StatLicense(c) \/ ReadLicense(c) \/ Judge(c)
OperatorStep   == ReplaceFile \/ RemoveFile \/ NewDay

-----------------------------------------------------------------------------
(* Properties.                                                             *)

\* A verdict is about a file that was there during the call: a renewal is
\* noticed by the next call, an error is never remembered, and a file replaced
\* between the stat and the parse is never filed under its successor's mtime.
\* Only if the file is gone, or if two versions of it have had the mtime that
\* the call saw, may it fall back on a date parsed earlier.
VerdictFresh ==
    \A c \in Callers : ask[c].at \in {"dated", "judged"} =>
        \/ \E x \in during[c] : ask[c].expiry = Parsed(x)
        \/ ~Failed(ask[c].expiry) /\ (Absent \in during[c] \/ ask[c].stat \in reused)
=============================================================================
