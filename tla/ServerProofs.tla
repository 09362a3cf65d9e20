---------------------------- MODULE ServerProofs ----------------------------
(***************************************************************************)
(* For any number of requests, any MaxJobs and any request ids, unique or  *)
(* not: job slots balance, scratch directories stay within them, nothing   *)
(* is left behind, the history tells the truth, and a request converts     *)
(* its own upload or that of one sharing its id and directory just then.   *)
(***************************************************************************)
EXTENDS Server, FiniteSetTheorems, TLAPS

\* Every scratch directory belongs to a request that will still remove it.
ScratchOwned == \A i \in dir : \E r \in Requests : Rid[r] = i /\ pc[r] \in InScratch

\* A handler has released its slot when it counts itself out, and not before its
\* explicit release or its return.
ReleasedLate ==
    /\ \A r \in released : pc[r] \in {"uncount", "lastUncount", "return", "done"}
    /\ \A r \in Requests : pc[r] \in {"uncount", "lastUncount"} => r \in released

SlotInv == TypeOK /\ SlotsBalance /\ ScratchOwned /\ ReleasedLate

-----------------------------------------------------------------------------

\* The requests that hold a slot, and those that are counted, are finitely many.
LEMMA HoldersFinite ==
    /\ IsFiniteSet(Holders) /\ IsFiniteSet(Counted)
    /\ Cardinality(Holders) \in Nat /\ Cardinality(Counted) \in Nat
  <1>1. Holders \in SUBSET Requests /\ Counted \in SUBSET Requests
    BY DEF Holders, Counted
  <1>2. IsFiniteSet(Holders) /\ IsFiniteSet(Counted)
    BY <1>1, FS_Subset, ServerAssumption
  <1> QED BY <1>2, FS_CardinalityType

\* A step that takes r into the set of slot holders.
LEMMA HolderArrives ==
    ASSUME NEW S, NEW r, IsFiniteSet(S), r \notin S
    PROVE  Cardinality(S \cup {r}) = Cardinality(S) + 1
  BY FS_AddElement

\* A step that takes r out of the set of slot holders.
LEMMA HolderLeaves ==
    ASSUME NEW S, NEW r, IsFiniteSet(S), r \in S
    PROVE  /\ Cardinality(S \ {r}) = Cardinality(S) - 1
           /\ Cardinality(S) >= 1
  <1>1. Cardinality(S \ {r}) = Cardinality(S) - 1 /\ IsFiniteSet(S \ {r})
    BY FS_RemoveElement
  <1>2. Cardinality(S \ {r}) \in Nat /\ Cardinality(S) \in Nat
    BY <1>1, FS_CardinalityType
  <1> QED BY <1>1, <1>2

\* The initial state satisfies the inductive invariant.
LEMMA SlotInvInit == Init => SlotInv
  <1> SUFFICES ASSUME Init PROVE SlotInv OBVIOUS
  <1>1. TypeOK BY DEF Init, TypeOK, HandlerState
  <1>2. Holders = {} /\ Counted = {} BY DEF Init, Holders, Counted
  <1>3. SlotsBalance BY <1>2, FS_EmptySet, ServerAssumption DEF Init, SlotsBalance
  <1>4. ScratchOwned /\ ReleasedLate BY DEF Init, ScratchOwned, ReleasedLate
  <1> QED BY <1>1, <1>3, <1>4 DEF SlotInv

\* A step that leaves the counters, the holders and the counted alone.
LEMMA QuietStep ==
    ASSUME SlotsBalance, Holders' = Holders, Counted' = Counted,
           sem' = sem, activeJobs' = activeJobs
    PROVE  SlotsBalance'
  BY DEF SlotsBalance

\* Every step of the server keeps the inductive invariant.
LEMMA SlotInvStep == SlotInv /\ [Next]_vars => SlotInv'
  <1> SUFFICES ASSUME SlotInv, [Next]_vars PROVE SlotInv'
    OBVIOUS
  <1> USE DEF SlotInv
  <1>1. ASSUME NEW r \in Requests, Admit(r) PROVE SlotInv'
    <2> USE <1>1 DEF Admit, Goto, At, Answer, TypeOK, scratchVars
    <2>1. TypeOK' BY DEF HandlerState
    <2>2. r \notin released /\ ReleasedLate' BY DEF ReleasedLate
    <2>3. ASSUME sem < MaxJobs PROVE SlotsBalance'
      <3>1. r \notin Holders /\ Holders' = Holders \cup {r} /\ Counted' = Counted
        BY <2>2, <2>3 DEF Holders, Counted
      <3>2. Cardinality(Holders') = Cardinality(Holders) + 1
        BY <3>1, HoldersFinite, HolderArrives
      <3> QED BY <2>3, <3>1, <3>2, ServerAssumption DEF SlotsBalance
    <2>4. ASSUME ~(sem < MaxJobs) PROVE SlotsBalance'
      BY <2>2, <2>4, QuietStep DEF Holders, Counted
    <2>5. ScratchOwned' BY DEF ScratchOwned, InScratch
    <2> QED BY <2>1, <2>2, <2>3, <2>4, <2>5
  <1>2. ASSUME NEW r \in Requests, CountActive(r) PROVE SlotInv'
    <2> USE <1>2 DEF CountActive, Goto, At, TypeOK, scratchVars, resultVars
    <2>1. TypeOK' BY DEF HandlerState
    <2>2. r \notin Counted /\ Counted' = Counted \cup {r} /\ Holders' = Holders
      BY DEF Holders, Counted
    <2>3. Cardinality(Counted') = Cardinality(Counted) + 1
      BY <2>2, HoldersFinite, HolderArrives
    <2>4. SlotsBalance' BY <2>2, <2>3 DEF SlotsBalance
    <2>5. ScratchOwned' BY DEF ScratchOwned, InScratch
    <2>6. ReleasedLate' BY DEF ReleasedLate
    <2> QED BY <2>1, <2>4, <2>5, <2>6
  <1>3. ASSUME NEW r \in Requests, NEW next \in {"uncount", "lastUncount"}, r \notin released,
               pc[r] \in {"release", "return"}, GiveBack(r, next),
               UNCHANGED <<server, activeJobs, scratchVars, resultVars>>
        PROVE SlotInv'
    <2> USE <1>3 DEF GiveBack, Goto, TypeOK, scratchVars, resultVars
    <2>1. TypeOK' BY DEF HandlerState
    <2>2. r \in Holders /\ Holders' = Holders \ {r} /\ Counted' = Counted
      BY DEF Holders, Counted
    <2>3. Cardinality(Holders') = Cardinality(Holders) - 1 /\ Cardinality(Holders) >= 1
      BY <2>2, HoldersFinite, HolderLeaves
    <2>4. SlotsBalance' BY <2>2, <2>3, ServerAssumption DEF SlotsBalance
    <2>5. ScratchOwned' BY DEF ScratchOwned, InScratch
    <2>6. ReleasedLate' BY DEF ReleasedLate
    <2> QED BY <2>1, <2>4, <2>5, <2>6
  <1>4. ASSUME NEW r \in Requests, UncountActive(r) PROVE SlotInv'
    <2> USE <1>4 DEF UncountActive, Goto, At, TypeOK, scratchVars, resultVars
    <2>1. r \in released BY DEF ReleasedLate
    <2>2. r \in Counted /\ Counted' = Counted \ {r} /\ Holders' = Holders
      BY <2>1 DEF Holders, Counted
    <2>3. Cardinality(Counted') = Cardinality(Counted) - 1 /\ Cardinality(Counted) >= 1
      BY <2>2, HoldersFinite, HolderLeaves
    <2>4. activeJobs >= 1 BY <2>3 DEF SlotsBalance
    <2>5. TypeOK' BY <2>4 DEF HandlerState
    <2>6. SlotsBalance' BY <2>2, <2>3 DEF SlotsBalance
    <2>7. ScratchOwned' BY DEF ScratchOwned, InScratch
    <2>8. ReleasedLate' BY <2>1 DEF ReleasedLate
    <2> QED BY <2>5, <2>6, <2>7, <2>8
  <1>5. ASSUME NEW r \in Requests, Release(r) PROVE SlotInv'
    <2>1. r \notin released BY <1>5 DEF Release, At, ReleasedLate
    <2> QED BY <1>3, <1>5, <2>1 DEF Release, At
  <1>6. ASSUME NEW r \in Requests, Return(r) PROVE SlotInv'
    <2>1. CASE r \notin released BY <1>3, <1>6, <2>1 DEF Return, At
    <2>2. CASE r \in released
      <3> USE <1>6, <2>2 DEF Return, Goto, At, TypeOK, scratchVars, resultVars
      <3>1. TypeOK' BY DEF HandlerState
      <3>2. SlotsBalance' BY QuietStep DEF Holders, Counted
      <3>3. ScratchOwned' BY DEF ScratchOwned, InScratch
      <3>4. ReleasedLate' BY DEF ReleasedLate
      <3> QED BY <3>1, <3>2, <3>3, <3>4
    <2> QED BY <2>1, <2>2
  <1>7. ASSUME NEW r \in Requests, RateLimit(r) PROVE SlotInv'
    <2> USE <1>7 DEF RateLimit, Goto, At, Answer, TypeOK, slotVars, scratchVars, resultVars
    <2>1. TypeOK' BY DEF HandlerState, Ids
    <2>2. SlotsBalance' BY QuietStep DEF Holders, Counted, ReleasedLate
    <2>3. ScratchOwned' BY DEF ScratchOwned, InScratch
    <2>4. ReleasedLate' BY DEF ReleasedLate
    <2> QED BY <2>1, <2>2, <2>3, <2>4
  <1>8. ASSUME NEW r \in Requests, Check(r) PROVE SlotInv'
    <2> USE <1>8 DEF Check, Goto, At, Answer, TypeOK, slotVars, scratchVars, resultVars
    <2>1. TypeOK' BY DEF HandlerState, Ids
    <2>2. SlotsBalance' BY QuietStep DEF Holders, Counted, ReleasedLate
    <2>3. ScratchOwned' BY DEF ScratchOwned, InScratch
    <2>4. ReleasedLate' BY DEF ReleasedLate
    <2> QED BY <2>1, <2>2, <2>3, <2>4
  <1>9. ASSUME NEW r \in Requests, MakeScratch(r) PROVE SlotInv'
    <2> USE <1>9 DEF MakeScratch, Goto, At, Answer, TypeOK, slotVars, scratchVars, resultVars
    <2>1. TypeOK' BY DEF HandlerState, Ids
    <2>2. SlotsBalance' BY QuietStep DEF Holders, Counted, ReleasedLate
    <2>3. ScratchOwned' BY DEF ScratchOwned, InScratch
    <2>4. ReleasedLate' BY DEF ReleasedLate
    <2> QED BY <2>1, <2>2, <2>3, <2>4
  <1>10. ASSUME NEW r \in Requests, StoreInput(r) PROVE SlotInv'
    <2> USE <1>10 DEF StoreInput, Goto, At, TypeOK, slotVars, scratchVars, resultVars
    <2>1. TypeOK' BY DEF HandlerState, Ids
    <2>2. SlotsBalance' BY QuietStep DEF Holders, Counted, ReleasedLate
    <2>3. ScratchOwned' BY DEF ScratchOwned, InScratch
    <2>4. ReleasedLate' BY DEF ReleasedLate
    <2> QED BY <2>1, <2>2, <2>3, <2>4
  <1>11. ASSUME NEW r \in Requests, DetectFormat(r) PROVE SlotInv'
    <2> USE <1>11 DEF DetectFormat, Goto, At, TypeOK, slotVars, scratchVars, resultVars
    <2>1. TypeOK' BY DEF HandlerState, Ids
    <2>2. SlotsBalance' BY QuietStep DEF Holders, Counted, ReleasedLate
    <2>3. ScratchOwned' BY DEF ScratchOwned, InScratch
    <2>4. ReleasedLate' BY DEF ReleasedLate
    <2> QED BY <2>1, <2>2, <2>3, <2>4
  <1>12. ASSUME NEW r \in Requests, RejectInput(r) PROVE SlotInv'
    <2> USE <1>12 DEF RejectInput, Goto, At, Answer, Record, RemoveScratch, TypeOK, slotVars, scratchVars, resultVars
    <2>1. TypeOK' BY DEF HandlerState, Ids
    <2>2. SlotsBalance' BY QuietStep DEF Holders, Counted, ReleasedLate
    <2>3. ScratchOwned' BY DEF ScratchOwned, InScratch
    <2>4. ReleasedLate' BY DEF ReleasedLate
    <2> QED BY <2>1, <2>2, <2>3, <2>4
  <1>13. ASSUME NEW r \in Requests, ProduceStarts(r) PROVE SlotInv'
    <2> USE <1>13 DEF ProduceStarts, Goto, At, TypeOK, slotVars, scratchVars, resultVars
    <2>1. TypeOK' BY DEF HandlerState, Ids
    <2>2. SlotsBalance' BY QuietStep DEF Holders, Counted, ReleasedLate
    <2>3. ScratchOwned' BY DEF ScratchOwned, InScratch
    <2>4. ReleasedLate' BY DEF ReleasedLate
    <2> QED BY <2>1, <2>2, <2>3, <2>4
  <1>14. ASSUME NEW r \in Requests, ProduceFails(r) PROVE SlotInv'
    <2> USE <1>14 DEF ProduceFails, Goto, At, Answer, Record, TypeOK, slotVars, scratchVars, resultVars
    <2>1. TypeOK' BY DEF HandlerState, Ids
    <2>2. SlotsBalance' BY QuietStep DEF Holders, Counted, ReleasedLate
    <2>3. ScratchOwned' BY DEF ScratchOwned, InScratch
    <2>4. ReleasedLate' BY DEF ReleasedLate
    <2> QED BY <2>1, <2>2, <2>3, <2>4
  <1>15. ASSUME NEW r \in Requests, StreamBreaks(r) PROVE SlotInv'
    <2> USE <1>15 DEF StreamBreaks, Goto, At, Answer, Record, TypeOK, slotVars, scratchVars, resultVars
    <2>1. TypeOK' BY DEF HandlerState, Ids
    <2>2. SlotsBalance' BY QuietStep DEF Holders, Counted, ReleasedLate
    <2>3. ScratchOwned' BY DEF ScratchOwned, InScratch
    <2>4. ReleasedLate' BY DEF ReleasedLate
    <2> QED BY <2>1, <2>2, <2>3, <2>4
  <1>16. ASSUME NEW r \in Requests, StreamEnds(r) PROVE SlotInv'
    <2> USE <1>16 DEF StreamEnds, Goto, At, Answer, TypeOK, slotVars, scratchVars, resultVars
    <2>1. TypeOK' BY DEF HandlerState, Ids
    <2>2. SlotsBalance' BY QuietStep DEF Holders, Counted, ReleasedLate
    <2>3. ScratchOwned' BY DEF ScratchOwned, InScratch
    <2>4. ReleasedLate' BY DEF ReleasedLate
    <2> QED BY <2>1, <2>2, <2>3, <2>4
  <1>17. ASSUME NEW r \in Requests, Upload(r) PROVE SlotInv'
    <2> USE <1>17 DEF Upload, Goto, At, TypeOK, slotVars, scratchVars, resultVars
    <2>1. TypeOK' BY DEF HandlerState, Ids
    <2>2. SlotsBalance' BY QuietStep DEF Holders, Counted, ReleasedLate
    <2>3. ScratchOwned' BY DEF ScratchOwned, InScratch
    <2>4. ReleasedLate' BY DEF ReleasedLate
    <2> QED BY <2>1, <2>2, <2>3, <2>4
  <1>18. ASSUME NEW r \in Requests, RecordSuccess(r) PROVE SlotInv'
    <2> USE <1>18 DEF RecordSuccess, Goto, At, Record, TypeOK, slotVars, scratchVars, resultVars
    <2>1. TypeOK' BY DEF HandlerState, Ids
    <2>2. SlotsBalance' BY QuietStep DEF Holders, Counted, ReleasedLate
    <2>3. ScratchOwned' BY DEF ScratchOwned, InScratch
    <2>4. ReleasedLate' BY DEF ReleasedLate
    <2> QED BY <2>1, <2>2, <2>3, <2>4
  <1>19. ASSUME NEW r \in Requests, Sweep(r) PROVE SlotInv'
    <2> USE <1>19 DEF Sweep, Goto, At, RemoveScratch, TypeOK, slotVars, scratchVars, resultVars
    <2>1. TypeOK' BY DEF HandlerState, Ids
    <2>2. SlotsBalance' BY QuietStep DEF Holders, Counted, ReleasedLate
    <2>3. ScratchOwned' BY DEF ScratchOwned, InScratch
    <2>4. ReleasedLate' BY DEF ReleasedLate
    <2> QED BY <2>1, <2>2, <2>3, <2>4
  <1>20. ASSUME Shutdown \/ MainReturns \/ Terminated \/ UNCHANGED vars PROVE SlotInv'
    <2> USE <1>20 DEF Shutdown, MainReturns, Terminated, vars, handlerVars, slotVars, scratchVars,
                     resultVars
    <2>1. TypeOK' BY DEF TypeOK
    <2>2. SlotsBalance' BY QuietStep DEF Holders, Counted
    <2>3. ScratchOwned' /\ ReleasedLate' BY DEF ScratchOwned, ReleasedLate
    <2> QED BY <2>1, <2>2, <2>3
  <1> QED
    BY <1>1, <1>2, <1>4, <1>5, <1>6, <1>7, <1>8, <1>9, <1>10, <1>11, <1>12, <1>13, <1>14, <1>15, <1>16, <1>17, <1>18, <1>19, <1>20
       DEF Next, HandlerStep

\* The directories are the image of a set of holders, so there are no more of
\* them than of holders, whom the semaphore counts.
LEMMA SlotInvBoundsScratch == SlotInv => ScratchWithinBudget
  <1> SUFFICES ASSUME SlotInv PROVE ScratchWithinBudget OBVIOUS
  <1> DEFINE S == {r \in Requests : pc[r] \in InScratch /\ Rid[r] \in dir}
             f == [r \in S |-> Rid[r]]
  <1>1. S \in SUBSET Holders BY DEF Holders, InScratch, SlotInv, ReleasedLate
  <1>2. IsFiniteSet(S) /\ Cardinality(S) <= Cardinality(Holders) /\ Cardinality(S) \in Nat
    BY <1>1, HoldersFinite, FS_Subset, FS_CardinalityType
  <1>3. f \in Surjection(S, dir)
    BY DEF Surjection, SlotInv, ScratchOwned
  <1>4. Cardinality(dir) <= Cardinality(S) /\ IsFiniteSet(dir)
    BY <1>2, <1>3, FS_Surjection
  <1>5. Cardinality(dir) \in Nat BY <1>4, FS_CardinalityType
  <1> QED BY <1>2, <1>4, <1>5, HoldersFinite, ServerAssumption
          DEF ScratchWithinBudget, SlotInv, SlotsBalance

-----------------------------------------------------------------------------
(* What a request leaves behind, records and converts.                     *)

\* Every temp file of an S3 upload belongs to a request that will still remove it.
S3TempOwned == \A r \in s3tmp : pc[r] \in {"stream", "upload"}

\* A success is recorded last, of a request that was sent the whole PDF; the whole
\* PDF is sent before the upload; nothing is recorded before that unless it failed.
Unanswered == {"new", "admit", "admitted", "check", "mkdir", "store", "detect",
               "produce", "stream"}
RecordSound ==
    \A r \in Requests :
        /\ pc[r] \in Unanswered => resp[r] = "none" /\ rec[r] = "none" /\ r \notin s3
        /\ pc[r] \in {"upload", "record"} => resp[r] = "pdf" /\ rec[r] = "none"
        /\ rec[r] = "success" => resp[r] = "pdf"
        /\ r \in s3 => resp[r] = "pdf" /\ rec[r] # "failed"
        /\ pc[r] \in Recorded /\ resp[r] = "pdf" => rec[r] = "success"

\* Whatever lies under a request id was uploaded under that id, by a request that
\* will still remove it.
FiledById ==
    \A i \in Ids :
        /\ tmp[i] # None => Rid[tmp[i]] = i /\ pc[tmp[i]] \in InScratch
        /\ input[i] # None => Rid[input[i]] = i /\ pc[input[i]] \in InScratch

OutcomeInv == S3TempOwned /\ RecordSound /\ FiledById

\* The initial state satisfies the second inductive invariant.
LEMMA OutcomeInvInit == Init => OutcomeInv
  BY DEF Init, OutcomeInv, S3TempOwned, RecordSound, FiledById, Unanswered, Recorded

\* Every step of the server keeps it.
LEMMA OutcomeInvStep == TypeOK /\ OutcomeInv /\ [Next]_vars => OutcomeInv'
  <1> SUFFICES ASSUME TypeOK, OutcomeInv, [Next]_vars PROVE OutcomeInv'
    OBVIOUS
  <1> USE DEF OutcomeInv
  <1>1. ASSUME NEW r \in Requests, RateLimit(r) PROVE OutcomeInv'
    <2> USE <1>1 DEF RateLimit, Goto, At, Answer, TypeOK, scratchVars, resultVars
    <2>1. S3TempOwned' BY DEF S3TempOwned
    <2>2. RecordSound' BY DEF RecordSound, Unanswered, Recorded
    <2>3. FiledById' BY ServerAssumption DEF FiledById, Ids, InScratch
    <2> QED BY <2>1, <2>2, <2>3
  <1>2. ASSUME NEW r \in Requests, Admit(r) PROVE OutcomeInv'
    <2> USE <1>2 DEF Admit, Goto, At, Answer, TypeOK, scratchVars, resultVars
    <2>1. S3TempOwned' BY DEF S3TempOwned
    <2>2. RecordSound' BY DEF RecordSound, Unanswered, Recorded
    <2>3. FiledById' BY ServerAssumption DEF FiledById, Ids, InScratch
    <2> QED BY <2>1, <2>2, <2>3
  <1>3. ASSUME NEW r \in Requests, CountActive(r) PROVE OutcomeInv'
    <2> USE <1>3 DEF CountActive, Goto, At, TypeOK, scratchVars, resultVars
    <2>1. S3TempOwned' BY DEF S3TempOwned
    <2>2. RecordSound' BY DEF RecordSound, Unanswered, Recorded
    <2>3. FiledById' BY ServerAssumption DEF FiledById, Ids, InScratch
    <2> QED BY <2>1, <2>2, <2>3
  <1>4. ASSUME NEW r \in Requests, Check(r) PROVE OutcomeInv'
    <2> USE <1>4 DEF Check, Goto, At, Answer, TypeOK, scratchVars, resultVars
    <2>1. S3TempOwned' BY DEF S3TempOwned
    <2>2. RecordSound' BY DEF RecordSound, Unanswered, Recorded
    <2>3. FiledById' BY ServerAssumption DEF FiledById, Ids, InScratch
    <2> QED BY <2>1, <2>2, <2>3
  <1>5. ASSUME NEW r \in Requests, MakeScratch(r) PROVE OutcomeInv'
    <2> USE <1>5 DEF MakeScratch, Goto, At, Answer, TypeOK, scratchVars, resultVars
    <2>1. S3TempOwned' BY DEF S3TempOwned
    <2>2. RecordSound' BY DEF RecordSound, Unanswered, Recorded
    <2>3. FiledById' BY ServerAssumption DEF FiledById, Ids, InScratch
    <2> QED BY <2>1, <2>2, <2>3
  <1>6. ASSUME NEW r \in Requests, StoreInput(r) PROVE OutcomeInv'
    <2> USE <1>6 DEF StoreInput, Goto, At, TypeOK, scratchVars, resultVars
    <2>1. S3TempOwned' BY DEF S3TempOwned
    <2>2. RecordSound' BY DEF RecordSound, Unanswered, Recorded
    <2>3. FiledById' BY ServerAssumption DEF FiledById, Ids, InScratch
    <2> QED BY <2>1, <2>2, <2>3
  <1>7. ASSUME NEW r \in Requests, DetectFormat(r) PROVE OutcomeInv'
    <2> USE <1>7 DEF DetectFormat, Goto, At, TypeOK, scratchVars, resultVars
    <2>1. S3TempOwned' BY DEF S3TempOwned
    <2>2. RecordSound' BY DEF RecordSound, Unanswered, Recorded
    <2>3. FiledById' BY ServerAssumption DEF FiledById, Ids, InScratch
    <2> QED BY <2>1, <2>2, <2>3
  <1>8. ASSUME NEW r \in Requests, RejectInput(r) PROVE OutcomeInv'
    <2> USE <1>8 DEF RejectInput, Goto, At, Answer, Record, RemoveScratch, TypeOK, scratchVars, resultVars
    <2>1. S3TempOwned' BY DEF S3TempOwned
    <2>2. RecordSound' BY DEF RecordSound, Unanswered, Recorded
    <2>3. FiledById' BY ServerAssumption DEF FiledById, Ids, InScratch
    <2> QED BY <2>1, <2>2, <2>3
  <1>9. ASSUME NEW r \in Requests, ProduceStarts(r) PROVE OutcomeInv'
    <2> USE <1>9 DEF ProduceStarts, Goto, At, TypeOK, scratchVars, resultVars
    <2>1. S3TempOwned' BY DEF S3TempOwned
    <2>2. RecordSound' BY DEF RecordSound, Unanswered, Recorded
    <2>3. FiledById' BY ServerAssumption DEF FiledById, Ids, InScratch
    <2> QED BY <2>1, <2>2, <2>3
  <1>10. ASSUME NEW r \in Requests, ProduceFails(r) PROVE OutcomeInv'
    <2> USE <1>10 DEF ProduceFails, Goto, At, Answer, Record, TypeOK, scratchVars, resultVars
    <2>1. S3TempOwned' BY DEF S3TempOwned
    <2>2. RecordSound' BY DEF RecordSound, Unanswered, Recorded
    <2>3. FiledById' BY ServerAssumption DEF FiledById, Ids, InScratch
    <2> QED BY <2>1, <2>2, <2>3
  <1>11. ASSUME NEW r \in Requests, StreamBreaks(r) PROVE OutcomeInv'
    <2> USE <1>11 DEF StreamBreaks, Goto, At, Answer, Record, TypeOK, scratchVars, resultVars
    <2>1. S3TempOwned' BY DEF S3TempOwned
    <2>2. RecordSound' BY DEF RecordSound, Unanswered, Recorded
    <2>3. FiledById' BY ServerAssumption DEF FiledById, Ids, InScratch
    <2> QED BY <2>1, <2>2, <2>3
  <1>12. ASSUME NEW r \in Requests, StreamEnds(r) PROVE OutcomeInv'
    <2> USE <1>12 DEF StreamEnds, Goto, At, Answer, TypeOK, scratchVars, resultVars
    <2>1. S3TempOwned' BY DEF S3TempOwned
    <2>2. RecordSound' BY DEF RecordSound, Unanswered, Recorded
    <2>3. FiledById' BY ServerAssumption DEF FiledById, Ids, InScratch
    <2> QED BY <2>1, <2>2, <2>3
  <1>13. ASSUME NEW r \in Requests, Upload(r) PROVE OutcomeInv'
    <2> USE <1>13 DEF Upload, Goto, At, TypeOK, scratchVars, resultVars
    <2>1. S3TempOwned' BY DEF S3TempOwned
    <2>2. RecordSound' BY DEF RecordSound, Unanswered, Recorded
    <2>3. FiledById' BY ServerAssumption DEF FiledById, Ids, InScratch
    <2> QED BY <2>1, <2>2, <2>3
  <1>14. ASSUME NEW r \in Requests, RecordSuccess(r) PROVE OutcomeInv'
    <2> USE <1>14 DEF RecordSuccess, Goto, At, Record, TypeOK, scratchVars, resultVars
    <2>1. S3TempOwned' BY DEF S3TempOwned
    <2>2. RecordSound' BY DEF RecordSound, Unanswered, Recorded
    <2>3. FiledById' BY ServerAssumption DEF FiledById, Ids, InScratch
    <2> QED BY <2>1, <2>2, <2>3
  <1>15. ASSUME NEW r \in Requests, Sweep(r) PROVE OutcomeInv'
    <2> USE <1>15 DEF Sweep, Goto, At, RemoveScratch, TypeOK, scratchVars, resultVars
    <2>1. S3TempOwned' BY DEF S3TempOwned
    <2>2. RecordSound' BY DEF RecordSound, Unanswered, Recorded
    <2>3. FiledById' BY ServerAssumption DEF FiledById, Ids, InScratch
    <2> QED BY <2>1, <2>2, <2>3
  <1>16. ASSUME NEW r \in Requests, Release(r) PROVE OutcomeInv'
    <2> USE <1>16 DEF Release, Goto, At, GiveBack, TypeOK, scratchVars, resultVars
    <2>1. S3TempOwned' BY DEF S3TempOwned
    <2>2. RecordSound' BY DEF RecordSound, Unanswered, Recorded
    <2>3. FiledById' BY ServerAssumption DEF FiledById, Ids, InScratch
    <2> QED BY <2>1, <2>2, <2>3
  <1>17. ASSUME NEW r \in Requests, Return(r) PROVE OutcomeInv'
    <2> USE <1>17 DEF Return, Goto, At, GiveBack, TypeOK, scratchVars, resultVars
    <2>1. S3TempOwned' BY DEF S3TempOwned
    <2>2. RecordSound' BY DEF RecordSound, Unanswered, Recorded
    <2>3. FiledById' BY ServerAssumption DEF FiledById, Ids, InScratch
    <2> QED BY <2>1, <2>2, <2>3
  <1>18. ASSUME NEW r \in Requests, UncountActive(r) PROVE OutcomeInv'
    <2> USE <1>18 DEF UncountActive, Goto, At, TypeOK, scratchVars, resultVars
    <2>1. S3TempOwned' BY DEF S3TempOwned
    <2>2. RecordSound' BY DEF RecordSound, Unanswered, Recorded
    <2>3. FiledById' BY ServerAssumption DEF FiledById, Ids, InScratch
    <2> QED BY <2>1, <2>2, <2>3
  <1>19. ASSUME Shutdown \/ MainReturns \/ Terminated \/ UNCHANGED vars PROVE OutcomeInv'
    BY <1>19 DEF Shutdown, MainReturns, Terminated, vars, handlerVars, scratchVars, resultVars,
                 S3TempOwned, RecordSound, FiledById
  <1> QED
    BY <1>1, <1>2, <1>3, <1>4, <1>5, <1>6, <1>7, <1>8, <1>9, <1>10, <1>11, <1>12, <1>13, <1>14, <1>15, <1>16, <1>17, <1>18, <1>19
       DEF Next, HandlerStep

\* When every request is done, nobody owns a directory or a temp file any more.
LEMMA DoneOwnsNothing == SlotInv /\ OutcomeInv => NothingLeftBehind
  BY DEF SlotInv, OutcomeInv, ScratchOwned, InScratch, S3TempOwned, NothingLeftBehind, TypeOK

\* The engine opens what lies under the request's id: uploaded by itself, or by a
\* request of the same id that is still being served.
LEMMA OpensOwnInput ==
    TypeOK /\ OutcomeInv /\ [Next]_vars =>
        [\A r \in Requests : doc'[r] # doc[r] => doc'[r] \in MayConvert(r)]_vars
  <1> SUFFICES ASSUME TypeOK, OutcomeInv, Next, NEW q \in Requests, doc'[q] # doc[q]
               PROVE  doc'[q] \in MayConvert(q)
    OBVIOUS
  <1>1. PICK r \in Requests : ProduceStarts(r)
    BY DEF Next, HandlerStep, RateLimit, Admit, CountActive, Check, MakeScratch, StoreInput,
           DetectFormat, RejectInput, ProduceFails, StreamBreaks, StreamEnds, Upload,
           RecordSuccess, Sweep, Release, Return, UncountActive, Shutdown, MainReturns,
           Terminated, vars, resultVars
  <1>2. q = r /\ doc'[q] = input[Rid[q]] /\ input[Rid[q]] # None /\ Rid[q] \in Ids
    BY <1>1 DEF ProduceStarts, TypeOK, Ids
  <1>3. input[Rid[q]] \in Requests BY <1>2 DEF TypeOK
  <1> QED BY <1>2, <1>3 DEF OutcomeInv, FiledById, MayConvert

-----------------------------------------------------------------------------
\* The handlers keep their state well-typed; in particular neither the semaphore
\* nor the activeJobs gauge is ever driven below zero by a second release.
THEOREM ServerTypeOK == Spec => []TypeOK
  <1>1. SlotInv => TypeOK BY DEF SlotInv
  <1> QED BY SlotInvInit, SlotInvStep, <1>1, PTL DEF Spec

\* Whatever exit a handler takes, the semaphore counts exactly the requests being
\* served and never more than MaxJobs of them.
THEOREM SlotsAlwaysBalance == Spec => []SlotsBalance
  <1>1. SlotInv => SlotsBalance BY DEF SlotInv
  <1> QED BY SlotInvInit, SlotInvStep, <1>1, PTL DEF Spec

\* There are never more scratch directories than job slots taken, even if clients reuse
\* request ids.
THEOREM ScratchAlwaysWithinBudget == Spec => []ScratchWithinBudget
  <1> QED BY SlotInvInit, SlotInvStep, SlotInvBoundsScratch, PTL DEF Spec

\* Whatever happened to the requests, once all of them are done neither a scratch
\* directory nor the temp file of an S3 upload is left.
THEOREM NothingEverLeftBehind == Spec => []NothingLeftBehind
  <1>1. SlotInv => TypeOK BY DEF SlotInv
  <1> QED BY SlotInvInit, SlotInvStep, OutcomeInvInit, OutcomeInvStep, DoneOwnsNothing, <1>1, PTL
          DEF Spec

\* What is in the output bucket was sent whole and never counts as failed, also
\* between the upload and the record; once recorded, success and the whole PDF go
\* together, also if the stream broke off or the upload failed.
THEOREM HistoryAlwaysTruthful == Spec => []HistoryTruthful
  <1>1. SlotInv => TypeOK BY DEF SlotInv
  <1>2. OutcomeInv => HistoryTruthful BY DEF OutcomeInv, RecordSound, HistoryTruthful
  <1> QED BY SlotInvInit, SlotInvStep, OutcomeInvInit, OutcomeInvStep, <1>1, <1>2, PTL DEF Spec

\* Whatever ids the clients send, a request's engine opens the request's own upload,
\* or that of a request with the same id which is being served from the same
\* directory at that moment; never a leftover, never a document under another id.
THEOREM AlwaysConvertsOwnInput == Spec => ConvertsOwnInput
  <1>1. SlotInv => TypeOK BY DEF SlotInv
  <1> QED BY SlotInvInit, SlotInvStep, OutcomeInvInit, OutcomeInvStep, OpensOwnInput, <1>1, PTL
          DEF Spec, ConvertsOwnInput
=============================================================================
