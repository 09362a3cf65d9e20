-------------------------- MODULE ConvertJobProofs --------------------------
(***************************************************************************)
(* For any number of conversions, chunks and blocks, any faults and any    *)
(* number of runs of Clear: a conversion that succeeds has sent the whole  *)
(* document, the final cache holds whole documents only, no temp file      *)
(* outlives its conversion, and a conversion fails for a cause of its own. *)
(***************************************************************************)
EXTENDS ConvertJob, TLAPS

Phases == {"start", "hit", "probe", "render", "merge", "concat", "copy", "drain",
           "publish", "ok", "error", "oom"}
ChunkStates == {"wait", "run", "put", "rename", "done", "skipped", "failed"}

TypeOK ==
    /\ phase \in [Jobs -> Phases]
    /\ gone \in [Jobs -> BOOLEAN]
    /\ firstErr \in [Jobs -> {"none", "error", "oom"}]
    /\ chunk \in [Jobs -> [Chunks -> ChunkStates]]
    /\ path \in [Jobs -> [Chunks -> {"none", "scratch", "cache"}]]
    /\ file \in [Jobs -> [Chunks -> BOOLEAN]]
    /\ temp \in [Jobs -> [Chunks -> BOOLEAN]]
    /\ tee \in [Jobs -> BOOLEAN]
    /\ made \in [Jobs -> Nat] /\ got \in [Jobs -> Nat] /\ sent \in [Jobs -> Nat]
    /\ faulted \in [Jobs -> BOOLEAN]
    /\ chunkEntry \in [Chunks -> BOOLEAN]
    /\ finalDir \in BOOLEAN
    /\ clear \in {"idle", "chunks", "final", "prune"}
    /\ cleared \in BOOLEAN

\* What the client was sent, at each place of ConvertJob: nothing before the copy,
\* what was read during it, everything after it.
SentSound(j) ==
    /\ phase[j] \in {"start", "hit", "probe", "render", "merge", "concat"} =>
          made[j] = 0 /\ got[j] = 0 /\ sent[j] = 0
    /\ phase[j] = "copy" => sent[j] = got[j] /\ got[j] <= made[j] /\ made[j] <= Blocks
    /\ phase[j] = "publish" => sent[j] = Blocks /\ got[j] = Blocks
    /\ phase[j] = "ok" => sent[j] = Blocks

\* A temp file belongs to a goroutine, or a merge, that will still rename or
\* remove it; a goroutine that renders or caches belongs to a job that waits.
TempsOwned(j) ==
    /\ tee[j] => phase[j] \in {"copy", "drain", "publish"}
    /\ \A c \in Chunks : /\ temp[j][c] => chunk[j][c] = "rename"
                         /\ chunk[j][c] \in {"run", "put", "rename"} => phase[j] = "render"

\* Why a chunk has no complete file to offer to the merge.
ChunkSound(j, c) ==
    /\ chunk[j][c] = "failed" => firstErr[j] # "none"
    /\ chunk[j][c] = "skipped" => CtxDone(j)
    /\ chunk[j][c] \in {"put", "rename"} => path[j][c] = "scratch"
    /\ chunk[j][c] = "done" => path[j][c] # "none"
    /\ path[j][c] = "scratch" => file[j][c] \/ firstErr[j] # "none"
    /\ path[j][c] = "cache" => chunkEntry[c] \/ cleared

\* A merge begins without an error and with every goroutine at its end.
MergeSound(j) ==
    phase[j] \in {"merge", "concat"} =>
        /\ firstErr[j] = "none"
        /\ \A c \in Chunks : chunk[j][c] \in {"done", "skipped", "failed"}

\* What went wrong before the job itself has noticed.
CauseKnown(j) ==
    /\ firstErr[j] = "error" => gone[j] \/ faulted[j]
    /\ phase[j] = "hit" => final # Absent \/ cleared
    /\ phase[j] = "drain" => gone[j]
    /\ phase[j] = "error" => gone[j] \/ cleared \/ faulted[j]

\* What only Clear takes away is there as long as it has not run.
ClearSound ==
    /\ final \in {Absent, Blocks}
    /\ clear # "idle" => cleared
    /\ finalDir \/ cleared

JobInv ==
    /\ TypeOK
    /\ ClearSound
    /\ \A j \in Jobs : SentSound(j) /\ TempsOwned(j) /\ MergeSound(j) /\ CauseKnown(j)
    /\ \A j \in Jobs, c \in Chunks : ChunkSound(j, c)

-----------------------------------------------------------------------------

\* The initial state satisfies the inductive invariant.
LEMMA JobInvInit == Init => JobInv
  <1> SUFFICES ASSUME Init PROVE JobInv OBVIOUS
  <1>1. TypeOK BY DEF Init, TypeOK, Phases, ChunkStates
  <1>2. ClearSound BY DEF Init, ClearSound
  <1>3. ASSUME NEW j \in Jobs
        PROVE  SentSound(j) /\ TempsOwned(j) /\ MergeSound(j) /\ CauseKnown(j)
    BY DEF Init, SentSound, TempsOwned, MergeSound, CauseKnown
  <1>4. ASSUME NEW j \in Jobs, NEW c \in Chunks PROVE ChunkSound(j, c)
    BY DEF Init, ChunkSound
  <1> QED BY <1>1, <1>2, <1>3, <1>4 DEF JobInv

\* A step of the job itself: lookup, stream, probe, join, merge, publication.
LEMMA JobStepInv ==
    ASSUME JobInv, NEW k \in Jobs, JobStep(k) PROVE JobInv'
  <1> USE ConvertJobAssumption DEF JobInv, cacheVars, clearVars
  <1>1. CASE LookupFinal(k)
    <2>1. TypeOK' BY <1>1 DEF LookupFinal, Goto, TypeOK, Phases
    <2>2. ClearSound' BY <1>1 DEF LookupFinal, Goto, ClearSound
    <2>3. ASSUME NEW j \in Jobs
          PROVE  SentSound(j)' /\ TempsOwned(j)' /\ MergeSound(j)' /\ CauseKnown(j)'
      BY <1>1 DEF LookupFinal, Goto, TypeOK, Phases,
                  SentSound, TempsOwned, MergeSound, CauseKnown
    <2>4. ASSUME NEW j \in Jobs, NEW c \in Chunks PROVE ChunkSound(j, c)'
      BY <1>1 DEF LookupFinal, Goto, ChunkSound, CtxDone
    <2> QED BY <2>1, <2>2, <2>3, <2>4
  <1>2. CASE StreamHit(k)
    <2> USE DEF StreamHit, Goto
    <2>1. CASE final # Absent /\ sent' = [sent EXCEPT ![k] = final] /\ Goto(k, "ok")
      <3>1. TypeOK' BY <1>2, <2>1 DEF TypeOK, Phases, ClearSound
      <3>2. ClearSound' BY <1>2, <2>1 DEF ClearSound
      <3>3. ASSUME NEW j \in Jobs
            PROVE  SentSound(j)' /\ TempsOwned(j)' /\ MergeSound(j)' /\ CauseKnown(j)'
        <4>1. SentSound(j)' BY <1>2, <2>1 DEF TypeOK, SentSound, Phases, ClearSound
        <4>2. TempsOwned(j)' BY <1>2, <2>1 DEF TypeOK, TempsOwned, Phases
        <4>3. MergeSound(j)' BY <1>2, <2>1 DEF TypeOK, MergeSound, Phases
        <4>4. CauseKnown(j)' BY <1>2, <2>1 DEF TypeOK, CauseKnown, Phases, ClearSound
        <4> QED BY <4>1, <4>2, <4>3, <4>4
      <3>4. ASSUME NEW j \in Jobs, NEW c \in Chunks PROVE ChunkSound(j, c)'
        BY <1>2, <2>1 DEF ChunkSound, CtxDone
      <3> QED BY <3>1, <3>2, <3>3, <3>4
    <2>2. CASE (final = Absent \/ gone[k]) /\ Goto(k, "error") /\ UNCHANGED sent
      <3>1. TypeOK' BY <1>2, <2>2 DEF TypeOK, Phases, ClearSound
      <3>2. ClearSound' BY <1>2, <2>2 DEF ClearSound
      <3>3. ASSUME NEW j \in Jobs
            PROVE  SentSound(j)' /\ TempsOwned(j)' /\ MergeSound(j)' /\ CauseKnown(j)'
        <4>1. SentSound(j)' BY <1>2, <2>2 DEF TypeOK, SentSound, Phases
        <4>2. TempsOwned(j)' BY <1>2, <2>2 DEF TypeOK, TempsOwned, Phases
        <4>3. MergeSound(j)' BY <1>2, <2>2 DEF TypeOK, MergeSound, Phases
        <4>4. CauseKnown(j)' BY <1>2, <2>2 DEF TypeOK, CauseKnown, Phases, ClearSound
        <4> QED BY <4>1, <4>2, <4>3, <4>4
      <3>4. ASSUME NEW j \in Jobs, NEW c \in Chunks PROVE ChunkSound(j, c)'
        BY <1>2, <2>2 DEF ChunkSound, CtxDone
      <3> QED BY <3>1, <3>2, <3>3, <3>4
    <2> QED BY <1>2, <2>1, <2>2
  <1>3. CASE ProbeAndOpenPool(k)
    <2> USE DEF ProbeAndOpenPool, Goto
    <2>1. CASE Goto(k, "render") /\ UNCHANGED faulted
      <3>1. TypeOK' BY <1>3, <2>1 DEF TypeOK, Phases
      <3>2. ClearSound' BY <1>3, <2>1 DEF ClearSound
      <3>3. ASSUME NEW j \in Jobs
            PROVE  SentSound(j)' /\ TempsOwned(j)' /\ MergeSound(j)' /\ CauseKnown(j)'
        <4>1. SentSound(j)' BY <1>3, <2>1 DEF TypeOK, SentSound, Phases
        <4>2. TempsOwned(j)' BY <1>3, <2>1 DEF TypeOK, TempsOwned, Phases
        <4>3. MergeSound(j)' BY <1>3, <2>1 DEF TypeOK, MergeSound, Phases
        <4>4. CauseKnown(j)' BY <1>3, <2>1 DEF TypeOK, CauseKnown, Phases
        <4> QED BY <4>1, <4>2, <4>3, <4>4
      <3>4. ASSUME NEW j \in Jobs, NEW c \in Chunks PROVE ChunkSound(j, c)'
        BY <1>3, <2>1 DEF ChunkSound, CtxDone
      <3> QED BY <3>1, <3>2, <3>3, <3>4
    <2>2. CASE Goto(k, "error") /\ faulted' = [faulted EXCEPT ![k] = TRUE]
      <3>1. TypeOK' BY <1>3, <2>2 DEF TypeOK, Phases
      <3>2. ClearSound' BY <1>3, <2>2 DEF ClearSound
      <3>3. ASSUME NEW j \in Jobs
            PROVE  SentSound(j)' /\ TempsOwned(j)' /\ MergeSound(j)' /\ CauseKnown(j)'
        <4>1. SentSound(j)' BY <1>3, <2>2 DEF TypeOK, SentSound, Phases
        <4>2. TempsOwned(j)' BY <1>3, <2>2 DEF TypeOK, TempsOwned, Phases
        <4>3. MergeSound(j)' BY <1>3, <2>2 DEF TypeOK, MergeSound, Phases
        <4>4. CauseKnown(j)' BY <1>3, <2>2 DEF TypeOK, CauseKnown, Phases
        <4> QED BY <4>1, <4>2, <4>3, <4>4
      <3>4. ASSUME NEW j \in Jobs, NEW c \in Chunks PROVE ChunkSound(j, c)'
        BY <1>3, <2>2 DEF ChunkSound, CtxDone
      <3> QED BY <3>1, <3>2, <3>3, <3>4
    <2> QED BY <1>3, <2>1, <2>2
  <1>4. CASE JoinChunks(k)
    <2> USE DEF JoinChunks, Goto
    <2>1. CASE firstErr[k] = "none" /\ Goto(k, "merge")
      <3>1. TypeOK' BY <1>4, <2>1 DEF TypeOK, Phases
      <3>2. ClearSound' BY <1>4, <2>1 DEF ClearSound
      <3>3. ASSUME NEW j \in Jobs
            PROVE  SentSound(j)' /\ TempsOwned(j)' /\ MergeSound(j)' /\ CauseKnown(j)'
        <4>1. SentSound(j)' BY <1>4, <2>1 DEF TypeOK, SentSound, Phases
        <4>2. TempsOwned(j)' BY <1>4, <2>1 DEF TypeOK, TempsOwned, Phases
        <4>3. MergeSound(j)' BY <1>4, <2>1 DEF TypeOK, MergeSound, Phases
        <4>4. CauseKnown(j)' BY <1>4, <2>1 DEF TypeOK, CauseKnown, Phases
        <4> QED BY <4>1, <4>2, <4>3, <4>4
      <3>4. ASSUME NEW j \in Jobs, NEW c \in Chunks PROVE ChunkSound(j, c)'
        BY <1>4, <2>1 DEF ChunkSound, CtxDone
      <3> QED BY <3>1, <3>2, <3>3, <3>4
    <2>2. CASE firstErr[k] = "error" /\ Goto(k, "error")
      <3>1. TypeOK' BY <1>4, <2>2 DEF TypeOK, Phases
      <3>2. ClearSound' BY <1>4, <2>2 DEF ClearSound
      <3>3. ASSUME NEW j \in Jobs
            PROVE  SentSound(j)' /\ TempsOwned(j)' /\ MergeSound(j)' /\ CauseKnown(j)'
        <4>1. SentSound(j)' BY <1>4, <2>2 DEF TypeOK, SentSound, Phases
        <4>2. TempsOwned(j)' BY <1>4, <2>2 DEF TypeOK, TempsOwned, Phases
        <4>3. MergeSound(j)' BY <1>4, <2>2 DEF TypeOK, MergeSound, Phases
        <4>4. CauseKnown(j)' BY <1>4, <2>2 DEF TypeOK, CauseKnown, Phases
        <4> QED BY <4>1, <4>2, <4>3, <4>4
      <3>4. ASSUME NEW j \in Jobs, NEW c \in Chunks PROVE ChunkSound(j, c)'
        BY <1>4, <2>2 DEF ChunkSound, CtxDone
      <3> QED BY <3>1, <3>2, <3>3, <3>4
    <2>3. CASE firstErr[k] = "oom" /\ Goto(k, "oom")
      <3>1. TypeOK' BY <1>4, <2>3 DEF TypeOK, Phases
      <3>2. ClearSound' BY <1>4, <2>3 DEF ClearSound
      <3>3. ASSUME NEW j \in Jobs
            PROVE  SentSound(j)' /\ TempsOwned(j)' /\ MergeSound(j)' /\ CauseKnown(j)'
        <4>1. SentSound(j)' BY <1>4, <2>3 DEF TypeOK, SentSound, Phases
        <4>2. TempsOwned(j)' BY <1>4, <2>3 DEF TypeOK, TempsOwned, Phases
        <4>3. MergeSound(j)' BY <1>4, <2>3 DEF TypeOK, MergeSound, Phases
        <4>4. CauseKnown(j)' BY <1>4, <2>3 DEF TypeOK, CauseKnown, Phases
        <4> QED BY <4>1, <4>2, <4>3, <4>4
      <3>4. ASSUME NEW j \in Jobs, NEW c \in Chunks PROVE ChunkSound(j, c)'
        BY <1>4, <2>3 DEF ChunkSound, CtxDone
      <3> QED BY <3>1, <3>2, <3>3, <3>4
    <2> QED BY <1>4, <2>1, <2>2, <2>3 DEF TypeOK
  <1>5. CASE NameTemp(k)
    <2>1. TypeOK' BY <1>5 DEF NameTemp, Goto, TypeOK, Phases
    <2>2. ClearSound' BY <1>5 DEF NameTemp, Goto, ClearSound
    <2>3. ASSUME NEW j \in Jobs
          PROVE  SentSound(j)' /\ TempsOwned(j)' /\ MergeSound(j)' /\ CauseKnown(j)'
      BY <1>5 DEF NameTemp, Goto, TypeOK, Phases,
                  SentSound, TempsOwned, MergeSound, CauseKnown
    <2>4. ASSUME NEW j \in Jobs, NEW c \in Chunks PROVE ChunkSound(j, c)'
      BY <1>5 DEF NameTemp, Goto, ChunkSound, CtxDone
    <2> QED BY <2>1, <2>2, <2>3, <2>4
  <1>6. CASE StartConcat(k)
    <2> USE DEF StartConcat, Goto
    <2>1. CASE Goto(k, "copy") /\ k \in Caching /\ tee' = [tee EXCEPT ![k] = TRUE]
      <3>1. TypeOK' BY <1>6, <2>1 DEF TypeOK, Phases
      <3>2. ClearSound' BY <1>6, <2>1 DEF ClearSound, TypeOK
      <3>3. ASSUME NEW j \in Jobs
            PROVE  SentSound(j)' /\ TempsOwned(j)' /\ MergeSound(j)' /\ CauseKnown(j)'
        <4>1. SentSound(j)' BY <1>6, <2>1 DEF TypeOK, SentSound, Phases
        <4>2. TempsOwned(j)' BY <1>6, <2>1 DEF TypeOK, TempsOwned, Phases
        <4>3. MergeSound(j)' BY <1>6, <2>1 DEF TypeOK, MergeSound, Phases
        <4>4. CauseKnown(j)' BY <1>6, <2>1 DEF TypeOK, CauseKnown, Phases
        <4> QED BY <4>1, <4>2, <4>3, <4>4
      <3>4. ASSUME NEW j \in Jobs, NEW c \in Chunks PROVE ChunkSound(j, c)'
        BY <1>6, <2>1 DEF ChunkSound, CtxDone
      <3> QED BY <3>1, <3>2, <3>3, <3>4
    <2>2. CASE Goto(k, "copy") /\ k \notin Caching /\ tee' = [tee EXCEPT ![k] = FALSE]
      <3>1. TypeOK' BY <1>6, <2>2 DEF TypeOK, Phases
      <3>2. ClearSound' BY <1>6, <2>2 DEF ClearSound, TypeOK
      <3>3. ASSUME NEW j \in Jobs
            PROVE  SentSound(j)' /\ TempsOwned(j)' /\ MergeSound(j)' /\ CauseKnown(j)'
        <4>1. SentSound(j)' BY <1>6, <2>2 DEF TypeOK, SentSound, Phases
        <4>2. TempsOwned(j)' BY <1>6, <2>2 DEF TypeOK, TempsOwned, Phases
        <4>3. MergeSound(j)' BY <1>6, <2>2 DEF TypeOK, MergeSound, Phases
        <4>4. CauseKnown(j)' BY <1>6, <2>2 DEF TypeOK, CauseKnown, Phases
        <4> QED BY <4>1, <4>2, <4>3, <4>4
      <3>4. ASSUME NEW j \in Jobs, NEW c \in Chunks PROVE ChunkSound(j, c)'
        BY <1>6, <2>2 DEF ChunkSound, CtxDone
      <3> QED BY <3>1, <3>2, <3>3, <3>4
    <2>3. CASE Goto(k, "error") /\ UNCHANGED tee
               /\ ~((\A c \in Chunks : Readable(k, c)) /\ (k \in Caching => finalDir))
      <3>1. TypeOK' BY <1>6, <2>3 DEF TypeOK, Phases
      <3>2. ClearSound' BY <1>6, <2>3 DEF ClearSound, TypeOK
      <3>3. ASSUME NEW j \in Jobs
            PROVE  SentSound(j)' /\ TempsOwned(j)' /\ MergeSound(j)' /\ CauseKnown(j)'
        <4>1. SentSound(j)' BY <1>6, <2>3 DEF TypeOK, SentSound, Phases
        <4>2. TempsOwned(j)' BY <1>6, <2>3 DEF TypeOK, TempsOwned, Phases
        <4>3. MergeSound(j)' BY <1>6, <2>3 DEF TypeOK, MergeSound, Phases
        <4>4. CauseKnown(j)'
          <5>1. gone[k] \/ cleared
            <6> SUFFICES ASSUME ~gone[k], ~cleared PROVE FALSE OBVIOUS
            <6>1. phase[k] = "concat" /\ firstErr[k] = "none" BY <1>6 DEF MergeSound
            <6>2. PICK c \in Chunks : ~Readable(k, c) BY <2>3 DEF ClearSound
            <6>3. chunk[k][c] = "done"
              BY <6>1 DEF MergeSound, ChunkSound, CtxDone
            <6>4. path[k][c] \in {"scratch", "cache"} BY <6>3 DEF ChunkSound, TypeOK
            <6> QED BY <6>1, <6>2, <6>4 DEF Readable, ChunkSound
          <5> QED BY <1>6, <2>3, <5>1 DEF TypeOK, CauseKnown, Phases
        <4> QED BY <4>1, <4>2, <4>3, <4>4
      <3>4. ASSUME NEW j \in Jobs, NEW c \in Chunks PROVE ChunkSound(j, c)'
        BY <1>6, <2>3 DEF ChunkSound, CtxDone
      <3> QED BY <3>1, <3>2, <3>3, <3>4
    <2>4. IF (\A c \in Chunks : Readable(k, c)) /\ (k \in Caching => finalDir)
          THEN Goto(k, "copy") /\ tee' = [tee EXCEPT ![k] = k \in Caching]
          ELSE Goto(k, "error") /\ UNCHANGED tee
      BY <1>6
    <2>5. /\ k \in Caching => (k \in Caching) = TRUE
          /\ k \notin Caching => (k \in Caching) = FALSE
      OBVIOUS
    <2> QED BY <2>1, <2>2, <2>3, <2>4, <2>5
  <1>7. CASE CopyBlock(k)
    <2>1. TypeOK' BY <1>7 DEF CopyBlock, TypeOK
    <2>2. ClearSound' BY <1>7 DEF CopyBlock, ClearSound
    <2>3. ASSUME NEW j \in Jobs
          PROVE  SentSound(j)' /\ TempsOwned(j)' /\ MergeSound(j)' /\ CauseKnown(j)'
      BY <1>7 DEF CopyBlock, TypeOK, Phases,
                  SentSound, TempsOwned, MergeSound, CauseKnown
    <2>4. ASSUME NEW j \in Jobs, NEW c \in Chunks PROVE ChunkSound(j, c)'
      BY <1>7 DEF CopyBlock, ChunkSound, CtxDone
    <2> QED BY <2>1, <2>2, <2>3, <2>4
  <1>8. CASE CopyFails(k)
    <2>1. TypeOK' BY <1>8 DEF CopyFails, Goto, TypeOK, Phases
    <2>2. ClearSound' BY <1>8 DEF CopyFails, Goto, ClearSound
    <2>3. ASSUME NEW j \in Jobs
          PROVE  SentSound(j)' /\ TempsOwned(j)' /\ MergeSound(j)' /\ CauseKnown(j)'
      BY <1>8 DEF CopyFails, Goto, TypeOK, Phases,
                  SentSound, TempsOwned, MergeSound, CauseKnown
    <2>4. ASSUME NEW j \in Jobs, NEW c \in Chunks PROVE ChunkSound(j, c)'
      BY <1>8 DEF CopyFails, Goto, ChunkSound, CtxDone
    <2> QED BY <2>1, <2>2, <2>3, <2>4
  <1>9. CASE WaitQpdf(k)
    <2> USE DEF WaitQpdf, Goto
    <2>1. CASE phase[k] = "copy"
      <3>1. TypeOK' BY <1>9, <2>1 DEF TypeOK, Phases
      <3>2. ClearSound' BY <1>9, <2>1 DEF ClearSound
      <3>3. ASSUME NEW j \in Jobs
            PROVE  SentSound(j)' /\ TempsOwned(j)' /\ MergeSound(j)' /\ CauseKnown(j)'
        <4>1. SentSound(j)' BY <1>9, <2>1 DEF TypeOK, SentSound, Phases
        <4>2. TempsOwned(j)' BY <1>9, <2>1, ZenonT(60) DEF TypeOK, TempsOwned, Phases
        <4>3. MergeSound(j)' BY <1>9, <2>1 DEF TypeOK, MergeSound, Phases
        <4>4. CauseKnown(j)' BY <1>9, <2>1 DEF TypeOK, CauseKnown, Phases
        <4> QED BY <4>1, <4>2, <4>3, <4>4
      <3>4. ASSUME NEW j \in Jobs, NEW c \in Chunks PROVE ChunkSound(j, c)'
        BY <1>9, <2>1 DEF ChunkSound, CtxDone
      <3> QED BY <3>1, <3>2, <3>3, <3>4
    <2>2. CASE phase[k] = "drain"
      <3>1. TypeOK' BY <1>9, <2>2 DEF TypeOK, Phases
      <3>2. ClearSound' BY <1>9, <2>2 DEF ClearSound
      <3>3. ASSUME NEW j \in Jobs
            PROVE  SentSound(j)' /\ TempsOwned(j)' /\ MergeSound(j)' /\ CauseKnown(j)'
        <4>1. SentSound(j)' BY <1>9, <2>2 DEF TypeOK, SentSound, Phases
        <4>2. TempsOwned(j)' BY <1>9, <2>2, ZenonT(60) DEF TypeOK, TempsOwned, Phases
        <4>3. MergeSound(j)' BY <1>9, <2>2 DEF TypeOK, MergeSound, Phases
        <4>4. CauseKnown(j)' BY <1>9, <2>2 DEF TypeOK, CauseKnown, Phases
        <4> QED BY <4>1, <4>2, <4>3, <4>4
      <3>4. ASSUME NEW j \in Jobs, NEW c \in Chunks PROVE ChunkSound(j, c)'
        BY <1>9, <2>2 DEF ChunkSound, CtxDone
      <3> QED BY <3>1, <3>2, <3>3, <3>4
    <2> QED BY <1>9, <2>1, <2>2
  <1>10. CASE Publish(k)
    <2>1. TypeOK' BY <1>10 DEF Publish, Goto, TypeOK, Phases
    <2>2. ClearSound' BY <1>10 DEF Publish, Goto, ClearSound, TypeOK, SentSound
    <2>3. ASSUME NEW j \in Jobs
          PROVE  SentSound(j)' /\ TempsOwned(j)' /\ MergeSound(j)' /\ CauseKnown(j)'
      BY <1>10 DEF Publish, Goto, TypeOK, Phases, ClearSound,
                  SentSound, TempsOwned, MergeSound, CauseKnown
    <2>4. ASSUME NEW j \in Jobs, NEW c \in Chunks PROVE ChunkSound(j, c)'
      BY <1>10 DEF Publish, Goto, ChunkSound, CtxDone
    <2> QED BY <2>1, <2>2, <2>3, <2>4
  <1> QED BY <1>1, <1>2, <1>3, <1>4, <1>5, <1>6, <1>7, <1>8, <1>9, <1>10 DEF JobStep

\* qpdf writes or dies, or the client leaves.
LEMMA QpdfStepInv ==
    ASSUME JobInv, NEW k \in Jobs, QpdfWrites(k) \/ QpdfDies(k) \/ ClientGone(k)
    PROVE  JobInv'
  <1> USE ConvertJobAssumption DEF JobInv, cacheVars, clearVars
  <1>1. CASE QpdfWrites(k)
    <2>1. TypeOK' BY <1>1 DEF QpdfWrites, TypeOK
    <2>2. ClearSound' BY <1>1 DEF QpdfWrites, ClearSound
    <2>3. ASSUME NEW j \in Jobs
          PROVE  SentSound(j)' /\ TempsOwned(j)' /\ MergeSound(j)' /\ CauseKnown(j)'
      BY <1>1 DEF QpdfWrites, TypeOK, Phases,
                  SentSound, TempsOwned, MergeSound, CauseKnown
    <2>4. ASSUME NEW j \in Jobs, NEW c \in Chunks PROVE ChunkSound(j, c)'
      BY <1>1 DEF QpdfWrites, ChunkSound, CtxDone
    <2> QED BY <2>1, <2>2, <2>3, <2>4
  <1>2. CASE QpdfDies(k)
    <2>1. TypeOK' BY <1>2 DEF QpdfDies, Goto, TypeOK, Phases
    <2>2. ClearSound' BY <1>2 DEF QpdfDies, Goto, ClearSound
    <2>3. ASSUME NEW j \in Jobs
          PROVE  SentSound(j)' /\ TempsOwned(j)' /\ MergeSound(j)' /\ CauseKnown(j)'
      BY <1>2 DEF QpdfDies, Goto, TypeOK, Phases,
                  SentSound, TempsOwned, MergeSound, CauseKnown
    <2>4. ASSUME NEW j \in Jobs, NEW c \in Chunks PROVE ChunkSound(j, c)'
      BY <1>2 DEF QpdfDies, Goto, ChunkSound, CtxDone
    <2> QED BY <2>1, <2>2, <2>3, <2>4
  <1>3. CASE ClientGone(k)
    <2>1. TypeOK' BY <1>3 DEF ClientGone, Ended, TypeOK
    <2>2. ClearSound' BY <1>3 DEF ClientGone, Ended, ClearSound
    <2>3. ASSUME NEW j \in Jobs
          PROVE  SentSound(j)' /\ TempsOwned(j)' /\ MergeSound(j)' /\ CauseKnown(j)'
      BY <1>3 DEF ClientGone, Ended, TypeOK, Phases,
                  SentSound, TempsOwned, MergeSound, CauseKnown
    <2>4. ASSUME NEW j \in Jobs, NEW c \in Chunks PROVE ChunkSound(j, c)'
      BY <1>3 DEF ClientGone, Ended, ChunkSound, CtxDone, TypeOK
    <2> QED BY <2>1, <2>2, <2>3, <2>4
  <1> QED BY <1>1, <1>2, <1>3

\* A step of the goroutine of one chunk.
LEMMA ChunkStepInv ==
    ASSUME JobInv, NEW k \in Jobs, NEW d \in Chunks, ChunkStep(k, d) PROVE JobInv'
  <1> USE ConvertJobAssumption DEF JobInv, cacheVars, clearVars
  <1>1. CASE SkipChunk(k, d)
    <2>1. TypeOK' BY <1>1 DEF SkipChunk, SetChunk, TypeOK, ChunkStates
    <2>2. ClearSound' BY <1>1 DEF SkipChunk, SetChunk, ClearSound
    <2>3. ASSUME NEW j \in Jobs
          PROVE  SentSound(j)' /\ TempsOwned(j)' /\ MergeSound(j)' /\ CauseKnown(j)'
      BY <1>1 DEF SkipChunk, SetChunk, TypeOK, ChunkStates,
                  SentSound, TempsOwned, MergeSound, CauseKnown
    <2>4. ASSUME NEW j \in Jobs, NEW c \in Chunks PROVE ChunkSound(j, c)'
      BY <1>1 DEF SkipChunk, SetChunk, ChunkSound, CtxDone, TypeOK
    <2> QED BY <2>1, <2>2, <2>3, <2>4
  <1>2. CASE StartChunk(k, d)
    <2> USE DEF StartChunk, SetChunk, SetPath
    <2>1. CASE chunkEntry[d] /\ SetChunk(k, d, "done") /\ SetPath(k, d, "cache")
      <3>1. TypeOK' BY <1>2, <2>1 DEF TypeOK, ChunkStates
      <3>2. ClearSound' BY <1>2, <2>1 DEF ClearSound
      <3>3. ASSUME NEW j \in Jobs
            PROVE  SentSound(j)' /\ TempsOwned(j)' /\ MergeSound(j)' /\ CauseKnown(j)'
        <4>1. SentSound(j)' BY <1>2, <2>1 DEF TypeOK, SentSound, ChunkStates
        <4>2. TempsOwned(j)' BY <1>2, <2>1 DEF TypeOK, TempsOwned, ChunkStates
        <4>3. MergeSound(j)' BY <1>2, <2>1 DEF TypeOK, MergeSound, ChunkStates
        <4>4. CauseKnown(j)' BY <1>2, <2>1 DEF TypeOK, CauseKnown, ChunkStates
        <4> QED BY <4>1, <4>2, <4>3, <4>4
      <3>4. ASSUME NEW j \in Jobs, NEW c \in Chunks PROVE ChunkSound(j, c)'
        BY <1>2, <2>1 DEF ChunkSound, CtxDone, TypeOK
      <3> QED BY <3>1, <3>2, <3>3, <3>4
    <2>2. CASE SetChunk(k, d, "run") /\ UNCHANGED path
      <3>1. TypeOK' BY <1>2, <2>2 DEF TypeOK, ChunkStates
      <3>2. ClearSound' BY <1>2, <2>2 DEF ClearSound
      <3>3. ASSUME NEW j \in Jobs
            PROVE  SentSound(j)' /\ TempsOwned(j)' /\ MergeSound(j)' /\ CauseKnown(j)'
        <4>1. SentSound(j)' BY <1>2, <2>2 DEF TypeOK, SentSound, ChunkStates
        <4>2. TempsOwned(j)' BY <1>2, <2>2 DEF TypeOK, TempsOwned, ChunkStates
        <4>3. MergeSound(j)' BY <1>2, <2>2 DEF TypeOK, MergeSound, ChunkStates
        <4>4. CauseKnown(j)' BY <1>2, <2>2 DEF TypeOK, CauseKnown, ChunkStates
        <4> QED BY <4>1, <4>2, <4>3, <4>4
      <3>4. ASSUME NEW j \in Jobs, NEW c \in Chunks PROVE ChunkSound(j, c)'
        BY <1>2, <2>2 DEF ChunkSound, CtxDone, TypeOK
      <3> QED BY <3>1, <3>2, <3>3, <3>4
    <2> QED BY <1>2, <2>1, <2>2
  <1>3. CASE RenderOk(k, d)
    <2>1. TypeOK' BY <1>3 DEF RenderOk, Rendered, SetChunk, SetPath, TypeOK, ChunkStates
    <2>2. ClearSound' BY <1>3 DEF RenderOk, Rendered, SetChunk, SetPath, ClearSound
    <2>3. ASSUME NEW j \in Jobs
          PROVE  SentSound(j)' /\ TempsOwned(j)' /\ MergeSound(j)' /\ CauseKnown(j)'
      BY <1>3 DEF RenderOk, Rendered, SetChunk, SetPath, TypeOK, ChunkStates,
                  SentSound, TempsOwned, MergeSound, CauseKnown
    <2>4. ASSUME NEW j \in Jobs, NEW c \in Chunks PROVE ChunkSound(j, c)'
      BY <1>3 DEF RenderOk, Rendered, SetChunk, SetPath, ChunkSound, CtxDone, TypeOK
    <2> QED BY <2>1, <2>2, <2>3, <2>4
  <1>4. CASE RenderMisreported(k, d)
    <2>1. TypeOK' BY <1>4 DEF RenderMisreported, Rendered, SetChunk, SetPath, TypeOK, ChunkStates
    <2>2. ClearSound' BY <1>4 DEF RenderMisreported, Rendered, SetChunk, SetPath, ClearSound
    <2>3. ASSUME NEW j \in Jobs
          PROVE  SentSound(j)' /\ TempsOwned(j)' /\ MergeSound(j)' /\ CauseKnown(j)'
      BY <1>4 DEF RenderMisreported, Rendered, SetChunk, SetPath, TypeOK, ChunkStates,
                  SentSound, TempsOwned, MergeSound, CauseKnown
    <2>4. ASSUME NEW j \in Jobs, NEW c \in Chunks PROVE ChunkSound(j, c)'
      BY <1>4 DEF RenderMisreported, Rendered, SetChunk, SetPath, ChunkSound, CtxDone, TypeOK
    <2> QED BY <2>1, <2>2, <2>3, <2>4
  <1>5. CASE RenderFails(k, d)
    <2>1. TypeOK' BY <1>5, ZenonT(60) DEF RenderFails, SetChunk, TypeOK, ChunkStates
    <2>2. ClearSound' BY <1>5 DEF RenderFails, SetChunk, ClearSound
    <2>3. ASSUME NEW j \in Jobs
          PROVE  SentSound(j)' /\ TempsOwned(j)' /\ MergeSound(j)' /\ CauseKnown(j)'
      BY <1>5 DEF RenderFails, SetChunk, TypeOK, ChunkStates, CtxDone,
                  SentSound, TempsOwned, MergeSound, CauseKnown
    <2>4. ASSUME NEW j \in Jobs, NEW c \in Chunks PROVE ChunkSound(j, c)'
      BY <1>5 DEF RenderFails, SetChunk, ChunkSound, CtxDone, TypeOK
    <2> QED BY <2>1, <2>2, <2>3, <2>4
  <1>6. CASE PutBegins(k, d)
    <2> USE DEF PutBegins, SetChunk
    <2>1. CASE file[k][d] /\ temp' = [temp EXCEPT ![k][d] = TRUE] /\ SetChunk(k, d, "rename")
      <3>1. TypeOK' BY <1>6, <2>1 DEF TypeOK, ChunkStates
      <3>2. ClearSound' BY <1>6, <2>1 DEF ClearSound
      <3>3. ASSUME NEW j \in Jobs
            PROVE  SentSound(j)' /\ TempsOwned(j)' /\ MergeSound(j)' /\ CauseKnown(j)'
        <4>1. SentSound(j)' BY <1>6, <2>1 DEF TypeOK, SentSound, ChunkStates
        <4>2. TempsOwned(j)' BY <1>6, <2>1 DEF TypeOK, TempsOwned, ChunkStates
        <4>3. MergeSound(j)' BY <1>6, <2>1 DEF TypeOK, MergeSound, ChunkStates
        <4>4. CauseKnown(j)' BY <1>6, <2>1 DEF TypeOK, CauseKnown, ChunkStates
        <4> QED BY <4>1, <4>2, <4>3, <4>4
      <3>4. ASSUME NEW j \in Jobs, NEW c \in Chunks PROVE ChunkSound(j, c)'
        BY <1>6, <2>1 DEF ChunkSound, CtxDone, TypeOK
      <3> QED BY <3>1, <3>2, <3>3, <3>4
    <2>2. CASE SetChunk(k, d, "done") /\ UNCHANGED temp
      <3>1. TypeOK' BY <1>6, <2>2 DEF TypeOK, ChunkStates
      <3>2. ClearSound' BY <1>6, <2>2 DEF ClearSound
      <3>3. ASSUME NEW j \in Jobs
            PROVE  SentSound(j)' /\ TempsOwned(j)' /\ MergeSound(j)' /\ CauseKnown(j)'
        <4>1. SentSound(j)' BY <1>6, <2>2 DEF TypeOK, SentSound, ChunkStates
        <4>2. TempsOwned(j)' BY <1>6, <2>2 DEF TypeOK, TempsOwned, ChunkStates
        <4>3. MergeSound(j)' BY <1>6, <2>2 DEF TypeOK, MergeSound, ChunkStates
        <4>4. CauseKnown(j)' BY <1>6, <2>2 DEF TypeOK, CauseKnown, ChunkStates
        <4> QED BY <4>1, <4>2, <4>3, <4>4
      <3>4. ASSUME NEW j \in Jobs, NEW c \in Chunks PROVE ChunkSound(j, c)'
        BY <1>6, <2>2 DEF ChunkSound, CtxDone, TypeOK
      <3> QED BY <3>1, <3>2, <3>3, <3>4
    <2> QED BY <1>6, <2>1, <2>2
  <1>7. CASE PutRenames(k, d)
    <2>1. TypeOK' BY <1>7 DEF PutRenames, SetChunk, TypeOK, ChunkStates
    <2>2. ClearSound' BY <1>7 DEF PutRenames, SetChunk, ClearSound
    <2>3. ASSUME NEW j \in Jobs
          PROVE  SentSound(j)' /\ TempsOwned(j)' /\ MergeSound(j)' /\ CauseKnown(j)'
      BY <1>7 DEF PutRenames, SetChunk, TypeOK, ChunkStates,
                  SentSound, TempsOwned, MergeSound, CauseKnown
    <2>4. ASSUME NEW j \in Jobs, NEW c \in Chunks PROVE ChunkSound(j, c)'
      BY <1>7 DEF PutRenames, SetChunk, ChunkSound, CtxDone, TypeOK
    <2> QED BY <2>1, <2>2, <2>3, <2>4
  <1> QED BY <1>1, <1>2, <1>3, <1>4, <1>5, <1>6, <1>7 DEF ChunkStep

\* Clear, beside the conversions.
LEMMA ClearStepInv == ASSUME JobInv, ClearStep PROVE JobInv'
  <1> USE ConvertJobAssumption DEF JobInv, cacheVars, clearVars
  <1>1. CASE ClearBegins
    <2>1. TypeOK' BY <1>1 DEF ClearBegins, jobVars, TypeOK
    <2>2. ClearSound' BY <1>1 DEF ClearBegins, jobVars, ClearSound
    <2>3. ASSUME NEW j \in Jobs
          PROVE  SentSound(j)' /\ TempsOwned(j)' /\ MergeSound(j)' /\ CauseKnown(j)'
      BY <1>1 DEF ClearBegins, jobVars, TypeOK,
                  SentSound, TempsOwned, MergeSound, CauseKnown
    <2>4. ASSUME NEW j \in Jobs, NEW c \in Chunks PROVE ChunkSound(j, c)'
      BY <1>1 DEF ClearBegins, jobVars, ChunkSound, CtxDone
    <2> QED BY <2>1, <2>2, <2>3, <2>4
  <1>2. CASE ClearRemoves
    <2> USE DEF ClearRemoves, jobVars
    <2>1. CASE \E e \in Chunks : chunkEntry' = [chunkEntry EXCEPT ![e] = FALSE]
               /\ UNCHANGED <<temp, tee, final>>
      <3>1. TypeOK' BY <1>2, <2>1 DEF TypeOK, ClearSound
      <3>2. ClearSound' BY <1>2, <2>1 DEF ClearSound
      <3>3. ASSUME NEW j \in Jobs
            PROVE  SentSound(j)' /\ TempsOwned(j)' /\ MergeSound(j)' /\ CauseKnown(j)'
        <4>1. SentSound(j)' BY <1>2, <2>1 DEF TypeOK, SentSound
        <4>2. TempsOwned(j)' BY <1>2, <2>1 DEF TypeOK, TempsOwned
        <4>3. MergeSound(j)' BY <1>2, <2>1 DEF TypeOK, MergeSound
        <4>4. CauseKnown(j)' BY <1>2, <2>1 DEF TypeOK, CauseKnown, ClearSound
        <4> QED BY <4>1, <4>2, <4>3, <4>4
      <3>4. ASSUME NEW j \in Jobs, NEW c \in Chunks PROVE ChunkSound(j, c)'
        BY <1>2, <2>1 DEF ChunkSound, CtxDone, TypeOK, ClearSound
      <3> QED BY <3>1, <3>2, <3>3, <3>4
    <2>2. CASE \E i \in Jobs, e \in Chunks : temp' = [temp EXCEPT ![i][e] = FALSE]
               /\ UNCHANGED <<chunkEntry, tee, final>>
      <3>1. TypeOK' BY <1>2, <2>2 DEF TypeOK, ClearSound
      <3>2. ClearSound' BY <1>2, <2>2 DEF ClearSound
      <3>3. ASSUME NEW j \in Jobs
            PROVE  SentSound(j)' /\ TempsOwned(j)' /\ MergeSound(j)' /\ CauseKnown(j)'
        <4>1. SentSound(j)' BY <1>2, <2>2 DEF TypeOK, SentSound
        <4>2. TempsOwned(j)' BY <1>2, <2>2 DEF TypeOK, TempsOwned
        <4>3. MergeSound(j)' BY <1>2, <2>2 DEF TypeOK, MergeSound
        <4>4. CauseKnown(j)' BY <1>2, <2>2 DEF TypeOK, CauseKnown, ClearSound
        <4> QED BY <4>1, <4>2, <4>3, <4>4
      <3>4. ASSUME NEW j \in Jobs, NEW c \in Chunks PROVE ChunkSound(j, c)'
        BY <1>2, <2>2 DEF ChunkSound, CtxDone, TypeOK, ClearSound
      <3> QED BY <3>1, <3>2, <3>3, <3>4
    <2>3. CASE final' = Absent /\ UNCHANGED <<chunkEntry, temp, tee>>
      <3>1. TypeOK' BY <1>2, <2>3 DEF TypeOK, ClearSound
      <3>2. ClearSound' BY <1>2, <2>3 DEF ClearSound
      <3>3. ASSUME NEW j \in Jobs
            PROVE  SentSound(j)' /\ TempsOwned(j)' /\ MergeSound(j)' /\ CauseKnown(j)'
        <4>1. SentSound(j)' BY <1>2, <2>3 DEF TypeOK, SentSound
        <4>2. TempsOwned(j)' BY <1>2, <2>3 DEF TypeOK, TempsOwned
        <4>3. MergeSound(j)' BY <1>2, <2>3 DEF TypeOK, MergeSound
        <4>4. CauseKnown(j)' BY <1>2, <2>3 DEF TypeOK, CauseKnown, ClearSound
        <4> QED BY <4>1, <4>2, <4>3, <4>4
      <3>4. ASSUME NEW j \in Jobs, NEW c \in Chunks PROVE ChunkSound(j, c)'
        BY <1>2, <2>3 DEF ChunkSound, CtxDone, TypeOK, ClearSound
      <3> QED BY <3>1, <3>2, <3>3, <3>4
    <2>4. CASE \E i \in Jobs : tee' = [tee EXCEPT ![i] = FALSE]
               /\ UNCHANGED <<chunkEntry, temp, final>>
      <3>1. TypeOK' BY <1>2, <2>4 DEF TypeOK, ClearSound
      <3>2. ClearSound' BY <1>2, <2>4 DEF ClearSound
      <3>3. ASSUME NEW j \in Jobs
            PROVE  SentSound(j)' /\ TempsOwned(j)' /\ MergeSound(j)' /\ CauseKnown(j)'
        <4>1. SentSound(j)' BY <1>2, <2>4 DEF TypeOK, SentSound
        <4>2. TempsOwned(j)' BY <1>2, <2>4 DEF TypeOK, TempsOwned
        <4>3. MergeSound(j)' BY <1>2, <2>4 DEF TypeOK, MergeSound
        <4>4. CauseKnown(j)' BY <1>2, <2>4 DEF TypeOK, CauseKnown, ClearSound
        <4> QED BY <4>1, <4>2, <4>3, <4>4
      <3>4. ASSUME NEW j \in Jobs, NEW c \in Chunks PROVE ChunkSound(j, c)'
        BY <1>2, <2>4 DEF ChunkSound, CtxDone, TypeOK, ClearSound
      <3> QED BY <3>1, <3>2, <3>3, <3>4
    <2> QED BY <1>2, <2>1, <2>2, <2>3, <2>4
  <1>3. CASE ClearMovesOn
    <2>1. TypeOK' BY <1>3 DEF ClearMovesOn, jobVars, TypeOK
    <2>2. ClearSound' BY <1>3 DEF ClearMovesOn, jobVars, ClearSound, TypeOK
    <2>3. ASSUME NEW j \in Jobs
          PROVE  SentSound(j)' /\ TempsOwned(j)' /\ MergeSound(j)' /\ CauseKnown(j)'
      BY <1>3 DEF ClearMovesOn, jobVars, TypeOK,
                  SentSound, TempsOwned, MergeSound, CauseKnown
    <2>4. ASSUME NEW j \in Jobs, NEW c \in Chunks PROVE ChunkSound(j, c)'
      BY <1>3 DEF ClearMovesOn, jobVars, ChunkSound, CtxDone
    <2> QED BY <2>1, <2>2, <2>3, <2>4
  <1> QED BY <1>1, <1>2, <1>3 DEF ClearStep

\* Every step keeps the inductive invariant.
LEMMA JobInvStep == JobInv /\ [Next]_vars => JobInv'
  <1> SUFFICES ASSUME JobInv, [Next]_vars PROVE JobInv' OBVIOUS
  <1>1. ASSUME NEW j \in Jobs, JobStep(j) PROVE JobInv' BY <1>1, JobStepInv
  <1>2. ASSUME NEW j \in Jobs, QpdfWrites(j) \/ QpdfDies(j) \/ ClientGone(j) PROVE JobInv'
    BY <1>2, QpdfStepInv
  <1>3. ASSUME NEW j \in Jobs, NEW c \in Chunks, ChunkStep(j, c) PROVE JobInv'
    BY <1>3, ChunkStepInv
  <1>4. CASE ClearStep BY <1>4, ClearStepInv
  <1>5. CASE UNCHANGED vars
    <2> USE DEF vars, jobVars, cacheVars, clearVars
    <2>1. TypeOK' /\ ClearSound' BY <1>5 DEF JobInv, TypeOK, ClearSound
    <2>2. ASSUME NEW j \in Jobs
          PROVE  SentSound(j)' /\ TempsOwned(j)' /\ MergeSound(j)' /\ CauseKnown(j)'
      BY <1>5 DEF JobInv, SentSound, TempsOwned, MergeSound, CauseKnown
    <2>3. ASSUME NEW j \in Jobs, NEW c \in Chunks PROVE ChunkSound(j, c)'
      BY <1>5 DEF JobInv, ChunkSound, CtxDone
    <2> QED BY <2>1, <2>2, <2>3 DEF JobInv
  <1> QED BY <1>1, <1>2, <1>3, <1>4, <1>5 DEF Next, Terminated

\* The inductive invariant always holds.
LEMMA JobInvAlways == Spec => []JobInv
  BY JobInvInit, JobInvStep, PTL DEF Spec

-----------------------------------------------------------------------------

\* ConvertJob reports success only if the client was sent the whole document:
\* rendered, merged from cached chunks or served from the final cache, beside
\* any number of other conversions, clients that leave and runs of Clear.
THEOREM SuccessAlwaysComplete == Spec => []SuccessIsComplete
  <1>1. JobInv => SuccessIsComplete BY DEF JobInv, SentSound, SuccessIsComplete
  <1> QED BY <1>1, JobInvAlways, PTL

\* FinalizeFinal never publishes a truncated document under final/<sha>.pdf, and
\* a conversion that is over has left no temp file of AtomicWrite or of the merge.
THEOREM FinalCacheAlwaysSound == Spec => []FinalCacheSound
  <1>1. JobInv => FinalCacheSound
    <2> SUFFICES ASSUME JobInv PROVE FinalCacheSound OBVIOUS
    <2>1. ASSUME NEW j \in Jobs, Ended(j) PROVE ~tee[j] /\ \A c \in Chunks : ~temp[j][c]
      BY <2>1 DEF JobInv, TempsOwned, Ended
    <2> QED BY <2>1 DEF JobInv, ClearSound, FinalCacheSound
  <1> QED BY <1>1, JobInvAlways, PTL

\* As long as nobody calls DELETE /v1/cache, ConvertJob returns an error only if its
\* own client left or its own probe, pool, render or qpdf failed.
THEOREM AlwaysFailsForCause == Spec => []FailsForCause
  <1>1. JobInv => FailsForCause BY DEF JobInv, CauseKnown, FailsForCause
  <1> QED BY <1>1, JobInvAlways, PTL
=============================================================================
