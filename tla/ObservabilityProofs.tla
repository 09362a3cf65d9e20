------------------------ MODULE ObservabilityProofs ------------------------
(***************************************************************************)
(* PercentNeverFalls, ActiveIsTruthful, RingKeepsNewest and WalkComplete   *)
(* for every set of jobs, TTL, ring size, history and page size.  The      *)
(* first two rest on what the table holds of a job at each place of its    *)
(* conversion: EntrySound says that a job that loads or renders has an     *)
(* entry for a TTL after its last update, and that the entry follows its   *)
(* plan unless it was begun later than the plan; JobSound, that the entry  *)
(* of a success, if there is one, is complete and recent enough for what   *)
(* its tailer has yet to read.  The last rests on WalkInv: the walk has shown  *)
(* all that stands before its cursor and nothing that stands after it.     *)
(***************************************************************************)
EXTENDS Observability, SequenceTheorems, WellFoundedInduction, TLAPS

Phases   == {"init", "loading", "rendering", "merging", "complete"}
Places   == {"init", "loading", "replan", "rendering", "merging", "over", "stamped", "recorded"}
Underway == {"loading", "replan", "rendering"}
Ended    == {"over", "stamped", "recorded"}
Statuses == {"none", "success", "failed"}

Entry == [total : Nat, rendered : Nat, phase : Phases, load : 0..2, merge : 0..1,
          started : Nat, touched : Nat]
UpdateRecord == [total : Int, phase : Phases \cup {"nil"}, load : Int, merge : {-1, 0, 1},
                 chunks : {0, 1}]
StderrLine == [type : {"heartbeat", "load_progress"}, v : Nat]
Conversion == [at : Places, pool : BOOLEAN, total : Nat, left : Nat, extra : Nat,
               planned : Nat, heard : Nat, lines : Nat, status : Statuses, ts : Nat]

StoreTypes ==
    /\ now \in Nat
    /\ DOMAIN store \subseteq Jobs
    /\ \A j \in DOMAIN store : /\ store[j] \in Entry
                               /\ store[j].started <= store[j].touched
                               /\ store[j].touched <= now

JobTypes ==
    /\ job \in [Jobs -> Conversion]
    /\ stderr \in [Jobs -> Seq(StderrLine)]
    /\ stamp \in Nat

\* The entry of j in the table st, for a conversion c that loads or renders.
EntrySound(c, j, st) ==
    /\ c.planned <= c.heard /\ c.heard <= now
    /\ now - c.heard <= TTL => j \in DOMAIN st
    /\ j \in DOMAIN st =>
          /\ c.heard <= st[j].touched
          /\ st[j].phase # "complete"
          /\ c.at # "rendering" => st[j].rendered = 0
          /\ st[j].started <= c.planned => st[j].total = c.total

JobSound(j) ==
    /\ job[j].at = "init" => j \notin DOMAIN store /\ stderr[j] = <<>>
    /\ job[j].at \in Underway => EntrySound(job[j], j, store)
    /\ job[j].status = "success" =>
          /\ job[j].at \in Ended
          /\ j \in DOMAIN store => store[j].phase = "complete"
          /\ stderr[j] # <<>> => j \in DOMAIN store /\ store[j].touched = now

ProgressInv == StoreTypes /\ JobTypes /\ \A j \in Jobs : JobSound(j)

\* The rings hold the ends of what was recorded.
EndsWith(s, t) ==
    /\ Len(s) <= Len(t)
    /\ \A i \in 1..Len(s) : s[i] = t[Len(t) - Len(s) + i]

RingInv ==
    /\ beats \in [Jobs -> Seq(Nat)]
    /\ DOMAIN ring \subseteq Jobs
    /\ \A j \in DOMAIN ring : /\ ring[j].buf \in Seq(Nat)
                              /\ Len(ring[j].buf) \in 1..RingMax
                              /\ EndsWith(ring[j].buf, beats[j])

-----------------------------------------------------------------------------
(* Arithmetic of the percentage.                                           *)

\* The chunks' part of WeightedPercent.
ChunkPct(e) == IF e.total = 0 THEN 0
               ELSE IF e.rendered > e.total THEN 650
               ELSE (650 * e.rendered) \div e.total

\* Division rounds down.
LEMMA DivBound ==
  ASSUME NEW a \in Nat, NEW b \in Nat, NEW c \in Nat \ {0}
  PROVE  /\ b \div c \in Nat
         /\ a <= b \div c <=> a * c <= b
  <1> DEFINE q == b \div c
             r == b % c
  <1>1. q \in Nat /\ r \in Nat /\ r < c /\ b = c * q + r
    BY SMT
  <1> HIDE DEF q, r
  <1>2. CASE a <= q
    <2>1. a * c <= q * c
      BY <1>1, <1>2, SMT
    <2> QED
      BY <1>1, <1>2, <2>1, SMT DEF q
  <1>3. CASE a > q
    <2>1. a * c >= (q + 1) * c /\ (q + 1) * c = c * q + c
      BY <1>1, <1>3, SMT
    <2>2. a * c > b
      BY <1>1, <2>1, SMT
    <2> QED
      BY <1>1, <1>3, <2>2, SMT DEF q
  <1> QED
    BY <1>1, <1>2, <1>3

\* A share of 650 thousandths never exceeds 650, and grows with the chunks.
LEMMA ShareMonotone ==
  ASSUME NEW a \in Nat, NEW b \in Nat, NEW t \in Nat \ {0}, a <= b, b <= t
  PROVE  /\ (650 * a) \div t \in Nat /\ (650 * b) \div t \in Nat
         /\ (650 * a) \div t <= (650 * b) \div t
         /\ (650 * b) \div t <= 650
         /\ a = 0 => (650 * a) \div t = 0
  <1> DEFINE x == (650 * a) \div t
             y == (650 * b) \div t
  <1>1. 650 * a \in Nat /\ 650 * b \in Nat /\ 650 * a <= 650 * b /\ 650 * b <= 650 * t /\ 650 * t \in Nat
    OBVIOUS
  <1>2. x \in Nat /\ y \in Nat
    BY <1>1, DivBound
  <1>3. x * t <= 650 * a
    BY <1>1, <1>2, DivBound
  <1>4. x <= y
    <2>1. x * t \in Nat
      BY <1>2, SMT
    <2>2. x * t <= 650 * b
      BY <1>1, <1>3, <2>1
    <2> QED
      BY <1>1, <1>2, <2>2, DivBound
  <1>5. y <= 650
    <2>1. y * t <= 650 * b
      BY <1>1, <1>2, DivBound
    <2>2. CASE y >= 651
      <3>1. y * t >= 651 * t
        BY <1>2, <2>2, SMT
      <3>2. 651 * t = 650 * t + t
        OBVIOUS
      <3> QED
        BY <1>1, <1>2, <2>1, <3>1, <3>2, SMT
    <2> QED
      BY <1>2, <2>2
  <1>6. a = 0 => x = 0
    <2> SUFFICES ASSUME a = 0 PROVE x = 0
      OBVIOUS
    <2>1. ~(1 * t <= 650 * a)
      OBVIOUS
    <2>2. ~(1 <= x)
      BY <1>1, <2>1, DivBound
    <2> QED
      BY <1>2, <2>2
  <1> QED
    BY <1>2, <1>4, <1>5, <1>6

\* The part is between 0 and 650.
LEMMA ChunkPctRange ==
  ASSUME NEW e \in Entry
  PROVE  /\ ChunkPct(e) \in Nat /\ ChunkPct(e) <= 650
         /\ e.rendered = 0 => ChunkPct(e) = 0
  <1>1. e.total \in Nat /\ e.rendered \in Nat
    BY DEF Entry
  <1>2. CASE e.total = 0 \/ e.rendered > e.total
    BY <1>1, <1>2 DEF ChunkPct
  <1>3. CASE e.total # 0 /\ e.rendered <= e.total
    <2>1. ChunkPct(e) = (650 * e.rendered) \div e.total
      BY <1>1, <1>3 DEF ChunkPct
    <2> QED
      BY <1>1, <1>3, <2>1, ShareMonotone
  <1> QED
    BY <1>1, <1>2, <1>3

\* Chunks rendered under the same plan.
LEMMA ChunkPctGrows ==
  ASSUME NEW e \in Entry, NEW f \in Entry, f.total = e.total, e.rendered <= f.rendered
  PROVE  ChunkPct(e) <= ChunkPct(f)
  <1>1. e.total \in Nat /\ e.rendered \in Nat /\ f.rendered \in Nat
    BY DEF Entry
  <1>2. CASE e.total = 0
    BY <1>2 DEF ChunkPct
  <1>3. CASE e.total # 0 /\ f.rendered > f.total
    BY <1>3, <1>1, ChunkPctRange DEF ChunkPct
  <1>4. CASE e.total # 0 /\ f.rendered <= f.total
    <2>1. /\ ChunkPct(e) = (650 * e.rendered) \div e.total
          /\ ChunkPct(f) = (650 * f.rendered) \div e.total
      BY <1>1, <1>4 DEF ChunkPct
    <2>2. e.total \in Nat \ {0} /\ f.rendered <= e.total
      BY <1>1, <1>4
    <2> QED
      BY <1>1, <2>1, <2>2, ShareMonotone
  <1> QED
    BY <1>1, <1>2, <1>3, <1>4

\* When the percentage does not fall.
LEMMA PercentMonotone ==
  ASSUME NEW e \in Entry, NEW f \in Entry,
         \/ f.phase = "complete"
         \/ /\ e.phase # "complete"
            /\ e.load <= f.load /\ e.merge <= f.merge /\ ChunkPct(e) <= ChunkPct(f)
  PROVE  WeightedPercent(e) <= WeightedPercent(f)
  <1> DEFINE P(x) == 150 * x.load + ChunkPct(x) + 50 * x.merge
  <1>1. \A x : WeightedPercent(x) = IF x.phase = "complete" THEN 1000
                                    ELSE IF P(x) > 999 THEN 999 ELSE P(x)
    BY DEF WeightedPercent, ChunkPct
  <1>2. /\ e.load \in 0..2 /\ e.merge \in 0..1 /\ f.load \in 0..2 /\ f.merge \in 0..1
        /\ ChunkPct(e) \in Nat /\ ChunkPct(f) \in Nat
    BY ChunkPctRange DEF Entry
  <1>3. P(e) \in Nat /\ P(f) \in Nat
    BY <1>2
  <1>4. CASE f.phase = "complete"
    BY <1>1, <1>3, <1>4
  <1>5. CASE /\ e.phase # "complete"
             /\ e.load <= f.load /\ e.merge <= f.merge /\ ChunkPct(e) <= ChunkPct(f)
    <2>1. P(e) <= P(f)
      BY <1>2, <1>5
    <2> HIDE DEF P
    <2> QED
      BY <1>1, <1>3, <1>5, <2>1
  <1> QED
    BY <1>4, <1>5

-----------------------------------------------------------------------------
(* JobProgressStore.Update.                                                *)

\* The entry that Update starts from.
Before(j) == IF j \in Live THEN store[j] ELSE NewEntry

\* A job's entry is as it was, or is evicted.
Kept(j) ==
    /\ j \in Live => j \in DOMAIN store' /\ store'[j] = store[j]
    /\ j \in DOMAIN store' => j \in DOMAIN store /\ store'[j] = store[j]

\* What Update does: to the entry of j, and to the others.
LEMMA UpdateFacts ==
  ASSUME StoreTypes, now' = now, NEW j \in Jobs, NEW u \in UpdateRecord, Update(j, u)
  PROVE  /\ StoreTypes'
         /\ Before(j) \in Entry
         /\ j \in DOMAIN store'
         /\ store'[j].total = IF u.total >= 0 THEN u.total ELSE Before(j).total
         /\ store'[j].phase = IF u.phase # "nil" THEN u.phase ELSE Before(j).phase
         /\ store'[j].rendered = Before(j).rendered + u.chunks
         /\ store'[j].load >= Before(j).load
         /\ u.merge >= 0 \/ store'[j].merge = Before(j).merge
         /\ store'[j].started = Before(j).started
         /\ store'[j].touched = now
         /\ \A r \in Jobs : r # j => Kept(r)
  <1> DEFINE e == Before(j)
             f == [e EXCEPT !.total    = IF u.total >= 0 THEN u.total ELSE @,
                            !.phase    = IF u.phase # "nil" THEN u.phase ELSE @,
                            !.load     = LoadAfter(@, u.load),
                            !.merge    = IF u.merge >= 0 THEN u.merge ELSE @,
                            !.rendered = @ + u.chunks,
                            !.touched  = now]
  <1>1. now \in Nat /\ Live \subseteq DOMAIN store /\ Live \subseteq Jobs
    BY DEF StoreTypes, Live
  <1>2. e \in Entry /\ e.started <= e.touched /\ e.touched <= now
    <2>1. CASE j \in Live
      BY <1>1, <2>1 DEF Before, StoreTypes
    <2>2. CASE j \notin Live
      BY <1>1, <2>2 DEF Before, NewEntry, Entry, Phases
    <2> QED
      BY <2>1, <2>2
  <1>3. store' = [r \in Live \cup {j} |-> IF r = j THEN f ELSE store[r]]
    BY DEF Update, Before
  <1> HIDE DEF e
  <1>4. /\ u.total \in Int /\ u.phase \in Phases \cup {"nil"} /\ u.load \in Int
        /\ u.merge \in {-1, 0, 1} /\ u.chunks \in {0, 1}
    BY DEF UpdateRecord
  <1>5. /\ e.total \in Nat /\ e.rendered \in Nat /\ e.phase \in Phases /\ e.load \in 0..2
        /\ e.merge \in 0..1 /\ e.started \in Nat /\ e.touched \in Nat
    BY <1>2 DEF Entry
  <1>6. LoadAfter(e.load, u.load) \in 0..2 /\ LoadAfter(e.load, u.load) >= e.load
    BY <1>4, <1>5 DEF LoadAfter, Clamp01, FullLoad
  <1>7. /\ f.total = IF u.total >= 0 THEN u.total ELSE e.total
        /\ f.phase = IF u.phase # "nil" THEN u.phase ELSE e.phase
        /\ f.load = LoadAfter(e.load, u.load)
        /\ f.merge = IF u.merge >= 0 THEN u.merge ELSE e.merge
        /\ f.rendered = e.rendered + u.chunks
        /\ f.touched = now /\ f.started = e.started
    BY <1>2 DEF Entry
  <1>8. f \in Entry
    <2>1. /\ (IF u.total >= 0 THEN u.total ELSE e.total) \in Nat
          /\ (IF u.phase # "nil" THEN u.phase ELSE e.phase) \in Phases
          /\ (IF u.merge >= 0 THEN u.merge ELSE e.merge) \in 0..1
          /\ e.rendered + u.chunks \in Nat
      BY <1>4, <1>5
    <2> QED
      BY <1>1, <1>2, <1>6, <2>1 DEF Entry
  <1> HIDE DEF f
  <1>9. /\ DOMAIN store' = Live \cup {j} /\ store'[j] = f
        /\ \A r \in Live : r # j => store'[r] = store[r]
    BY <1>3
  <1>10. StoreTypes'
    <2>1. f.started <= f.touched /\ f.touched <= now
      BY <1>1, <1>2, <1>5, <1>7
    <2> QED
      BY <1>1, <1>8, <1>9, <2>1 DEF StoreTypes
  <1>11. \A r \in Jobs : r # j => Kept(r)
    BY <1>1, <1>9 DEF Kept
  <1> QED
    BY <1>2, <1>6, <1>7, <1>9, <1>10, <1>11 DEF e

\* The updates that do not take the percentage back: a completion, or one that
\* neither reopens a complete entry nor changes the plan of rendered chunks.
Forward(j, u) ==
    \/ u.phase = "complete"
    \/ j \in Live => /\ u.phase # "nil" => store[j].phase # "complete"
                     /\ u.total >= 0 => store[j].rendered = 0
                     /\ u.merge < 0

\* The bar of a job is not less after the step.
PercentKept ==
    \A j \in DOMAIN store \cap DOMAIN store' :
        store[j].started = store'[j].started =>
            WeightedPercent(store[j]) <= WeightedPercent(store'[j])

\* The percentage of an entry is a number.
LEMMA PercentReflexive ==
  ASSUME NEW e \in Entry
  PROVE  WeightedPercent(e) <= WeightedPercent(e)
  <1>1. e.load \in 0..2 /\ e.merge \in 0..1 /\ ChunkPct(e) \in Nat
    BY ChunkPctRange DEF Entry
  <1>2. e.load <= e.load /\ e.merge <= e.merge /\ ChunkPct(e) <= ChunkPct(e)
    BY <1>1
  <1> QED
    BY <1>2, PercentMonotone

\* An update that goes forward takes no bar back.
LEMMA UpdateForward ==
  ASSUME StoreTypes, now' = now, NEW j \in Jobs, NEW u \in UpdateRecord,
         Update(j, u), Forward(j, u)
  PROVE  PercentKept
  <1>1. StoreTypes' /\ \A r \in Jobs : r # j => Kept(r)
    BY UpdateFacts
  <1> SUFFICES ASSUME NEW r \in DOMAIN store \cap DOMAIN store',
                      store[r].started = store'[r].started
               PROVE  WeightedPercent(store[r]) <= WeightedPercent(store'[r])
    BY DEF PercentKept
  <1>2. store[r] \in Entry /\ store'[r] \in Entry /\ r \in Jobs
    BY <1>1 DEF StoreTypes
  <1>3. CASE r # j
    BY <1>1, <1>2, <1>3, PercentReflexive DEF Kept
  <1>4. CASE r = j
    <2> DEFINE e == store[j]
               f == store'[j]
    <2>1. j \in Live
      <3>1. CASE j \notin Live
        <4>1. f.started = now
          BY <3>1, UpdateFacts DEF Before, NewEntry
        <4>2. e.started <= e.touched /\ e.touched <= now /\ now - e.touched > TTL
              /\ e.started \in Nat /\ e.touched \in Nat /\ now \in Nat /\ TTL \in Nat
          BY <1>2, <1>4, <3>1, ObservabilityAssumption DEF StoreTypes, Live, Expired, Entry
        <4> QED
          BY <1>4, <4>1, <4>2
      <3> QED
        BY <3>1
    <2>2. Before(j) = e
      BY <2>1 DEF Before
    <2>3. /\ f.total = IF u.total >= 0 THEN u.total ELSE e.total
          /\ f.phase = IF u.phase # "nil" THEN u.phase ELSE e.phase
          /\ f.rendered = e.rendered + u.chunks
          /\ f.load >= e.load
          /\ u.merge >= 0 \/ f.merge = e.merge
      BY <2>2, UpdateFacts
    <2>4. e \in Entry /\ f \in Entry
      BY <1>2, <1>4
    <2>5. /\ e.total \in Nat /\ e.rendered \in Nat /\ e.load \in 0..2 /\ e.merge \in 0..1
          /\ f.load \in 0..2
      BY <2>4 DEF Entry
    <2>6. u.total \in Int /\ u.merge \in {-1, 0, 1} /\ u.chunks \in {0, 1}
      BY DEF UpdateRecord
    <2> HIDE DEF e, f
    <2>7. CASE u.phase = "complete"
      <3>1. f.phase = "complete"
        BY <2>3, <2>7
      <3>2. WeightedPercent(e) <= WeightedPercent(f)
        BY <2>4, <3>1, PercentMonotone
      <3> QED
        BY <1>4, <3>2 DEF e, f
    <2>8. CASE u.phase # "complete"
      <3>1. /\ u.phase # "nil" => e.phase # "complete"
            /\ u.total >= 0 => e.rendered = 0
            /\ u.merge < 0
        BY <2>1, <2>8 DEF Forward, e
      <3>2. e.merge <= f.merge /\ e.load <= f.load
        BY <2>3, <2>5, <2>6, <3>1
      <3>3. ChunkPct(e) <= ChunkPct(f)
        <4>1. CASE u.total >= 0
          BY <2>4, <3>1, <4>1, ChunkPctRange
        <4>2. CASE ~(u.total >= 0)
          <5>1. f.total = e.total /\ e.rendered <= f.rendered
            BY <2>3, <2>5, <2>6, <4>2
          <5> QED
            BY <2>4, <5>1, ChunkPctGrows
        <4> QED
          BY <4>1, <4>2
      <3>4. f.phase = "complete" \/ e.phase # "complete"
        BY <2>3, <3>1
      <3>5. WeightedPercent(e) <= WeightedPercent(f)
        BY <2>4, <3>2, <3>3, <3>4, PercentMonotone
      <3> QED
        BY <1>4, <3>5 DEF e, f
    <2> QED
      BY <2>7, <2>8
  <1> QED
    BY <1>3, <1>4

-----------------------------------------------------------------------------
(* The steps.                                                              *)

\* An entry that a job relies on is not evicted.
LEMMA JobKept ==
  ASSUME StoreTypes, JobTypes, NEW i \in Jobs, JobSound(i), Kept(i), now' = now,
         job'[i] = job[i], stderr'[i] = stderr[i]
  PROVE  JobSound(i)'
  <1>1. now \in Nat /\ TTL \in Nat /\ job[i].heard \in Nat
    BY ObservabilityAssumption DEF StoreTypes, JobTypes, Conversion
  <1>2. i \in DOMAIN store => store[i].touched \in Nat /\ store[i].touched <= now
    BY DEF StoreTypes, Entry
  <1>3. i \in DOMAIN store /\ now - store[i].touched <= TTL => i \in Live
    BY <1>1, <1>2 DEF Live, Expired
  <1>4. job[i].at \in Underway => EntrySound(job[i], i, store)'
    <2> SUFFICES ASSUME job[i].at \in Underway PROVE EntrySound(job[i], i, store)'
      OBVIOUS
    <2>1. EntrySound(job[i], i, store)
      BY DEF JobSound
    <2>2. now - job[i].heard <= TTL => i \in Live
      BY <1>1, <1>2, <1>3, <2>1 DEF EntrySound
    <2> QED
      BY <2>1, <2>2 DEF EntrySound, Kept
  <1>5. job[i].status = "success" /\ stderr[i] # <<>> => i \in Live
    <2> SUFFICES ASSUME job[i].status = "success", stderr[i] # <<>> PROVE i \in Live
      OBVIOUS
    <2>1. i \in DOMAIN store /\ store[i].touched = now
      BY DEF JobSound
    <2> QED
      BY <1>1, <1>2, <1>3, <2>1
  <1> QED
    BY <1>4, <1>5 DEF JobSound, Kept

\* A step of job j, or of its tailer.
LEMMA StepOfJob ==
  ASSUME ProgressInv, NEW j \in Jobs, now' = now, StoreTypes', JobTypes',
         \A r \in Jobs : r # j => Kept(r) /\ job'[r] = job[r] /\ stderr'[r] = stderr[r],
         JobSound(j)'
  PROVE  ProgressInv'
  <1>1. ASSUME NEW r \in Jobs PROVE JobSound(r)'
    <2>1. CASE r = j
      BY <2>1
    <2>2. CASE r # j
      BY <2>2, JobKept DEF ProgressInv
    <2> QED
      BY <2>1, <2>2
  <1> QED
    BY <1>1 DEF ProgressInv

\* A table that is not written keeps its entries.
LEMMA UnwrittenKept ==
  ASSUME StoreTypes, store' = store, now' = now
  PROVE  StoreTypes' /\ \A r \in Jobs : Kept(r)
  BY DEF StoreTypes, Kept, Live

\* The entry that an update of a job that loads or renders starts from: its own,
\* or a new one, begun later than the plan.
LEMMA UnderwayBefore ==
  ASSUME ProgressInv, NEW j \in Jobs, job[j].at \in Underway
  PROVE  /\ EntrySound(job[j], j, store)
         /\ now - job[j].heard <= TTL => j \in Live
         /\ Before(j) \in Entry
         /\ Before(j).phase # "complete"
         /\ job[j].at # "rendering" => Before(j).rendered = 0
         /\ Before(j).started <= job[j].planned => Before(j).total = job[j].total
         /\ job[j].planned \in Nat /\ job[j].planned <= now
         /\ job[j].status # "success"
  <1>1. EntrySound(job[j], j, store)
    BY DEF ProgressInv, JobSound
  <1>2. /\ now \in Nat /\ job[j].heard \in Nat /\ job[j].planned \in Nat /\ TTL \in Nat
    BY ObservabilityAssumption DEF ProgressInv, StoreTypes, JobTypes, Conversion
  <1>3. j \in DOMAIN store => store[j] \in Entry /\ store[j].touched \in Nat /\ store[j].touched <= now
    BY DEF ProgressInv, StoreTypes, Entry
  <1>4. j \in DOMAIN store /\ now - store[j].touched <= TTL => j \in Live
    BY <1>2, <1>3 DEF Live, Expired
  <1>5. now - job[j].heard <= TTL => j \in Live
    BY <1>1, <1>2, <1>3, <1>4 DEF EntrySound
  <1>6. job[j].status # "success"
    BY DEF ProgressInv, JobSound, Underway, Ended
  <1>7. job[j].planned <= job[j].heard /\ job[j].heard <= now
    BY <1>1 DEF EntrySound
  <1>8. CASE j \in Live
    <2>1. Before(j) = store[j] /\ j \in DOMAIN store
      BY <1>8 DEF Before, Live
    <2> QED
      BY <1>1, <1>2, <1>3, <1>5, <1>6, <1>7, <2>1 DEF EntrySound
  <1>9. CASE j \notin Live
    <2>1. /\ Before(j).started = now /\ Before(j).rendered = 0 /\ Before(j).phase = "init"
          /\ Before(j) \in Entry
      BY <1>2, <1>9 DEF Before, NewEntry, Entry, Phases
    <2>2. ~(now <= job[j].planned)
      BY <1>2, <1>5, <1>7, <1>9
    <2> QED
      BY <1>1, <1>2, <1>5, <1>6, <1>7, <2>1, <2>2
  <1> QED
    BY <1>8, <1>9

\* The fields of a conversion.
LEMMA ConversionFields ==
  ASSUME JobTypes, NEW j \in Jobs
  PROVE  /\ job[j] \in Conversion /\ stderr[j] \in Seq(StderrLine)
         /\ job[j].at \in Places /\ job[j].pool \in BOOLEAN /\ job[j].total \in Nat
         /\ job[j].left \in Nat /\ job[j].extra \in Nat
         /\ job[j].planned \in Nat /\ job[j].heard \in Nat
         /\ job[j].lines \in Nat /\ job[j].status \in Statuses /\ job[j].ts \in Nat
  BY DEF JobTypes, Conversion

\* A conversion ends.
LEMMA FinishFacts ==
  ASSUME JobTypes, NEW j \in Jobs, NEW s \in {"success", "failed"}, job' = Finish(job, j, s)
  PROVE  /\ job' \in [Jobs -> Conversion]
         /\ job'[j].at = "over" /\ job'[j].status = s
         /\ \A r \in Jobs : r # j => job'[r] = job[r]
  <1>1. job \in [Jobs -> Conversion] /\ job[j] \in Conversion
    BY DEF JobTypes
  <1> DEFINE c == [job[j] EXCEPT !.at = "over", !.status = s, !.total = 0, !.left = 0,
                                 !.extra = 0, !.planned = 0, !.heard = 0, !.lines = 0]
  <1>2. c \in Conversion /\ c.at = "over" /\ c.status = s
    BY <1>1 DEF Conversion, Places, Statuses
  <1>3. job' = [job EXCEPT ![j] = c]
    BY <1>1 DEF Finish
  <1> HIDE DEF c
  <1> QED
    BY <1>1, <1>2, <1>3

\* A conversion moves on.
LEMMA SetFacts ==
  ASSUME JobTypes, NEW j \in Jobs, NEW c \in Conversion, job' = [job EXCEPT ![j] = c]
  PROVE  /\ job' \in [Jobs -> Conversion] /\ job'[j] = c
         /\ \A r \in Jobs : r # j => job'[r] = job[r]
  BY DEF JobTypes

\* What a step does to the progress: it keeps the invariant, and no bar falls.
Progress == ProgressInv' /\ PercentKept

\* A table that is not written shows the same bars.
LEMMA UnwrittenPercent ==
  ASSUME StoreTypes, store' = store
  PROVE  PercentKept
  BY PercentReflexive DEF StoreTypes, PercentKept

\* NoUpdate with some of its fields set.
LEMMA UpdateRecords ==
  /\ NoUpdate \in UpdateRecord
  /\ NoUpdate.total = -1 /\ NoUpdate.phase = "nil" /\ NoUpdate.load = -1
  /\ NoUpdate.merge = -1 /\ NoUpdate.chunks = 0
  BY DEF NoUpdate, UpdateRecord

\* An update of all fields but the count of chunks.
LEMMA FieldsSet ==
  ASSUME NEW a \in UpdateRecord, NEW n \in Int, NEW p \in Phases \cup {"nil"},
         NEW l \in Int, NEW m \in {-1, 0, 1}
  PROVE  [a EXCEPT !.total = n, !.load = l, !.merge = m, !.phase = p] \in UpdateRecord
  BY DEF UpdateRecord

\* Another engine, or a failed probe.
LEMMA NoProgressStep ==
  ASSUME ProgressInv, NEW j \in Jobs, NoProgress(j)
  PROVE  Progress
  <1>1. /\ StoreTypes /\ JobTypes /\ job[j].at = "init" /\ JobSound(j)
        /\ UNCHANGED <<now, store, stderr, stamp>>
    BY DEF ProgressInv, NoProgress
  <1>2. PICK st \in {"success", "failed"} : job' = Finish(job, j, st)
    BY DEF NoProgress
  <1>3. /\ job' \in [Jobs -> Conversion] /\ job'[j].at = "over"
        /\ \A r \in Jobs : r # j => job'[r] = job[r]
    BY <1>1, <1>2, FinishFacts
  <1>4. StoreTypes' /\ \A r \in Jobs : Kept(r)
    BY <1>1, UnwrittenKept
  <1>5. JobTypes'
    BY <1>1, <1>3 DEF JobTypes
  <1>6. JobSound(j)'
    BY <1>1, <1>3 DEF JobSound, Underway, Ended
  <1> QED
    BY <1>1, <1>3, <1>4, <1>5, <1>6, StepOfJob, UnwrittenPercent DEF Progress

\* A final-cache hit.
LEMMA CacheHitStep ==
  ASSUME ProgressInv, NEW j \in Jobs, CacheHit(j)
  PROVE  Progress
  <1> DEFINE u == [NoUpdate EXCEPT !.total = 1, !.load = FullLoad, !.merge = 1, !.phase = "complete"]
  <1>1. /\ StoreTypes /\ JobTypes /\ UNCHANGED <<now, stderr, stamp>> /\ Update(j, u)
    BY DEF ProgressInv, CacheHit
  <1>2. u \in UpdateRecord /\ u.phase = "complete" /\ Forward(j, u)
    <2>1. u \in UpdateRecord
      <3>1. NoUpdate \in UpdateRecord /\ "complete" \in Phases \cup {"nil"} /\ FullLoad \in Int
        BY UpdateRecords DEF Phases, FullLoad
      <3>2. 1 \in Int /\ 1 \in {-1, 0, 1}
        OBVIOUS
      <3> HIDE DEF FullLoad
      <3> QED
        BY <3>1, <3>2, FieldsSet
    <2>2. u.phase = "complete"
      BY UpdateRecords DEF UpdateRecord
    <2> HIDE DEF u
    <2> QED
      BY <2>1, <2>2, SMTT(30) DEF Forward
  <1> HIDE DEF u
  <1>3. /\ StoreTypes' /\ j \in DOMAIN store' /\ store'[j].phase = "complete"
        /\ store'[j].touched = now /\ \A r \in Jobs : r # j => Kept(r)
    BY <1>1, <1>2, UpdateFacts
  <1>4. PICK st \in {"success", "failed"} : job' = Finish(job, j, st)
    BY DEF CacheHit
  <1>5. /\ job' \in [Jobs -> Conversion] /\ job'[j].at = "over"
        /\ \A r \in Jobs : r # j => job'[r] = job[r]
    BY <1>1, <1>4, FinishFacts
  <1>6. JobTypes'
    BY <1>1, <1>5 DEF JobTypes
  <1>7. JobSound(j)'
    BY <1>1, <1>3, <1>5 DEF JobSound, Underway, Ended
  <1> QED
    BY <1>1, <1>2, <1>3, <1>5, <1>6, <1>7, StepOfJob, UpdateForward DEF Progress

\* The plan is made: the first update of a job.
LEMMA PlannedStep ==
  ASSUME ProgressInv, NEW j \in Jobs, Planned(j)
  PROVE  Progress
  <1>1. /\ StoreTypes /\ JobTypes /\ UNCHANGED <<now, stderr, stamp>>
        /\ job[j].at = "init" /\ JobSound(j) /\ now \in Nat
    BY DEF ProgressInv, Planned, StoreTypes
  <1>2. PICK n \in 1..MaxChunks :
            /\ Update(j, [NoUpdate EXCEPT !.total = n, !.phase = "loading"])
            /\ job' = Heard(Follows(Moved(j, "loading"), j, n), j)
    BY DEF Planned
  <1> DEFINE u == [NoUpdate EXCEPT !.total = n, !.phase = "loading"]
             c == [job[j] EXCEPT !.at = "loading", !.total = n, !.left = n, !.planned = now, !.heard = now]
  <1>3. n \in Nat
    BY ObservabilityAssumption
  <1>4. /\ u \in UpdateRecord /\ u.total = n /\ u.total >= 0 /\ u.phase = "loading" /\ u.chunks = 0
        /\ u.merge = -1
    <2>1. u \in UpdateRecord
      <3>1. NoUpdate \in UpdateRecord /\ "loading" \in Phases \cup {"nil"} /\ n \in Int
        BY <1>3, UpdateRecords DEF Phases
      <3> QED
        BY <3>1 DEF UpdateRecord
    <2>2. u.total = n /\ u.phase = "loading" /\ u.chunks = 0 /\ u.merge = -1
      BY UpdateRecords DEF UpdateRecord
    <2> QED
      BY <1>3, <2>1, <2>2
  <1>5. j \notin Live /\ Before(j).rendered = 0
    BY <1>1 DEF JobSound, Live, Before, NewEntry
  <1>6. Update(j, u)
    BY <1>2
  <1> HIDE DEF u
  <1>7. /\ StoreTypes' /\ j \in DOMAIN store' /\ \A r \in Jobs : r # j => Kept(r)
        /\ store'[j].phase = "loading" /\ store'[j].total = n
        /\ store'[j].rendered = Before(j).rendered + u.chunks /\ store'[j].touched = now
    BY <1>1, <1>4, <1>6, UpdateFacts
  <1>8. store'[j].rendered = 0
    BY <1>4, <1>5, <1>7
  <1>9. PercentKept
    BY <1>1, <1>4, <1>5, <1>6, UpdateForward DEF Forward
  <1>10. /\ c \in Conversion /\ c.at = "loading" /\ c.total = n /\ c.planned = now /\ c.heard = now
         /\ c.status = job[j].status /\ job' = [job EXCEPT ![j] = c]
    <2>1. job \in [Jobs -> Conversion] /\ job[j] \in Conversion
      BY <1>1, ConversionFields DEF JobTypes
    <2>2. /\ c \in Conversion /\ c.at = "loading" /\ c.total = n /\ c.planned = now /\ c.heard = now
          /\ c.status = job[j].status
      BY <1>1, <1>3, <2>1 DEF Conversion, Places
    <2>3. job' = [job EXCEPT ![j] = c]
      BY <1>2, <2>1 DEF Heard, Follows, Moved, Conversion
    <2> QED
      BY <2>2, <2>3
  <1> HIDE DEF c
  <1>11. /\ job' \in [Jobs -> Conversion] /\ job'[j] = c
         /\ \A r \in Jobs : r # j => job'[r] = job[r]
    BY <1>1, <1>10, SetFacts
  <1>12. JobTypes'
    BY <1>1, <1>11 DEF JobTypes
  <1>13. JobSound(j)'
    <2>1. job[j].status # "success"
      BY <1>1 DEF JobSound, Ended
    <2>2. now <= now
      BY <1>1
    <2>3. EntrySound(c, j, store')
      BY <1>1, <1>7, <1>8, <1>10, <2>2 DEF EntrySound
    <2>4. EntrySound(job[j], j, store)'
      BY <1>1, <1>11, <2>3 DEF EntrySound
    <2> QED
      BY <1>10, <1>11, <2>1, <2>4 DEF JobSound
  <1> QED
    BY <1>1, <1>7, <1>9, <1>11, <1>12, <1>13, StepOfJob DEF Progress

\* An update of a job that loads or renders, without a merge.
LEMMA UnderwayUpdate ==
  ASSUME ProgressInv, NEW j \in Jobs, job[j].at \in Underway, now' = now,
         NEW u \in UpdateRecord, Update(j, u), u.merge = -1, u.phase # "complete",
         u.total >= 0 => job[j].at # "rendering"
  PROVE  /\ StoreTypes' /\ PercentKept
         /\ \A r \in Jobs : r # j => Kept(r)
         /\ \A c \in Conversion :
               /\ c.heard = now /\ c.planned <= now
               /\ \/ u.total >= 0 /\ c.total = u.total
                  \/ c.planned = job[j].planned /\ c.total = job[j].total /\ u.total = -1
               /\ c.at # "rendering" => job[j].at # "rendering" /\ u.chunks = 0
               => EntrySound(c, j, store')
  <1>1. /\ Before(j) \in Entry /\ Before(j).phase # "complete"
        /\ job[j].at # "rendering" => Before(j).rendered = 0
        /\ Before(j).started <= job[j].planned => Before(j).total = job[j].total
    BY UnderwayBefore
  <1>2. Forward(j, u)
    BY <1>1 DEF Forward, Before
  <1>3. StoreTypes /\ now \in Nat
    BY DEF ProgressInv, StoreTypes
  <1>4. PercentKept
    BY <1>2, <1>3, UpdateForward
  <1>5. /\ StoreTypes' /\ j \in DOMAIN store' /\ \A r \in Jobs : r # j => Kept(r)
        /\ store'[j].total = IF u.total >= 0 THEN u.total ELSE Before(j).total
        /\ store'[j].phase = IF u.phase # "nil" THEN u.phase ELSE Before(j).phase
        /\ store'[j].rendered = Before(j).rendered + u.chunks
        /\ store'[j].started = Before(j).started
        /\ store'[j].touched = now
    BY <1>3, UpdateFacts
  <1>6. store'[j].phase # "complete"
    BY <1>1, <1>5
  <1>7. job[j].at # "rendering" /\ u.chunks = 0 => store'[j].rendered = 0
    BY <1>1, <1>5
  <1>8. ASSUME NEW c \in Conversion, c.heard = now, c.planned <= now,
               \/ u.total >= 0 /\ c.total = u.total
               \/ c.planned = job[j].planned /\ c.total = job[j].total /\ u.total = -1,
               c.at # "rendering" => job[j].at # "rendering" /\ u.chunks = 0
        PROVE  EntrySound(c, j, store')
    <2>1. store'[j].started <= c.planned => store'[j].total = c.total
      <3>1. CASE u.total >= 0 /\ c.total = u.total
        BY <1>5, <3>1
      <3>2. CASE c.planned = job[j].planned /\ c.total = job[j].total /\ u.total = -1
        <4>1. ~(u.total >= 0)
          BY <3>2
        <4> QED
          BY <1>1, <1>5, <3>2, <4>1
      <3> QED
        BY <1>8, <3>1, <3>2
    <2>2. now <= now
      BY <1>3
    <2> QED
      BY <1>5, <1>6, <1>7, <1>8, <2>1, <2>2 DEF EntrySound
  <1> QED
    BY <1>4, <1>5, <1>8

\* A step of a job that loads or renders and goes on to c.
LEMMA UnderwayStep ==
  ASSUME ProgressInv, NEW j \in Jobs, job[j].at \in Underway,
         UNCHANGED <<now, stderr, stamp>>,
         StoreTypes', \A r \in Jobs : r # j => Kept(r),
         NEW c \in Conversion, job' = [job EXCEPT ![j] = c],
         c.at \notin {"init"}, c.status # "success",
         c.at \in Underway => EntrySound(c, j, store')
  PROVE  ProgressInv'
  <1>1. /\ job' \in [Jobs -> Conversion] /\ job'[j] = c
        /\ \A r \in Jobs : r # j => job'[r] = job[r]
    BY SetFacts DEF ProgressInv
  <1>2. JobTypes'
    BY <1>1 DEF ProgressInv, JobTypes
  <1>3. job'[j].at \in Underway => EntrySound(job[j], j, store)'
    BY <1>1 DEF EntrySound
  <1>4. JobSound(j)'
    BY <1>1, <1>3 DEF JobSound
  <1> QED
    BY <1>1, <1>2, <1>4, StepOfJob

\* The pool is open, or one-shot workers are about to be started.
LEMMA LoadedStep ==
  ASSUME ProgressInv, NEW j \in Jobs, Loaded(j)
  PROVE  Progress
  <1> DEFINE u == [NoUpdate EXCEPT !.load = FullLoad, !.phase = "rendering"]
             at == IF job[j].pool THEN "replan" ELSE "rendering"
             c == [job[j] EXCEPT !.at = at, !.heard = now]
  <1>1. /\ JobTypes /\ now \in Nat /\ UNCHANGED <<now, stderr, stamp>> /\ Update(j, u)
        /\ job[j].at = "loading" /\ job[j].at \in Underway /\ job[j].status # "success"
        /\ job' = Heard(Moved(j, at), j)
    BY UnderwayBefore DEF ProgressInv, StoreTypes, Loaded, Underway
  <1>2. /\ u \in UpdateRecord /\ u.total = -1 /\ u.phase = "rendering" /\ u.chunks = 0
        /\ u.merge = -1
    <2>1. NoUpdate \in UpdateRecord /\ "rendering" \in Phases \cup {"nil"} /\ FullLoad \in Int
      BY UpdateRecords DEF Phases, FullLoad
    <2> HIDE DEF FullLoad
    <2>2. u \in UpdateRecord
      BY <2>1 DEF UpdateRecord
    <2>3. u.total = -1 /\ u.phase = "rendering" /\ u.chunks = 0 /\ u.merge = -1
      BY UpdateRecords DEF UpdateRecord
    <2> QED
      BY <2>2, <2>3
  <1> HIDE DEF u
  <1>4. at \in {"replan", "rendering"}
    OBVIOUS
  <1> HIDE DEF at
  <1>5. /\ c \in Conversion /\ c.at = at /\ c.total = job[j].total /\ c.planned = job[j].planned
        /\ c.heard = now
        /\ c.status = job[j].status /\ job' = [job EXCEPT ![j] = c]
    <2>1. job \in [Jobs -> Conversion] /\ job[j] \in Conversion
      BY <1>1, ConversionFields DEF JobTypes
    <2>2. /\ c \in Conversion /\ c.at = at /\ c.total = job[j].total /\ c.planned = job[j].planned
        /\ c.heard = now
          /\ c.status = job[j].status
      BY <1>1, <1>4, <2>1 DEF Conversion, Places
    <2>3. job' = [job EXCEPT ![j] = c]
      BY <1>1, <2>1 DEF Heard, Moved, Conversion
    <2> QED
      BY <2>2, <2>3
  <1> HIDE DEF c
  <1>6. /\ StoreTypes' /\ PercentKept /\ \A r \in Jobs : r # j => Kept(r)
        /\ EntrySound(c, j, store')
    <2>1. job[j].planned <= now /\ u.phase # "complete" /\ ~(u.total >= 0) /\ job[j].at # "rendering"
      BY <1>1, <1>2, UnderwayBefore
    <2> QED
      BY <1>1, <1>2, <1>5, <2>1, UnderwayUpdate
  <1>7. ProgressInv'
    BY <1>1, <1>4, <1>5, <1>6, UnderwayStep
  <1> QED
    BY <1>6, <1>7 DEF Progress

\* The pool counts the pages: a new plan before any chunk is rendered, or none.
LEMMA ReplanStep ==
  ASSUME ProgressInv, NEW j \in Jobs, Replan(j)
  PROVE  Progress
  <1>1. /\ StoreTypes /\ JobTypes /\ now \in Nat /\ UNCHANGED <<now, stderr, stamp>>
        /\ job[j].at = "replan" /\ job[j].at \in Underway /\ job[j].status # "success"
        /\ job \in [Jobs -> Conversion] /\ job[j] \in Conversion
    BY UnderwayBefore, ConversionFields DEF ProgressInv, StoreTypes, JobTypes, Replan, Underway
  <1>2. CASE job' = Moved(j, "rendering") /\ store' = store
    <2> DEFINE c == [job[j] EXCEPT !.at = "rendering"]
    <2>1. /\ c \in Conversion /\ c.at = "rendering" /\ c.total = job[j].total
          /\ c.heard = job[j].heard /\ c.planned = job[j].planned /\ c.status = job[j].status
      BY <1>1 DEF Conversion, Places
    <2>2. job' = [job EXCEPT ![j] = c]
      BY <1>1, <1>2 DEF Moved
    <2>3. StoreTypes' /\ (\A r \in Jobs : Kept(r)) /\ PercentKept
      BY <1>1, <1>2, UnwrittenKept, UnwrittenPercent
    <2> HIDE DEF c
    <2>4. EntrySound(c, j, store')
      BY <1>1, <1>2, <2>1, UnderwayBefore DEF EntrySound
    <2>5. ProgressInv'
      BY <1>1, <1>2, <2>1, <2>2, <2>3, <2>4, UnderwayStep
    <2> QED
      BY <2>3, <2>5 DEF Progress
  <1>3. ASSUME NEW n \in 1..MaxChunks,
               Update(j, [NoUpdate EXCEPT !.total = n]),
               job' = Heard(Follows(Moved(j, "rendering"), j, n), j)
        PROVE  Progress
    <2> DEFINE u == [NoUpdate EXCEPT !.total = n]
               c == [job[j] EXCEPT !.at = "rendering", !.total = n, !.left = n, !.planned = now, !.heard = now]
    <2>1. n \in Nat /\ n \in Int
      BY ObservabilityAssumption
    <2>2. /\ u \in UpdateRecord /\ u.total = n /\ u.total >= 0 /\ u.phase = "nil"
          /\ u.chunks = 0 /\ u.merge = -1
      BY <2>1, UpdateRecords DEF UpdateRecord
    <2>3. Update(j, u)
      BY <1>3
    <2> HIDE DEF u
    <2>4. /\ c \in Conversion /\ c.at = "rendering" /\ c.total = n /\ c.planned = now /\ c.heard = now
          /\ c.status = job[j].status
      BY <1>1, <2>1 DEF Conversion, Places
    <2>5. job' = [job EXCEPT ![j] = c]
      BY <1>1, <1>3 DEF Heard, Follows, Moved, Conversion
    <2> HIDE DEF c
    <2>6. now <= now /\ u.phase # "complete" /\ job[j].at # "rendering"
      BY <1>1, <2>2
    <2>7. /\ StoreTypes' /\ PercentKept /\ \A r \in Jobs : r # j => Kept(r)
          /\ EntrySound(c, j, store')
      BY <1>1, <2>2, <2>3, <2>4, <2>6, UnderwayUpdate
    <2>8. ProgressInv'
      BY <1>1, <2>4, <2>5, <2>7, UnderwayStep
    <2> QED
      BY <2>7, <2>8 DEF Progress
  <1> QED
    BY <1>2, <1>3 DEF Replan

\* A chunk is counted, or one that is cached is not.
LEMMA ChunkDoneStep ==
  ASSUME ProgressInv, NEW j \in Jobs, ChunkDone(j)
  PROVE  Progress
  <1>1. /\ StoreTypes /\ JobTypes /\ now \in Nat /\ UNCHANGED <<now, stderr, stamp>>
        /\ job[j].at = "rendering" /\ job[j].at \in Underway /\ job[j].status # "success"
        /\ job \in [Jobs -> Conversion] /\ job[j] \in Conversion
        /\ job[j].left \in Nat /\ job[j].left > 0
    BY UnderwayBefore, ConversionFields DEF ProgressInv, StoreTypes, JobTypes, ChunkDone, Underway
  <1>2. ASSUME NEW c \in Conversion, job' = [job EXCEPT ![j] = c],
               Update(j, [NoUpdate EXCEPT !.chunks = 1]),
               c.at = "rendering", c.total = job[j].total,
               c.planned = job[j].planned, c.heard = now, c.status = job[j].status
        PROVE  Progress
    <2> DEFINE u == [NoUpdate EXCEPT !.chunks = 1]
    <2>1. u \in UpdateRecord /\ u.total = -1 /\ u.phase = "nil" /\ u.merge = -1
      BY UpdateRecords DEF UpdateRecord
    <2>2. Update(j, u)
      BY <1>2
    <2> HIDE DEF u
    <2>3. job[j].planned <= now /\ u.phase # "complete" /\ ~(u.total >= 0)
      BY <1>1, <2>1, UnderwayBefore
    <2>4. /\ StoreTypes' /\ PercentKept /\ \A r \in Jobs : r # j => Kept(r)
          /\ EntrySound(c, j, store')
      BY <1>1, <1>2, <2>1, <2>2, <2>3, UnderwayUpdate
    <2>5. ProgressInv'
      BY <1>1, <1>2, <2>4, UnderwayStep
    <2> QED
      BY <2>4, <2>5 DEF Progress
  <1>3. CASE /\ Update(j, [NoUpdate EXCEPT !.chunks = 1])
             /\ job' = Heard([job EXCEPT ![j].left = @ - 1], j)
    <2> DEFINE c == [job[j] EXCEPT !.left = @ - 1, !.heard = now]
    <2>1. /\ c \in Conversion /\ c.at = "rendering" /\ c.total = job[j].total
          /\ c.planned = job[j].planned /\ c.heard = now /\ c.status = job[j].status
      <3>1. job[j] \in Conversion /\ now \in Nat /\ job[j].left - 1 \in Nat
        BY <1>1
      <3>2. c \in Conversion
        BY <3>1 DEF Conversion
      <3>3. /\ c.at = job[j].at /\ c.total = job[j].total
            /\ c.planned = job[j].planned /\ c.heard = now /\ c.status = job[j].status
        BY <3>1 DEF Conversion
      <3> QED
        BY <1>1, <3>2, <3>3
    <2>2. job' = [job EXCEPT ![j] = c]
      BY <1>1, <1>3 DEF Heard, Conversion
    <2> HIDE DEF c
    <2> QED
      BY <1>2, <1>3, <2>1, <2>2
  <1>4. CASE /\ Update(j, [NoUpdate EXCEPT !.chunks = 1])
             /\ job' = Heard([job EXCEPT ![j].extra = 1], j)
    <2> DEFINE c == [job[j] EXCEPT !.extra = 1, !.heard = now]
    <2>1. /\ c \in Conversion /\ c.at = "rendering" /\ c.total = job[j].total
          /\ c.planned = job[j].planned /\ c.heard = now /\ c.status = job[j].status
      <3>1. job[j] \in Conversion /\ now \in Nat /\ 1 \in Nat
        BY <1>1
      <3>2. c \in Conversion
        BY <3>1 DEF Conversion
      <3>3. /\ c.at = job[j].at /\ c.total = job[j].total
            /\ c.planned = job[j].planned /\ c.heard = now /\ c.status = job[j].status
        BY <3>1 DEF Conversion
      <3> QED
        BY <1>1, <3>2, <3>3
    <2>2. job' = [job EXCEPT ![j] = c]
      BY <1>1, <1>4 DEF Heard, Conversion
    <2> HIDE DEF c
    <2> QED
      BY <1>2, <1>4, <2>1, <2>2
  <1>5. CASE store' = store /\ job' = [job EXCEPT ![j].left = @ - 1]
    <2> DEFINE c == [job[j] EXCEPT !.left = @ - 1]
    <2>1. /\ c \in Conversion /\ c.at = "rendering" /\ c.total = job[j].total
          /\ c.planned = job[j].planned /\ c.heard = job[j].heard /\ c.status = job[j].status
      BY <1>1 DEF Conversion
    <2>2. job' = [job EXCEPT ![j] = c]
      BY <1>1, <1>5
    <2>3. StoreTypes' /\ (\A r \in Jobs : Kept(r)) /\ PercentKept
      BY <1>1, <1>5, UnwrittenKept, UnwrittenPercent
    <2> HIDE DEF c
    <2>4. EntrySound(c, j, store')
      BY <1>1, <1>5, <2>1, UnderwayBefore DEF EntrySound
    <2>5. ProgressInv'
      BY <1>1, <1>5, <2>1, <2>2, <2>3, <2>4, UnderwayStep
    <2> QED
      BY <2>3, <2>5 DEF Progress
  <1> QED
    BY <1>3, <1>4, <1>5 DEF ChunkDone

\* The merge starts.
LEMMA StartMergeStep ==
  ASSUME ProgressInv, NEW j \in Jobs, StartMerge(j)
  PROVE  Progress
  <1> DEFINE u == [NoUpdate EXCEPT !.phase = "merging"]
             c == [job[j] EXCEPT !.at = "merging"]
  <1>1. /\ JobTypes /\ UNCHANGED <<now, stderr, stamp>> /\ Update(j, u)
        /\ job[j].at = "rendering" /\ job[j].at \in Underway /\ job[j].status # "success"
        /\ job \in [Jobs -> Conversion] /\ job[j] \in Conversion /\ job' = Moved(j, "merging")
    BY UnderwayBefore, ConversionFields DEF ProgressInv, JobTypes, StartMerge, Underway
  <1>2. u \in UpdateRecord /\ u.total = -1 /\ u.merge = -1 /\ u.phase # "complete"
        /\ ~(u.total >= 0)
    <2>1. NoUpdate \in UpdateRecord /\ "merging" \in Phases \cup {"nil"}
      BY UpdateRecords DEF Phases
    <2> QED
      BY <2>1, UpdateRecords DEF UpdateRecord
  <1> HIDE DEF u
  <1>3. StoreTypes' /\ PercentKept /\ \A r \in Jobs : r # j => Kept(r)
    BY <1>1, <1>2, UnderwayUpdate
  <1>4. /\ c \in Conversion /\ c.at = "merging" /\ c.status = job[j].status
        /\ job' = [job EXCEPT ![j] = c]
    BY <1>1 DEF Moved, Conversion, Places
  <1> HIDE DEF c
  <1>5. c.at \notin Underway
    BY <1>4 DEF Underway
  <1>6. ProgressInv'
    BY <1>1, <1>3, <1>4, <1>5, UnderwayStep
  <1> QED
    BY <1>3, <1>6 DEF Progress

\* The merge is done: complete, also if the entry was evicted meanwhile.
LEMMA MergeDoneStep ==
  ASSUME ProgressInv, NEW j \in Jobs, MergeDone(j)
  PROVE  Progress
  <1> DEFINE u == [NoUpdate EXCEPT !.merge = 1, !.phase = "complete"]
  <1>1. /\ StoreTypes /\ JobTypes /\ UNCHANGED <<now, stderr, stamp>> /\ Update(j, u)
        /\ job' = Finish(job, j, "success")
    BY DEF ProgressInv, MergeDone
  <1>2. u \in UpdateRecord /\ u.phase = "complete" /\ Forward(j, u)
    <2>1. NoUpdate \in UpdateRecord /\ "complete" \in Phases \cup {"nil"} /\ 1 \in {-1, 0, 1}
      BY UpdateRecords DEF Phases
    <2>2. u \in UpdateRecord /\ u.phase = "complete"
      BY <2>1 DEF UpdateRecord
    <2> QED
      BY <2>2 DEF Forward
  <1> HIDE DEF u
  <1>3. /\ StoreTypes' /\ j \in DOMAIN store' /\ store'[j].phase = "complete"
        /\ store'[j].touched = now /\ \A r \in Jobs : r # j => Kept(r)
    BY <1>1, <1>2, UpdateFacts
  <1>4. /\ job' \in [Jobs -> Conversion] /\ job'[j].at = "over"
        /\ \A r \in Jobs : r # j => job'[r] = job[r]
    BY <1>1, FinishFacts
  <1>5. JobTypes'
    BY <1>1, <1>4 DEF JobTypes
  <1>6. JobSound(j)'
    BY <1>1, <1>3, <1>4 DEF JobSound, Underway, Ended
  <1> QED
    BY <1>1, <1>2, <1>3, <1>4, <1>5, <1>6, StepOfJob, UpdateForward DEF Progress

\* An error on the way leaves the entry alone.
LEMMA JobFailsStep ==
  ASSUME ProgressInv, NEW j \in Jobs, JobFails(j)
  PROVE  Progress
  <1>1. /\ StoreTypes /\ JobTypes /\ UNCHANGED <<now, store, stderr, stamp>>
        /\ job' = Finish(job, j, "failed")
    BY DEF ProgressInv, JobFails
  <1>2. /\ job' \in [Jobs -> Conversion] /\ job'[j].at = "over" /\ job'[j].status = "failed"
        /\ \A r \in Jobs : r # j => job'[r] = job[r]
    BY <1>1, FinishFacts
  <1>3. StoreTypes' /\ (\A r \in Jobs : Kept(r)) /\ PercentKept
    BY <1>1, UnwrittenKept, UnwrittenPercent
  <1>4. JobTypes' /\ JobSound(j)'
    BY <1>1, <1>2 DEF JobTypes, JobSound, Underway
  <1> QED
    BY <1>1, <1>2, <1>3, <1>4, StepOfJob DEF Progress

\* The conversion is stamped and recorded: its progress is over.
LEMMA RecordSteps ==
  ASSUME ProgressInv, NEW j \in Jobs, StampRecord(j) \/ RecordConversion(j)
  PROVE  Progress
  <1>1. /\ StoreTypes /\ JobTypes /\ UNCHANGED <<now, store, stderr>>
        /\ job[j].at \in Ended /\ stamp' \in Nat /\ JobSound(j)
        /\ job \in [Jobs -> Conversion] /\ job[j] \in Conversion /\ stamp \in Nat
    BY ConversionFields DEF ProgressInv, JobTypes, StampRecord, RecordConversion, Ended
  <1>2. \E c \in Conversion : /\ job' = [job EXCEPT ![j] = c] /\ c.at \in {"stamped", "recorded"}
                              /\ c.status = job[j].status
    <2>1. CASE StampRecord(j)
      <3> DEFINE c == [job[j] EXCEPT !.at = "stamped", !.ts = stamp + 1]
      <3>1. c \in Conversion /\ c.at = "stamped" /\ c.status = job[j].status
        <4>1. job[j] \in Conversion /\ stamp + 1 \in Nat /\ "stamped" \in Places
          BY <1>1 DEF Places
        <4>2. c \in Conversion
          BY <4>1 DEF Conversion
        <4>3. c.at = "stamped" /\ c.status = job[j].status
          BY <4>1 DEF Conversion
        <4> QED
          BY <4>2, <4>3
      <3>2. job' = [job EXCEPT ![j] = c]
        BY <1>1, <2>1 DEF StampRecord, Moved, Conversion
      <3> HIDE DEF c
      <3> QED
        BY <3>1, <3>2
    <2>2. CASE RecordConversion(j)
      <3> DEFINE c == [job[j] EXCEPT !.at = "recorded"]
      <3>1. c \in Conversion /\ c.at = "recorded" /\ c.status = job[j].status
        BY <1>1 DEF Conversion, Places
      <3>2. job' = [job EXCEPT ![j] = c]
        BY <1>1, <2>2 DEF RecordConversion, Moved, Conversion
      <3> HIDE DEF c
      <3> QED
        BY <3>1, <3>2
    <2> QED
      BY <2>1, <2>2
  <1>3. /\ job' \in [Jobs -> Conversion] /\ job'[j].at \in {"stamped", "recorded"}
        /\ job'[j].status = job[j].status
        /\ \A r \in Jobs : r # j => job'[r] = job[r]
    BY <1>1, <1>2
  <1>4. StoreTypes' /\ (\A r \in Jobs : Kept(r)) /\ PercentKept
    BY <1>1, UnwrittenKept, UnwrittenPercent
  <1>5. JobTypes' /\ JobSound(j)'
    BY <1>1, <1>3 DEF JobTypes, JobSound, Underway, Ended
  <1> QED
    BY <1>1, <1>3, <1>4, <1>5, StepOfJob DEF Progress

\* The pool writes a line.
LEMMA WorkerLineStep ==
  ASSUME ProgressInv, NEW j \in Jobs, WorkerLine(j)
  PROVE  Progress
  <1> DEFINE c == [job[j] EXCEPT !.lines = @ + 1]
  <1>1. /\ StoreTypes /\ JobTypes /\ UNCHANGED <<now, store, stamp>> /\ JobSound(j)
        /\ job[j].at \in Underway /\ job[j].status # "success"
        /\ job \in [Jobs -> Conversion] /\ job[j] \in Conversion /\ job[j].lines \in Nat
        /\ job' = [job EXCEPT ![j].lines = @ + 1]
    BY UnderwayBefore, ConversionFields DEF ProgressInv, JobTypes, WorkerLine, Underway
  <1>2. /\ c \in Conversion /\ c.at = job[j].at /\ c.total = job[j].total
        /\ c.planned = job[j].planned /\ c.heard = job[j].heard /\ c.status = job[j].status /\ job' = [job EXCEPT ![j] = c]
    BY <1>1 DEF Conversion
  <1> HIDE DEF c
  <1>3. /\ job' \in [Jobs -> Conversion] /\ job'[j] = c
        /\ \A r \in Jobs : r # j => job'[r] = job[r]
    BY <1>1, <1>2, SetFacts
  <1>4. \E l \in StderrLine : stderr' = [stderr EXCEPT ![j] = Append(@, l)]
    <2>1. Line("heartbeat", job[j].lines + 1) \in StderrLine
      BY <1>1 DEF Line, StderrLine
    <2>2. \A v \in {1, FullLoad + 1} : Line("load_progress", v) \in StderrLine
      BY DEF Line, StderrLine, FullLoad
    <2> QED
      BY <2>1, <2>2 DEF WorkerLine
  <1>5. stderr' \in [Jobs -> Seq(StderrLine)] /\ \A r \in Jobs : r # j => stderr'[r] = stderr[r]
    BY <1>1, <1>4 DEF JobTypes
  <1>6. StoreTypes' /\ (\A r \in Jobs : Kept(r)) /\ PercentKept
    BY <1>1, UnwrittenKept, UnwrittenPercent
  <1>7. JobTypes'
    BY <1>1, <1>3, <1>5 DEF JobTypes
  <1>8. JobSound(j)'
    <2>1. job[j].at # "init"
      BY <1>1 DEF Underway
    <2>2. EntrySound(job[j], j, store)'
      BY <1>1, <1>2, <1>3, UnderwayBefore DEF EntrySound
    <2> QED
      BY <1>1, <1>2, <1>3, <2>1, <2>2 DEF JobSound
  <1> QED
    BY <1>1, <1>3, <1>5, <1>6, <1>7, <1>8, StepOfJob DEF Progress

\* The tailer reads a line, at any time after it was written: late load
\* progress finds the entry of a success where it was.
LEMMA HandleStderrLineStep ==
  ASSUME ProgressInv, NEW j \in Jobs, HandleStderrLine(j)
  PROVE  Progress
  <1> DEFINE l == Head(stderr[j])
  <1>1. /\ StoreTypes /\ JobTypes /\ UNCHANGED <<now, job, stamp>> /\ JobSound(j)
        /\ stderr \in [Jobs -> Seq(StderrLine)] /\ stderr[j] \in Seq(StderrLine)
        /\ stderr[j] # <<>> /\ stderr' = [stderr EXCEPT ![j] = Tail(@)] /\ now \in Nat
        /\ job[j].heard \in Nat
    BY ConversionFields DEF ProgressInv, JobTypes, HandleStderrLine, StoreTypes
  <1>2. l \in StderrLine /\ l.v \in Nat
    <2>1. l \in StderrLine
      BY <1>1
    <2> QED
      BY <2>1 DEF StderrLine
  <1>3. /\ stderr' \in [Jobs -> Seq(StderrLine)]
        /\ \A r \in Jobs : r # j => stderr'[r] = stderr[r]
    BY <1>1
  <1>4. JobTypes'
    BY <1>1, <1>3 DEF JobTypes
  <1>5. CASE store' = store
    <2>1. StoreTypes' /\ (\A r \in Jobs : Kept(r)) /\ PercentKept
      BY <1>1, <1>5, UnwrittenKept, UnwrittenPercent
    <2>2. JobSound(j)'
      BY <1>1, <1>5 DEF JobSound, EntrySound
    <2> QED
      BY <1>1, <1>3, <1>4, <2>1, <2>2, StepOfJob DEF Progress
  <1>6. CASE Update(j, [NoUpdate EXCEPT !.load = l.v])
    <2> DEFINE u == [NoUpdate EXCEPT !.load = l.v]
    <2>1. /\ u \in UpdateRecord /\ u.total = -1 /\ u.phase = "nil" /\ u.chunks = 0
          /\ u.merge = -1
      <3>1. l.v \in Int
        BY <1>2
      <3> HIDE DEF l
      <3> QED
        BY <3>1, UpdateRecords DEF UpdateRecord
    <2>2. Update(j, u)
      BY <1>6
    <2> HIDE DEF u
    <2>3. Forward(j, u)
      BY <2>1 DEF Forward
    <2>4. PercentKept
      BY <1>1, <2>1, <2>2, <2>3, UpdateForward
    <2>5. /\ StoreTypes' /\ j \in DOMAIN store' /\ \A r \in Jobs : r # j => Kept(r)
          /\ store'[j].total = Before(j).total /\ store'[j].phase = Before(j).phase
          /\ store'[j].rendered = Before(j).rendered + 0
          /\ store'[j].started = Before(j).started /\ store'[j].touched = now /\ Before(j) \in Entry
      BY <1>1, <2>1, <2>2, UpdateFacts
    <2>6. store'[j].rendered = Before(j).rendered
      BY <2>5 DEF Entry
    <2>7. JobSound(j)'
      <3>1. CASE job[j].at \in Underway
        <4>1. /\ job[j].planned <= now /\ job[j].status # "success" /\ EntrySound(job[j], j, store)
              /\ Before(j).phase # "complete"
              /\ job[j].at # "rendering" => Before(j).rendered = 0
              /\ Before(j).started <= job[j].planned => Before(j).total = job[j].total
          BY <3>1, UnderwayBefore
        <4>2. job[j].planned <= job[j].heard /\ job[j].heard <= now
          BY <4>1 DEF EntrySound
        <4>3. EntrySound(job[j], j, store)'
          BY <1>1, <2>5, <2>6, <4>1, <4>2 DEF EntrySound
        <4>4. job[j].at # "init"
          BY <3>1 DEF Underway
        <4> QED
          BY <1>1, <4>1, <4>3, <4>4 DEF JobSound
      <3>2. CASE job[j].at \notin Underway
        <4>1. job[j].at # "init"
          BY <1>1 DEF JobSound
        <4>2. job[j].status = "success" => store'[j].phase = "complete"
          <5> SUFFICES ASSUME job[j].status = "success" PROVE store'[j].phase = "complete"
            OBVIOUS
          <5>1. j \in DOMAIN store /\ store[j].touched = now /\ store[j].phase = "complete"
            BY <1>1 DEF JobSound
          <5>2. j \in Live
            BY <1>1, <5>1, ObservabilityAssumption DEF Live, Expired
          <5> QED
            BY <2>5, <5>1, <5>2 DEF Before
        <4> QED
          BY <1>1, <2>5, <3>2, <4>1, <4>2 DEF JobSound
      <3> QED
        BY <3>1, <3>2
    <2> QED
      BY <1>1, <1>3, <1>4, <2>4, <2>5, <2>7, StepOfJob DEF Progress
  <1> QED
    BY <1>5, <1>6 DEF HandleStderrLine

\* Time passes, but not before the tailers have read what there is.
LEMMA TickStep ==
  ASSUME ProgressInv, Tick
  PROVE  Progress
  <1>1. /\ StoreTypes /\ JobTypes /\ UNCHANGED <<job, store, stderr, stamp>>
        /\ now' = now + 1 /\ now \in Nat
        /\ \A j \in Jobs : stderr[j] = <<>>
    BY DEF ProgressInv, StoreTypes, Tick
  <1>2. StoreTypes'
    BY <1>1 DEF StoreTypes, Entry
  <1>3. JobTypes'
    BY <1>1 DEF JobTypes
  <1>4. ASSUME NEW j \in Jobs PROVE JobSound(j)'
    <2>1. /\ JobSound(j) /\ job[j].heard \in Nat /\ job[j].planned \in Nat /\ TTL \in Nat
      BY <1>1, ConversionFields, ObservabilityAssumption DEF ProgressInv
    <2>2. job[j].at \in Underway => EntrySound(job[j], j, store)'
      <3> SUFFICES ASSUME job[j].at \in Underway PROVE EntrySound(job[j], j, store)'
        OBVIOUS
      <3>1. EntrySound(job[j], j, store)
        BY <2>1 DEF JobSound
      <3>2. job[j].heard <= now' /\ (now' - job[j].heard <= TTL => now - job[j].heard <= TTL)
        BY <1>1, <2>1, <3>1 DEF EntrySound
      <3> QED
        BY <1>1, <3>1, <3>2 DEF EntrySound
    <2> QED
      BY <1>1, <2>1, <2>2 DEF JobSound
  <1>5. PercentKept
    BY <1>1, UnwrittenPercent
  <1> QED
    BY <1>2, <1>3, <1>4, <1>5 DEF Progress, ProgressInv

\* A reader evicts.
LEMMA ReadStep ==
  ASSUME ProgressInv, Read
  PROVE  Progress
  <1>1. /\ StoreTypes /\ JobTypes /\ UNCHANGED <<now, job, stderr, stamp>>
        /\ store' = [r \in Live |-> store[r]] /\ Live \subseteq DOMAIN store
    BY DEF ProgressInv, Read, Live
  <1>2. DOMAIN store' = Live /\ \A r \in Live : store'[r] = store[r]
    BY <1>1
  <1>3. StoreTypes' /\ JobTypes'
    BY <1>1, <1>2 DEF StoreTypes, JobTypes
  <1>4. \A r \in Jobs : Kept(r)
    BY <1>1, <1>2 DEF Kept
  <1>5. \A r \in Jobs : JobSound(r)'
    BY <1>1, <1>4, JobKept DEF ProgressInv
  <1>6. PercentKept
    BY <1>1, <1>2, PercentReflexive DEF PercentKept, StoreTypes
  <1> QED
    BY <1>3, <1>5, <1>6 DEF Progress, ProgressInv

\* The history's pager, and nothing at all.
LEMMA StillStep ==
  ASSUME ProgressInv, UNCHANGED <<now, job, store, stderr, stamp>>
  PROVE  Progress
  <1>1. StoreTypes /\ JobTypes
    BY DEF ProgressInv
  <1>2. StoreTypes' /\ (\A r \in Jobs : Kept(r)) /\ PercentKept
    BY <1>1, UnwrittenKept, UnwrittenPercent
  <1>3. JobTypes' /\ \A r \in Jobs : JobSound(r)'
    BY <1>1, <1>2, JobKept DEF ProgressInv, JobTypes
  <1> QED
    BY <1>2, <1>3 DEF Progress, ProgressInv

\* Every step.
LEMMA NextProgress ==
  ASSUME ProgressInv, [Next]_vars
  PROVE  Progress
  <1>1. ASSUME NEW j \in Jobs, JobStep(j) PROVE Progress
    BY <1>1, NoProgressStep, CacheHitStep, PlannedStep, LoadedStep, ReplanStep, ChunkDoneStep,
       StartMergeStep, MergeDoneStep, JobFailsStep, RecordSteps DEF JobStep
  <1>2. ASSUME NEW j \in Jobs, WorkerLine(j) \/ HandleStderrLine(j) PROVE Progress
    BY <1>2, WorkerLineStep, HandleStderrLineStep
  <1>3. CASE NextPage \/ UNCHANGED vars
    BY <1>3, StillStep DEF NextPage, vars
  <1> QED
    BY <1>1, <1>2, <1>3, ReadStep, TickStep DEF Next

\* Nothing is stored or written at the start.
LEMMA InitProgress == Init => ProgressInv
  <1> SUFFICES ASSUME Init PROVE ProgressInv
    OBVIOUS
  <1>1. DOMAIN store = {} /\ now = 0 /\ stamp = 0 /\ stderr = [j \in Jobs |-> <<>>]
    BY DEF Init
  <1>2. StoreTypes
    BY <1>1 DEF StoreTypes
  <1>3. PICK pooled \in SUBSET Office :
            job = [j \in Jobs |-> [at |-> "init", pool |-> j \in pooled, total |-> 0, left |-> 0,
                                   extra |-> 0, planned |-> 0, heard |-> 0, lines |-> 0, status |-> "none", ts |-> 0]]
    BY DEF Init
  <1>4. job \in [Jobs -> Conversion] /\ \A j \in Jobs : job[j].at = "init" /\ job[j].status = "none"
    <2>1. \A j \in Jobs : (j \in pooled) \in BOOLEAN
      OBVIOUS
    <2> QED
      BY <1>3, <2>1 DEF Conversion, Places, Statuses
  <1>5. JobTypes
    BY <1>1, <1>4 DEF JobTypes
  <1>6. ASSUME NEW j \in Jobs PROVE JobSound(j)
    BY <1>1, <1>4 DEF JobSound, Underway
  <1> QED
    BY <1>2, <1>5, <1>6 DEF ProgressInv

\* The table is sound in every state.
LEMMA ProgressInvariant == Spec => []ProgressInv
  <1>1. ProgressInv /\ [Next]_vars => ProgressInv'
    BY NextProgress DEF Progress
  <1> QED
    BY <1>1, InitProgress, PTL DEF Spec

-----------------------------------------------------------------------------
\* No interleaving of the conversions and the tailers of their pools takes the
\* progress bar of a job back, for any number of jobs and chunks and any TTL.
THEOREM PercentNeverTakenBack == Spec => PercentNeverFalls
  <1>1. ProgressInv /\ [Next]_vars =>
            [\A j \in DOMAIN store \cap DOMAIN store' :
                store[j].started = store'[j].started =>
                    WeightedPercent(store[j]) <= WeightedPercent(store'[j])]_vars
    BY NextProgress DEF Progress, PercentKept
  <1> QED
    BY <1>1, ProgressInvariant, PTL DEF Spec, PercentNeverFalls

\* GET /v1/jobs/active lists every conversion that loads or renders for a TTL
\* after each of its updates, with its current plan unless the entry was evicted
\* since, and none that the history shows as a success: for every TTL, however
\* long a chunk takes.
THEOREM ActiveAlwaysTruthful == Spec => []ActiveIsTruthful
  <1>1. ProgressInv => ActiveIsTruthful
    <2> SUFFICES ASSUME ProgressInv, NEW j \in Jobs
                 PROVE  /\ job[j].at \in {"loading", "replan", "rendering"} /\ now - job[j].heard <= TTL =>
                              /\ j \in Active
                              /\ store[j].started <= job[j].planned => store[j].total = job[j].total
                        /\ job[j].at = "recorded" /\ job[j].status = "success" => j \notin Active
      BY DEF ActiveIsTruthful
    <2>1. ASSUME job[j].at \in Underway, now - job[j].heard <= TTL
          PROVE  /\ j \in Active
                 /\ store[j].started <= job[j].planned => store[j].total = job[j].total
      <3>1. EntrySound(job[j], j, store) /\ j \in Live
        BY <2>1, UnderwayBefore
      <3> QED
        BY <3>1 DEF EntrySound, Active, Live
    <2>2. job[j].status = "success" => j \notin Active
      BY DEF ProgressInv, JobSound, Active, Live
    <2> QED
      BY <2>1, <2>2 DEF Underway
  <1> QED
    BY <1>1, ProgressInvariant, PTL

-----------------------------------------------------------------------------
(* The heartbeat rings.                                                    *)

\* IsSuffix, element by element.
LEMMA SuffixFacts ==
  ASSUME NEW s \in Seq(Nat), NEW t \in Seq(Nat), EndsWith(s, t)
  PROVE  IsSuffix(s, t)
  <1> DEFINE m == Len(s)
             n == Len(t)
             a == Reverse(s)
             b == Reverse(t)
  <1>0. m \in Nat /\ n \in Nat
    OBVIOUS
  <1>1. m \in Nat /\ n \in Nat /\ m <= n /\ \A i \in 1..m : s[i] = t[n - m + i]
    <2> HIDE DEF a, b
    <2>1. m <= n /\ \A i \in 1..m : s[i] = t[n - m + i]
      BY Zenon DEF EndsWith
    <2> QED BY <1>0, <2>1
  <1>2. /\ a \in Seq(Nat) /\ Len(a) = m /\ \A i \in 1..m : a[i] = s[(m - i) + 1]
    BY <1>1, SMTT(30) DEF Reverse
  <1>3. /\ b \in Seq(Nat) /\ Len(b) = n /\ \A i \in 1..n : b[i] = t[(n - i) + 1]
    BY <1>1 DEF Reverse
  <1> HIDE DEF m, n, a, b
  <1>4. ASSUME NEW i \in 1..m PROVE a[i] = b[i]
    <2>1. (m - i) + 1 \in 1..m /\ i \in 1..n /\ n - m + ((m - i) + 1) = (n - i) + 1
      BY <1>1
    <2>2. s[(m - i) + 1] = t[n - m + ((m - i) + 1)]
      BY <1>1, <2>1
    <2> QED
      BY <1>2, <1>3, <2>1, <2>2
  <1>5. SubSeq(a, 1, m) = SubSeq(b, 1, m)
    <2>1. /\ SubSeq(a, 1, m) = [i \in 1..m |-> a[i]]
          /\ SubSeq(b, 1, m) = [i \in 1..m |-> b[i]]
      BY <1>1, <1>2, <1>3
    <2> QED
      BY <1>4, <2>1
  <1>6. IsPrefix(a, b)
    BY <1>1, <1>2, <1>3, <1>5 DEF IsPrefix
  <1> QED
    BY <1>6 DEF IsSuffix, a, b

\* KeepNewest keeps at most RingMax events, the last ones.
LEMMA KeepNewestFacts ==
  ASSUME NEW b \in Seq(Nat), b # <<>>
  PROVE  /\ KeepNewest(b) \in Seq(Nat) /\ Len(KeepNewest(b)) \in 1..RingMax
         /\ EndsWith(KeepNewest(b), b)
  <1>1. RingMax \in Nat /\ RingMax >= 1 /\ Len(b) \in Nat /\ Len(b) >= 1
    BY ObservabilityAssumption
  <1>2. CASE Len(b) > RingMax
    <2> DEFINE k == Len(b) - RingMax + 1
               r == SubSeq(b, k, Len(b))
    <2>1. k \in 1..Len(b) /\ k \in Nat
      BY <1>1, <1>2
    <2>2. /\ r \in Seq(Nat) /\ Len(r) = Len(b) - k + 1
          /\ \A i \in 1..(Len(b) - k + 1) : r[i] = b[k + i - 1]
      <3> HIDE DEF k
      <3> QED
        BY <1>1, <2>1
    <2>3. KeepNewest(b) = r
      BY <1>2 DEF KeepNewest
    <2>4. Len(r) = RingMax /\ \A i \in 1..Len(r) : r[i] = b[Len(b) - Len(r) + i]
      <3>1. Len(b) - k + 1 = RingMax
        BY <1>1
      <3>2. \A i \in 1..RingMax : k + i - 1 = Len(b) - RingMax + i
        BY <1>1
      <3> HIDE DEF k, r
      <3> QED
        BY <1>1, <2>2, <3>1, <3>2
    <2> HIDE DEF r, k
    <2>5. Len(r) \in 1..RingMax
      BY <1>1, <2>4
    <2>6. EndsWith(r, b)
      <3>1. Len(r) <= Len(b)
        BY <1>1, <1>2, <2>4
      <3> QED
        BY <2>4, <3>1 DEF EndsWith
    <2> QED
      BY <2>2, <2>3, <2>5, <2>6
  <1>3. CASE ~(Len(b) > RingMax)
    <2>1. KeepNewest(b) = b
      BY <1>3 DEF KeepNewest
    <2>2. EndsWith(b, b)
      BY <1>1 DEF EndsWith
    <2> QED
      BY <1>1, <1>3, <2>1, <2>2
  <1> QED
    BY <1>2, <1>3

\* The ends of sequences: of one that ends a third, and of two that grow alike.
LEMMA EndsWithFacts ==
  ASSUME NEW a \in Seq(Nat), NEW b \in Seq(Nat), NEW c \in Seq(Nat), NEW n \in Nat
  PROVE  /\ EndsWith(a, b) /\ EndsWith(b, c) => EndsWith(a, c)
         /\ EndsWith(a, b) => EndsWith(Append(a, n), Append(b, n))
         /\ EndsWith(<<>>, b)
  <1>1. Len(a) \in Nat /\ Len(b) \in Nat /\ Len(c) \in Nat
    OBVIOUS
  <1>2. ASSUME EndsWith(a, b), EndsWith(b, c) PROVE EndsWith(a, c)
    <2>1. Len(a) <= Len(b) /\ Len(b) <= Len(c)
      BY <1>2 DEF EndsWith
    <2>2. ASSUME NEW i \in 1..Len(a) PROVE a[i] = c[Len(c) - Len(a) + i]
      <3> DEFINE k == Len(b) - Len(a) + i
      <3>1. k \in 1..Len(b) /\ Len(c) - Len(b) + k = Len(c) - Len(a) + i
        BY <1>1, <2>1
      <3>2. a[i] = b[k]
        BY <1>2 DEF EndsWith
      <3>3. b[k] = c[Len(c) - Len(b) + k]
        BY <1>2, <3>1 DEF EndsWith
      <3> QED
        BY <3>1, <3>2, <3>3
    <2> QED
      BY <1>1, <2>1, <2>2 DEF EndsWith
  <1>3. ASSUME EndsWith(a, b) PROVE EndsWith(Append(a, n), Append(b, n))
    <2> DEFINE x == Append(a, n)
               y == Append(b, n)
    <2>1. /\ Len(x) = Len(a) + 1 /\ x[Len(a) + 1] = n /\ \A i \in 1..Len(a) : x[i] = a[i]
          /\ Len(y) = Len(b) + 1 /\ y[Len(b) + 1] = n /\ \A i \in 1..Len(b) : y[i] = b[i]
      OBVIOUS
    <2> HIDE DEF x, y
    <2>2. Len(a) <= Len(b) /\ \A i \in 1..Len(a) : a[i] = b[Len(b) - Len(a) + i]
      BY <1>3 DEF EndsWith
    <2>3. ASSUME NEW i \in 1..Len(x) PROVE x[i] = y[Len(y) - Len(x) + i]
      <3>1. Len(y) - Len(x) + i = Len(b) - Len(a) + i
        BY <1>1, <2>1
      <3>2. CASE i \in 1..Len(a)
        <4>1. Len(b) - Len(a) + i \in 1..Len(b)
          BY <1>1, <2>2, <3>2, SMTT(30)
        <4> QED
          BY <2>1, <2>2, <3>1, <3>2, <4>1
      <3>3. CASE i = Len(a) + 1
        <4>1. Len(b) - Len(a) + i = Len(b) + 1
          BY <1>1, <3>3
        <4> QED
          BY <2>1, <3>1, <3>3, <4>1
      <3> QED
        BY <1>1, <2>1, <3>2, <3>3
    <2>4. EndsWith(x, y)
      BY <1>1, <2>1, <2>2, <2>3 DEF EndsWith
    <2> QED
      BY <2>4 DEF x, y
  <1>4. EndsWith(<<>>, b)
    BY <1>1 DEF EndsWith
  <1> QED
    BY <1>2, <1>3, <1>4

\* A heartbeat is read and recorded.
LEMMA RingRecordStep ==
  ASSUME RingInv, NEW j \in Jobs, NEW n \in Nat, RingRecord(j, n),
         beats' = [beats EXCEPT ![j] = Append(@, n)]
  PROVE  RingInv'
  <1> DEFINE buf == IF j \in DOMAIN ring THEN ring[j].buf ELSE <<>>
             new == [r \in DOMAIN ring \cup {j} |->
                       IF r = j THEN [buf |-> KeepNewest(Append(buf, n)), touched |-> now] ELSE ring[r]]
  <1>1. /\ beats \in [Jobs -> Seq(Nat)] /\ beats[j] \in Seq(Nat) /\ DOMAIN ring \subseteq Jobs
        /\ Append(beats[j], n) \in Seq(Nat)
    BY DEF RingInv
  <1>2. buf \in Seq(Nat) /\ EndsWith(buf, beats[j])
    <2>1. CASE j \in DOMAIN ring
      BY <2>1 DEF RingInv
    <2>2. CASE j \notin DOMAIN ring
      <3>1. buf = <<>>
        BY <2>2
      <3>2. <<>> \in Seq(Nat)
        OBVIOUS
      <3> QED
        BY <1>1, <3>1, <3>2, EndsWithFacts
    <2> QED
      BY <2>1, <2>2
  <1>3. ring' = RingLive(new)
    BY DEF RingRecord
  <1> HIDE DEF buf
  <1> DEFINE b == Append(buf, n)
             d == Append(beats[j], n)
             k == KeepNewest(b)
  <1>4. b \in Seq(Nat) /\ b # <<>> /\ EndsWith(b, d)
    <2>1. b \in Seq(Nat) /\ Len(b) = Len(buf) + 1 /\ Len(buf) \in Nat
      BY <1>2
    <2>2. b # <<>>
      <3> HIDE DEF b
      <3>1. Len(<<>>) = 0
        OBVIOUS
      <3> QED
        BY <2>1, <3>1
    <2>3. EndsWith(b, d)
      <3>1. ASSUME NEW x \in Seq(Nat), NEW y \in Seq(Nat), EndsWith(x, y)
            PROVE  EndsWith(Append(x, n), Append(y, n))
        BY <3>1, EndsWithFacts
      <3> QED
        BY <1>1, <1>2, <3>1
    <2> QED
      BY <2>1, <2>2, <2>3
  <1>5. k \in Seq(Nat) /\ Len(k) \in 1..RingMax /\ EndsWith(k, b)
    <2> HIDE DEF b
    <2> QED
      BY <1>4, KeepNewestFacts
  <1>6. EndsWith(k, d)
    <2>1. d \in Seq(Nat)
      BY <1>1
    <2> HIDE DEF b, d, k
    <2> QED
      BY <1>4, <1>5, <2>1, EndsWithFacts
  <1>7. /\ beats' \in [Jobs -> Seq(Nat)] /\ beats'[j] = d
        /\ \A r \in Jobs : r # j => beats'[r] = beats[r]
    BY <1>1
  <1>8. /\ DOMAIN new = DOMAIN ring \cup {j}
        /\ new[j].buf = k
        /\ \A r \in DOMAIN ring : r # j => new[r] = ring[r]
    OBVIOUS
  <1> HIDE DEF new, k, d
  <1>9. DOMAIN ring' \subseteq DOMAIN new /\ \A r \in DOMAIN ring' : ring'[r] = new[r]
    BY <1>3 DEF RingLive
  <1>10. ASSUME NEW r \in DOMAIN ring'
         PROVE  /\ r \in Jobs /\ ring'[r].buf \in Seq(Nat) /\ Len(ring'[r].buf) \in 1..RingMax
                /\ EndsWith(ring'[r].buf, beats'[r])
    <2>1. CASE r = j
      BY <1>5, <1>6, <1>7, <1>8, <1>9, <2>1
    <2>2. CASE r # j
      <3>1. r \in DOMAIN ring /\ ring'[r] = ring[r] /\ beats'[r] = beats[r] /\ r \in Jobs
        BY <1>1, <1>7, <1>8, <1>9, <2>2
      <3> QED
        BY <3>1 DEF RingInv
    <2> QED
      BY <2>1, <2>2
  <1> QED
    BY <1>7, <1>10 DEF RingInv, EndsWith

\* The rings hold the newest heartbeats in every state.
LEMMA RingInvariant == Spec => []RingInv
  <1>1. Init => RingInv
    <2> SUFFICES ASSUME Init PROVE RingInv
      OBVIOUS
    <2>1. DOMAIN ring = {} /\ beats = [j \in Jobs |-> <<>>]
      BY DEF Init
    <2> QED
      BY <2>1 DEF RingInv
  <1>2. RingInv /\ ProgressInv /\ [Next]_vars => RingInv'
    <2> SUFFICES ASSUME RingInv, ProgressInv, [Next]_vars PROVE RingInv'
      OBVIOUS
    <2>1. CASE UNCHANGED <<ring, beats>>
      BY <2>1 DEF RingInv, EndsWith
    <2>2. CASE Read
      <3>1. /\ DOMAIN ring' \subseteq DOMAIN ring /\ beats' = beats
            /\ \A r \in DOMAIN ring' : ring'[r] = ring[r]
        BY <2>2 DEF Read, RingLive
      <3>2. ASSUME NEW r \in DOMAIN ring'
            PROVE  /\ ring'[r].buf \in Seq(Nat) /\ Len(ring'[r].buf) \in 1..RingMax
                   /\ EndsWith(ring'[r].buf, beats'[r])
        <4>1. r \in DOMAIN ring /\ ring'[r] = ring[r] /\ beats'[r] = beats[r]
          BY <3>1
        <4> QED
          BY <4>1 DEF RingInv
      <3> QED
        BY <3>1, <3>2 DEF RingInv, EndsWith
    <2>3. ASSUME NEW j \in Jobs, HandleStderrLine(j) PROVE RingInv'
      <3> DEFINE l == Head(stderr[j])
      <3>1. l \in StderrLine
        BY <2>3 DEF HandleStderrLine, ProgressInv, JobTypes
      <3>2. l.v \in Nat
        BY <3>1 DEF StderrLine
      <3>3. \/ UNCHANGED <<ring, beats>>
            \/ RingRecord(j, l.v) /\ beats' = [beats EXCEPT ![j] = Append(@, l.v)]
        BY <2>3, SMTT(30) DEF HandleStderrLine
      <3> HIDE DEF l
      <3> QED
        BY <2>1, <3>2, <3>3, RingRecordStep
    <2>4. ASSUME NEW j \in Jobs, JobStep(j) \/ WorkerLine(j) PROVE UNCHANGED <<ring, beats>>
      BY <2>4 DEF JobStep, WorkerLine, NoProgress, CacheHit, Planned, Loaded, Replan, ChunkDone,
                  StartMerge, MergeDone, JobFails, StampRecord, RecordConversion
    <2> QED
      BY <2>1, <2>2, <2>3, <2>4 DEF Next, Tick, NextPage, vars
  <1> QED
    BY <1>1, <1>2, ProgressInvariant, PTL DEF Spec

\* A heartbeat ring holds the newest events of its request, in order and at
\* most RingMax of them, for any number of jobs, any TTL and any capacity.
THEOREM RingsAlwaysKeepNewest == Spec => []RingKeepsNewest
  <1>1. RingInv => RingKeepsNewest
    <2> SUFFICES ASSUME RingInv, NEW j \in DOMAIN ring
                 PROVE  Len(ring[j].buf) \in 1..RingMax /\ IsSuffix(ring[j].buf, beats[j])
      BY DEF RingKeepsNewest
    <2>1. /\ ring[j].buf \in Seq(Nat) /\ beats[j] \in Seq(Nat)
          /\ Len(ring[j].buf) \in 1..RingMax /\ EndsWith(ring[j].buf, beats[j])
      BY DEF RingInv
    <2> QED
      BY <2>1, SuffixFacts
  <1> QED
    BY <1>1, RingInvariant, PTL
-----------------------------------------------------------------------------
(* The history and the walk through it.                                    *)

Place        == [ts : Nat, id : Nat]
RecentRecord == [id : Nat, ts : Nat, source : {"ui", "cross"}, status : Statuses]

\* With b for job: where a conversion stands in the pager's order, from its
\* recording on.
Position(b, x) == [ts |-> IF x \in Jobs THEN b[x].ts ELSE 0, id |-> x]
Recorded(b, x) == x \in Nat /\ (x \in Jobs => b[x].at = "recorded" /\ b[x].ts \in Nat)

\* The records of s say where their conversions stand.
Faithful(b, s) ==
    \A i \in 1..Len(s) : Recorded(b, s[i].id) /\ s[i].ts = Position(b, s[i].id).ts

HistorySound ==
    /\ recent \in Seq(RecentRecord)
    /\ Faithful(job, recent)
    /\ ~inverted => Descending(recent)

WalkShape ==
    /\ walk.at \in {"idle", "paging", "done"}
    /\ walk.seen \in Seq(Nat)
    /\ walk.at = "idle" => walk = NoWalk
    /\ walk.at = "paging" => walk.cursor \in Place
    /\ walk.at = "done" => walk.cursor = NoCursor

\* Up to the cursor everything was shown, and what is yet to come lies after
\* it; without a cursor nothing is yet to come.
ShownUpTo(b, seen, kept, cursor) ==
    /\ IsInjective(seen)
    /\ \A i \in 1..Len(seen) :
          /\ Recorded(b, seen[i])
          /\ cursor # NoCursor => ~LessTuple(Position(b, seen[i]), cursor)
    /\ \A x \in kept :
          /\ Recorded(b, x)
          /\ \/ \E i \in 1..Len(seen) : seen[i] = x
             \/ cursor # NoCursor /\ LessTuple(Position(b, x), cursor)

WalkSound ==
    ~inverted /\ walk.at # "idle" => ShownUpTo(job, walk.seen, walk.kept, walk.cursor)

WalkInv == HistorySound /\ WalkShape /\ WalkSound

\* A set of numbers has a least one: the form of induction used below.
LEMMA LeastNumber ==
  ASSUME NEW T, T \subseteq Nat, T # {}
  PROVE  \E x \in T : \A y \in T : ~(y < x)
  <1> DEFINE R == {ss \in Nat \X Nat : ss[1] < ss[2]}
  <1>1. IsWellFoundedOn(R, Nat)
    BY NatLessThanWellFounded DEF OpToRel
  <1> HIDE DEF R
  <1>2. PICK x \in T : \A y \in T : ~(<<y, x>> \in R)
    BY <1>1, WFMin
  <1>3. ASSUME NEW y \in T, y < x PROVE <<y, x>> \in R
    <2>1. y \in Nat /\ x \in Nat
      OBVIOUS
    <2> QED
      BY <1>3, <2>1 DEF R
  <1> QED
    BY <1>2, <1>3

\* The pager's order is strict and total on the pairs (ts, id).
LEMMA TupleOrder ==
  ASSUME NEW a, NEW b, NEW c, a.ts \in Nat, a.id \in Nat, b.ts \in Nat, b.id \in Nat,
         c.ts \in Nat, c.id \in Nat
  PROVE  /\ ~LessTuple(a, a)
         /\ LessTuple(a, b) /\ LessTuple(b, c) => LessTuple(a, c)
         /\ LessTuple(a, b) => ~LessTuple(b, a)
         /\ ~LessTuple(a, c) /\ LessTuple(b, c) => ~LessTuple(a, b) /\ LessTuple(b, a)
  BY DEF LessTuple

\* A record is compared by its time and id only.
LEMMA RecordFields ==
  ASSUME NEW r \in RecentRecord
  PROVE  r.ts \in Nat /\ r.id \in Nat
  BY DEF RecentRecord

\* All earlier ones are newer.
Ordered(s) == \A i, j \in 1..Len(s) : i < j => LessTuple(s[j], s[i])

\* From one record to the next, from each to all that follow.
LEMMA DescendingOrdered ==
  ASSUME NEW s \in Seq(RecentRecord), Descending(s)
  PROVE  Ordered(s)
  <1>0. Len(s) \in Nat /\ \A i \in 1..Len(s) : s[i] \in RecentRecord
    OBVIOUS
  <1> SUFFICES ASSUME NEW i \in 1..Len(s), NEW j \in 1..Len(s), i < j
               PROVE  LessTuple(s[j], s[i])
    BY DEF Ordered
  <1> DEFINE Wrong == {x \in 1..Len(s) : i < x /\ ~LessTuple(s[x], s[i])}
  <1>1. SUFFICES ASSUME Wrong # {} PROVE FALSE
    OBVIOUS
  <1>2. PICK x \in Wrong : \A y \in Wrong : ~(y < x)
    <2>1. Wrong \subseteq Nat
      BY <1>0
    <2> HIDE DEF Wrong
    <2> QED
      BY <1>1, <2>1, LeastNumber
  <1>3. x \in 1..Len(s) /\ i < x /\ ~LessTuple(s[x], s[i])
    OBVIOUS
  <1> DEFINE w == x - 1
  <1>4. w \in 1..(Len(s) - 1) /\ w \in 1..Len(s) /\ w + 1 = x /\ w < x /\ (w = i \/ i < w)
    BY <1>0, <1>3
  <1>5. w \notin Wrong
    <2> HIDE DEF Wrong, w
    <2> QED
      BY <1>2, <1>4
  <1> HIDE DEF w
  <1>6. LessTuple(s[x], s[w])
    BY <1>4 DEF Descending, LessTuple
  <1>7. w = i \/ LessTuple(s[w], s[i])
    BY <1>4, <1>5
  <1>8. s[x] \in RecentRecord /\ s[w] \in RecentRecord /\ s[i] \in RecentRecord
    BY <1>0, <1>3, <1>4
  <1> QED
    BY <1>3, <1>6, <1>7, <1>8, RecordFields, TupleOrder

\* What the loop of a filter has picked from the first n records.
PickedSoFar(s, S, t, n) ==
    /\ t \in Seq(RecentRecord)
    /\ \A a \in 1..Len(t) : t[a] \in S /\ \E b \in 1..n : t[a] = s[b]
    /\ \A b \in 1..n : s[b] \in S => \E a \in 1..Len(t) : t[a] = s[b]
    /\ Ordered(s) => Ordered(t)

\* One round of the loop.
LEMMA PickOne ==
  ASSUME NEW s \in Seq(RecentRecord), NEW S, NEW t, NEW n \in 1..Len(s),
         PickedSoFar(s, S, t, n - 1)
  PROVE  PickedSoFar(s, S, IF s[n] \in S THEN Append(t, s[n]) ELSE t, n)
  <1>0. n \in Nat /\ n - 1 \in Nat /\ s[n] \in RecentRecord /\ Len(s) \in Nat
    OBVIOUS
  <1>1. /\ t \in Seq(RecentRecord) /\ Len(t) \in Nat
        /\ \A a \in 1..Len(t) : t[a] \in S /\ \E b \in 1..(n - 1) : t[a] = s[b]
        /\ \A b \in 1..(n - 1) : s[b] \in S => \E a \in 1..Len(t) : t[a] = s[b]
        /\ Ordered(s) => Ordered(t)
    BY DEF PickedSoFar
  <1>2. \A b \in 1..(n - 1) : b \in 1..n
    BY <1>0
  <1>3. \A b \in 1..n : b = n \/ b \in 1..(n - 1)
    BY <1>0
  <1>4. CASE s[n] \notin S
    BY <1>1, <1>2, <1>3, <1>4 DEF PickedSoFar
  <1>5. CASE s[n] \in S
    <2> DEFINE u == Append(t, s[n])
    <2>1. /\ u \in Seq(RecentRecord) /\ Len(u) = Len(t) + 1
          /\ \A a \in 1..Len(t) : u[a] = t[a]
          /\ u[Len(t) + 1] = s[n]
      BY <1>0, <1>1, AppendProperties
    <2> HIDE DEF u
    <2>2. \A a \in 1..Len(u) : a \in 1..Len(t) \/ a = Len(t) + 1
      BY <1>1, <2>1
    <2>3. \A a \in 1..Len(t) : a \in 1..Len(u)
      BY <1>1, <2>1
    <2>4. Len(t) + 1 \in 1..Len(u) /\ n \in 1..n
      BY <1>0, <1>1, <2>1
    <2>5. ASSUME NEW a \in 1..Len(u) PROVE u[a] \in S /\ \E b \in 1..n : u[a] = s[b]
      <3>1. CASE a \in 1..Len(t)
        BY <1>1, <1>2, <2>1, <3>1
      <3>2. CASE a = Len(t) + 1
        BY <1>5, <2>1, <2>4, <3>2
      <3> QED
        BY <2>2, <3>1, <3>2
    <2>6. \A b \in 1..n : s[b] \in S => \E a \in 1..Len(u) : u[a] = s[b]
      BY <1>1, <1>3, <2>1, <2>3, <2>4
    <2>7. ASSUME Ordered(s) PROVE Ordered(u)
      <3> SUFFICES ASSUME NEW i \in 1..Len(u), NEW j \in 1..Len(u), i < j
                   PROVE  LessTuple(u[j], u[i])
        BY DEF Ordered
      <3>1. i \in 1..Len(t)
        BY <1>1, <2>1, <2>2
      <3>2. CASE j \in 1..Len(t)
        BY <1>1, <2>1, <2>7, <3>1, <3>2 DEF Ordered
      <3>3. CASE j = Len(t) + 1
        <4>1. PICK b \in 1..(n - 1) : t[i] = s[b]
          BY <1>1, <3>1
        <4>2. b \in 1..Len(s) /\ b < n
          BY <1>0
        <4>3. LessTuple(s[n], s[b])
          BY <2>7, <4>2 DEF Ordered
        <4> QED
          BY <2>1, <3>1, <3>3, <4>1, <4>3
      <3> QED
        BY <2>2, <3>2, <3>3
    <2>8. PickedSoFar(s, S, u, n)
      BY <2>1, <2>5, <2>6, <2>7 DEF PickedSoFar
    <2> QED
      BY <1>5, <2>8 DEF u
  <1> QED
    BY <1>4, <1>5

\* The loop of a filter is well defined, round by round.
LEMMA PickedDefined ==
  ASSUME NEW s \in Seq(RecentRecord), NEW S
  PROVE  \E f : f = [i \in 0..Len(s) |->
                       IF i = 0 THEN <<>>
                       ELSE IF s[i] \in S THEN Append(f[i - 1], s[i]) ELSE f[i - 1]]
  <1> DEFINE Round(p, i) == IF s[i] \in S THEN Append(p, s[i]) ELSE p
             F(f, n) == [i \in 0..n |-> IF i = 0 THEN <<>> ELSE Round(f[i - 1], i)]
             Wrong == {n \in 0..Len(s) : ~\E f : f = F(f, n)}
  <1>0. Len(s) \in Nat
    OBVIOUS
  <1>1. Wrong = {}
    <2> SUFFICES ASSUME Wrong # {} PROVE FALSE
      OBVIOUS
    <2>1. Wrong \subseteq Nat
      BY <1>0
    <2>2. PICK n \in Wrong : \A m \in Wrong : ~(m < n)
      <3> HIDE DEF Wrong
      <3> QED
        BY <2>1, LeastNumber
    <2>3. n \in 0..Len(s) /\ n \in Nat /\ ~\E f : f = F(f, n)
      BY <1>0
    <2> HIDE DEF Round
    <2>4. CASE n = 0
      <3> DEFINE g == [i \in 0..0 |-> <<>>]
      <3>1. \A i \in 0..0 : i = 0
        OBVIOUS
      <3>2. g = F(g, 0)
        BY <3>1
      <3> QED
        BY <2>3, <2>4, <3>2
    <2>5. CASE n # 0
      <3>1. n - 1 \in 0..Len(s) /\ n - 1 < n /\ n - 1 \in Nat
        BY <1>0, <2>3, <2>5
      <3>2. n - 1 \notin Wrong
        <4> HIDE DEF Wrong
        <4> QED
          BY <2>2, <3>1
      <3>3. PICK f : f = F(f, n - 1)
        BY <3>1, <3>2
      <3> DEFINE g == [i \in 0..n |-> IF i = n THEN Round(f[n - 1], n) ELSE f[i]]
      <3>4. ASSUME NEW i \in 0..n PROVE g[i] = F(g, n)[i]
        <4>1. CASE i = n
          <5>1. g[n] = Round(f[n - 1], n) /\ g[n - 1] = f[n - 1]
            BY <2>3, <2>5
          <5>2. F(g, n)[n] = Round(g[n - 1], n)
            BY <2>3, <2>5
          <5> QED
            BY <4>1, <5>1, <5>2
        <4>2. CASE i # n
          <5>1. i \in 0..(n - 1) /\ (i # 0 => i - 1 \in 0..(n - 1) /\ i - 1 \in 0..n /\ i - 1 # n)
            BY <2>3, <4>2
          <5>2. g[i] = f[i] /\ f[i] = F(f, n - 1)[i]
            BY <3>3, <4>2, <5>1
          <5>3. CASE i = 0
            BY <5>1, <5>2, <5>3
          <5>4. CASE i # 0
            <6>1. g[i - 1] = f[i - 1]
              BY <5>1, <5>4
            <6>2. F(f, n - 1)[i] = Round(f[i - 1], i)
              BY <5>1, <5>4
            <6>3. F(g, n)[i] = Round(g[i - 1], i)
              BY <5>4
            <6> QED
              BY <5>2, <6>1, <6>2, <6>3
          <5> QED
            BY <5>3, <5>4
        <4> QED
          BY <4>1, <4>2
      <3>5. g = F(g, n)
        BY <3>4
      <3> QED
        BY <2>3, <3>5
    <2> QED
      BY <2>4, <2>5
  <1>2. Len(s) \in 0..Len(s)
    BY <1>0
  <1>3. PICK f : f = F(f, Len(s))
    BY <1>1, <1>2
  <1> QED
    BY <1>3

\* A filter keeps the records it is meant to keep, and their order.
LEMMA PickedFacts ==
  ASSUME NEW s \in Seq(RecentRecord), NEW S
  PROVE  PickedSoFar(s, S, Picked(s, S), Len(s))
  <1> DEFINE F(f) == [i \in 0..Len(s) |->
                        IF i = 0 THEN <<>>
                        ELSE IF s[i] \in S THEN Append(f[i - 1], s[i]) ELSE f[i - 1]]
             picked == CHOOSE f : f = F(f)
             Wrong == {n \in 0..Len(s) : ~PickedSoFar(s, S, picked[n], n)}
  <1>0. Len(s) \in Nat
    OBVIOUS
  <1>1. Picked(s, S) = picked[Len(s)]
    BY Zenon DEF Picked
  <1>2. picked = F(picked)
    <2>1. \E f : f = F(f)
      BY PickedDefined
    <2> HIDE DEF F
    <2> QED
      BY <2>1, Zenon
  <1> HIDE DEF picked
  <1>3. \A n \in 0..Len(s) :
           picked[n] = IF n = 0 THEN <<>>
                       ELSE IF s[n] \in S THEN Append(picked[n - 1], s[n]) ELSE picked[n - 1]
    BY <1>2
  <1> HIDE DEF F
  <1>4. Wrong = {}
    <2> SUFFICES ASSUME Wrong # {} PROVE FALSE
      OBVIOUS
    <2>1. Wrong \subseteq Nat
      BY <1>0
    <2>2. PICK n \in Wrong : \A m \in Wrong : ~(m < n)
      <3> HIDE DEF Wrong
      <3> QED
        BY <2>1, LeastNumber
    <2>3. n \in 0..Len(s) /\ n \in Nat /\ ~PickedSoFar(s, S, picked[n], n)
      BY <1>0
    <2>4. CASE n = 0
      <3>1. picked[0] = <<>>
        BY <1>3, <2>3, <2>4
      <3>2. <<>> \in Seq(RecentRecord) /\ Len(<<>>) = 0 /\ 1..0 = {}
        OBVIOUS
      <3>3. PickedSoFar(s, S, <<>>, 0)
        BY <3>2 DEF PickedSoFar, Ordered
      <3> QED
        BY <2>3, <2>4, <3>1, <3>3
    <2>5. CASE n # 0
      <3>1. n - 1 \in 0..Len(s) /\ n - 1 < n /\ n \in 1..Len(s)
        BY <1>0, <2>3, <2>5
      <3>2. n - 1 \notin Wrong
        <4> HIDE DEF Wrong
        <4> QED
          BY <2>2, <3>1
      <3>3. PickedSoFar(s, S, picked[n - 1], n - 1)
        BY <3>1, <3>2
      <3>4. picked[n] = IF s[n] \in S THEN Append(picked[n - 1], s[n]) ELSE picked[n - 1]
        BY <1>3, <2>3, <2>5
      <3> QED
        BY <2>3, <3>1, <3>3, <3>4, PickOne
    <2> QED
      BY <2>4, <2>5
  <1>5. Len(s) \in 0..Len(s)
    BY <1>0
  <1>6. PickedSoFar(s, S, picked[Len(s)], Len(s))
    BY <1>4, <1>5
  <1> QED
    BY <1>1, <1>6
-----------------------------------------------------------------------------
(* Steps that leave the history and the walk alone.                        *)

\* A recorded conversion is over.
RecordedStays == \A j \in Jobs : job[j].at = "recorded" => job'[j] = job[j]

\* A recorded conversion keeps its place in the pager's order.
LEMMA PlaceStays ==
  ASSUME RecordedStays, NEW x, Recorded(job, x)
  PROVE  Recorded(job', x) /\ Position(job', x) = Position(job, x)
  BY DEF RecordedStays, Recorded, Position

\* So do the records of a history.
LEMMA FaithfulStays ==
  ASSUME RecordedStays, NEW s, Faithful(job, s)
  PROVE  Faithful(job', s)
  <1> SUFFICES ASSUME NEW i \in 1..Len(s)
               PROVE  Recorded(job', s[i].id) /\ s[i].ts = Position(job', s[i].id).ts
    BY DEF Faithful
  <1>1. Recorded(job, s[i].id) /\ s[i].ts = Position(job, s[i].id).ts
    BY DEF Faithful
  <1> QED
    BY <1>1, PlaceStays

\* So does what a walk has shown.
LEMMA ShownStays ==
  ASSUME RecordedStays, NEW seen, NEW kept, NEW c, ShownUpTo(job, seen, kept, c)
  PROVE  ShownUpTo(job', seen, kept, c)
  <1>1. ASSUME NEW i \in 1..Len(seen)
        PROVE  /\ Recorded(job', seen[i])
               /\ c # NoCursor => ~LessTuple(Position(job', seen[i]), c)
    <2>1. Recorded(job, seen[i]) /\ (c # NoCursor => ~LessTuple(Position(job, seen[i]), c))
      BY DEF ShownUpTo
    <2> QED
      BY <2>1, PlaceStays
  <1>2. ASSUME NEW x \in kept
        PROVE  /\ Recorded(job', x)
               /\ \/ \E i \in 1..Len(seen) : seen[i] = x
                  \/ c # NoCursor /\ LessTuple(Position(job', x), c)
    <2>1. /\ Recorded(job, x)
          /\ \/ \E i \in 1..Len(seen) : seen[i] = x
             \/ c # NoCursor /\ LessTuple(Position(job, x), c)
      BY DEF ShownUpTo
    <2> QED
      BY <2>1, PlaceStays
  <1> QED
    BY <1>1, <1>2 DEF ShownUpTo

\* A step that touches neither the history nor the walk nor what is recorded.
LEMMA WalkFrame ==
  ASSUME WalkInv, RecordedStays, UNCHANGED <<recent, walk, inverted>>
  PROVE  WalkInv'
  <1>1. HistorySound'
    BY FaithfulStays DEF WalkInv, HistorySound
  <1>2. WalkShape'
    BY DEF WalkInv, WalkShape
  <1>3. WalkSound'
    BY ShownStays DEF WalkInv, WalkSound
  <1> QED
    BY <1>1, <1>2, <1>3 DEF WalkInv

\* All steps of a conversion but the last.
LEMMA UnrecordedStep ==
  ASSUME JobTypes, NEW j \in Jobs, JobStep(j) \/ WorkerLine(j), ~RecordConversion(j)
  PROVE  RecordedStays /\ UNCHANGED <<recent, walk, inverted>>
  <1>1. job[j].at # "recorded" /\ UNCHANGED <<recent, walk, inverted>>
    BY DEF JobStep, WorkerLine, NoProgress, CacheHit, Planned, Loaded, Replan, ChunkDone,
           StartMerge, MergeDone, JobFails, StampRecord
  <1>2. \A i \in Jobs : i # j => job'[i] = job[i]
    <2>1. CASE NoProgress(j) \/ CacheHit(j) \/ MergeDone(j) \/ JobFails(j)
      BY <2>1, FinishFacts DEF NoProgress, CacheHit, MergeDone, JobFails
    <2>2. CASE Planned(j) \/ Loaded(j) \/ Replan(j)
      BY <2>2 DEF JobTypes, Planned, Loaded, Replan, Moved, Follows, Heard
    <2>3. CASE ChunkDone(j)
      BY <2>3 DEF JobTypes, ChunkDone, Heard
    <2>4. CASE StartMerge(j) \/ StampRecord(j) \/ WorkerLine(j)
      BY <2>4 DEF JobTypes, StartMerge, StampRecord, WorkerLine, Moved
    <2> QED
      BY <2>1, <2>2, <2>3, <2>4 DEF JobStep
  <1> QED
    BY <1>1, <1>2, SMTT(30) DEF RecordedStays

\* A conversion is recorded: its record comes first, and the last may go.
LEMMA RecordStep ==
  ASSUME WalkInv, JobTypes, NEW j \in Jobs, RecordConversion(j)
  PROVE  WalkInv'
  <1> DEFINE rec == [id |-> j, ts |-> job[j].ts, source |-> "ui", status |-> job[j].status]
             buf == <<rec>> \o recent
  <1>1. /\ job \in [Jobs -> Conversion] /\ job[j] \in Conversion /\ job[j].ts \in Nat
        /\ job[j].status \in Statuses /\ j \in Nat
    <2>1. job[j].ts \in Nat /\ job[j].status \in Statuses
      BY ConversionFields DEF Conversion
    <2> QED
      BY <2>1, ObservabilityAssumption DEF JobTypes
  <1>2. /\ job[j].at = "stamped" /\ walk' = walk
        /\ recent' = IF Len(buf) > Maxlen THEN SubSeq(buf, 1, Maxlen) ELSE buf
        /\ inverted' = (inverted \/ ~Descending(recent'))
        /\ job' = [job EXCEPT ![j].at = "recorded"]
    BY DEF RecordConversion, Record, Moved
  <1>3. RecordedStays /\ job'[j].at = "recorded" /\ job'[j].ts = job[j].ts
    BY <1>1, <1>2 DEF RecordedStays, Conversion
  <1>4. recent \in Seq(RecentRecord) /\ Len(recent) \in Nat /\ Maxlen \in Nat
    BY ObservabilityAssumption DEF WalkInv, HistorySound
  <1>5. rec \in RecentRecord /\ rec.id = j /\ rec.ts = job[j].ts
    BY <1>1 DEF RecentRecord
  <1> HIDE DEF rec
  <1>6. /\ buf \in Seq(RecentRecord) /\ Len(buf) = Len(recent) + 1
        /\ \A i \in 1..Len(buf) : buf[i] = IF i = 1 THEN rec ELSE recent[i - 1]
    <2>1. <<rec>> \in Seq(RecentRecord) /\ Len(<<rec>>) = 1 /\ <<rec>>[1] = rec
      BY <1>5
    <2> DEFINE one == <<rec>>
    <2> HIDE DEF one
    <2>2. /\ one \o recent \in Seq(RecentRecord) /\ Len(one \o recent) = 1 + Len(recent)
          /\ \A i \in 1..(1 + Len(recent)) :
                (one \o recent)[i] = IF i <= 1 THEN one[i] ELSE recent[i - 1]
      BY <1>4, <2>1, ConcatProperties DEF one
    <2>3. buf = one \o recent
      BY DEF one
    <2> HIDE DEF buf
    <2> QED
      BY <1>4, <2>1, <2>2, <2>3 DEF one
  <1> HIDE DEF buf
  <1>7. Faithful(job', buf)
    <2>1. Faithful(job', recent)
      BY FaithfulStays, <1>3 DEF WalkInv, HistorySound
    <2> SUFFICES ASSUME NEW i \in 1..Len(buf)
                 PROVE  Recorded(job', buf[i].id) /\ buf[i].ts = Position(job', buf[i].id).ts
      BY DEF Faithful
    <2>2. CASE i = 1
      BY <1>1, <1>3, <1>5, <1>6, <2>2 DEF Recorded, Position
    <2>3. CASE i # 1
      <3>1. i - 1 \in 1..Len(recent) /\ buf[i] = recent[i - 1]
        BY <1>4, <1>6, <2>3
      <3> QED
        BY <2>1, <3>1 DEF Faithful
    <2> QED
      BY <2>2, <2>3
  <1>8. /\ recent' \in Seq(RecentRecord)
        /\ \A i \in 1..Len(recent') : i \in 1..Len(buf) /\ recent'[i] = buf[i]
    <2>1. CASE Len(buf) > Maxlen
      <3>1. \A i \in 1..Maxlen : i \in 1..Len(buf) /\ buf[i] \in RecentRecord
        BY <1>4, <1>6, <2>1
      <3>2. /\ SubSeq(buf, 1, Maxlen) \in Seq(RecentRecord) /\ Len(SubSeq(buf, 1, Maxlen)) = Maxlen
            /\ \A i \in 1..Maxlen : SubSeq(buf, 1, Maxlen)[i] = buf[i]
        BY <1>4, <1>6, <2>1
      <3> QED
        BY <1>2, <2>1, <3>1, <3>2
    <2>2. CASE ~(Len(buf) > Maxlen)
      BY <1>2, <1>6, <2>2
    <2> QED
      BY <2>1, <2>2
  <1>9. HistorySound'
    <2>1. Faithful(job', recent')
      BY <1>7, <1>8 DEF Faithful
    <2>2. ~inverted' => Descending(recent')
      BY <1>2
    <2> QED
      BY <1>8, <2>1, <2>2 DEF HistorySound
  <1>10. WalkShape'
    BY <1>2 DEF WalkInv, WalkShape
  <1>11. WalkSound'
    <2>1. ~inverted' => ~inverted
      BY <1>2
    <2> QED
      BY <1>2, <1>3, <2>1, ShownStays DEF WalkInv, WalkSound
  <1> QED
    BY <1>9, <1>10, <1>11 DEF WalkInv

-----------------------------------------------------------------------------
(* A page of the walk.                                                     *)

\* What a page that is not stale shows of items, from cursor on.
PageOf(items, cursor, p) ==
    /\ p.entries \in Seq(RecentRecord)
    /\ \A a \in 1..Len(p.entries) :
          /\ \E i \in 1..Len(items) : p.entries[a] = items[i]
          /\ cursor # NoCursor => LessTuple(p.entries[a], cursor)
    /\ p.next # NoCursor => p.next \in Place
    /\ Ordered(items) =>
          /\ Ordered(p.entries)
          /\ \A i \in 1..Len(items) :
                cursor = NoCursor \/ LessTuple(items[i], cursor) =>
                    \/ \E a \in 1..Len(p.entries) : p.entries[a] = items[i]
                    \/ p.next # NoCursor /\ LessTuple(items[i], p.next)
          /\ p.next # NoCursor =>
                /\ \A a \in 1..Len(p.entries) : ~LessTuple(p.entries[a], p.next)
                /\ cursor # NoCursor => LessTuple(p.next, cursor)

\* The loop after the cursor, and the cut at Limit.
LEMMA PaginateFacts ==
  ASSUME NEW items \in Seq(RecentRecord), NEW cursor, cursor = NoCursor \/ cursor \in Place,
         ~Paginate(items, cursor).stale
  PROVE  PageOf(items, cursor, Paginate(items, cursor))
  <1> DEFINE anchored == \E i \in DOMAIN items : items[i].ts = cursor.ts /\ items[i].id = cursor.id
             stale    == cursor # NoCursor /\ ~anchored
             after    == {r \in Range(items) : LessTuple(r, cursor)}
             rest     == IF cursor = NoCursor \/ stale THEN items ELSE Picked(items, after)
             more     == Len(rest) > Limit
             entries  == IF more THEN SubSeq(rest, 1, Limit) ELSE rest
             next     == IF more THEN [ts |-> Last(entries).ts, id |-> Last(entries).id] ELSE NoCursor
             p        == Paginate(items, cursor)
  <1>1. p.entries = entries /\ p.stale = stale /\ p.next = next
    BY DEF Paginate
  <1> HIDE DEF p, anchored
  <1>2. rest = IF cursor = NoCursor THEN items ELSE Picked(items, after)
    BY <1>1 DEF p
  <1> HIDE DEF rest, stale
  <1>3. /\ rest \in Seq(RecentRecord)
        /\ \A a \in 1..Len(rest) : /\ \E i \in 1..Len(items) : rest[a] = items[i]
                                   /\ cursor # NoCursor => LessTuple(rest[a], cursor)
        /\ \A i \in 1..Len(items) :
              cursor = NoCursor \/ LessTuple(items[i], cursor) =>
                  \E a \in 1..Len(rest) : rest[a] = items[i]
        /\ Ordered(items) => Ordered(rest)
    <2>1. CASE cursor = NoCursor
      BY <1>2, <2>1
    <2>2. CASE cursor # NoCursor
      <3>1. PickedSoFar(items, after, rest, Len(items))
        <4> HIDE DEF after
        <4> QED
          BY <1>2, <2>2, PickedFacts
      <3>2. \A i \in 1..Len(items) : LessTuple(items[i], cursor) => items[i] \in after
        BY DEF Range
      <3>3. \A r \in after : LessTuple(r, cursor)
        OBVIOUS
      <3> HIDE DEF after
      <3> QED
        BY <2>2, <3>1, <3>2, <3>3 DEF PickedSoFar
    <2> QED
      BY <2>1, <2>2
  <1>4. Len(rest) \in Nat /\ Limit \in Nat /\ Limit # 0 /\ Len(items) \in Nat
    BY <1>3, ObservabilityAssumption
  <1>0. \A a \in 1..Len(rest) : rest[a] \in RecentRecord
    BY <1>3
  <1>5. /\ entries \in Seq(RecentRecord) /\ Len(entries) = IF more THEN Limit ELSE Len(rest)
        /\ \A a \in 1..Len(entries) : a \in 1..Len(rest) /\ entries[a] = rest[a]
    <2>1. CASE more
      <3>1. \A a \in 1..Limit : a \in 1..Len(rest) /\ rest[a] \in RecentRecord
        BY <1>3, <1>4, <2>1
      <3>2. /\ SubSeq(rest, 1, Limit) \in Seq(RecentRecord) /\ Len(SubSeq(rest, 1, Limit)) = Limit
            /\ \A a \in 1..Limit : SubSeq(rest, 1, Limit)[a] = rest[a]
        BY <1>3, <1>4, <2>1
      <3> QED
        BY <2>1, <3>1, <3>2
    <2>2. CASE ~more
      BY <1>3, <2>2
    <2> QED
      BY <2>1, <2>2
  <1> HIDE DEF entries, more
  <1>6. CASE ~more
    <2>1. next = NoCursor /\ entries = rest
      BY <1>6 DEF entries
    <2> HIDE DEF next
    <2> QED
      BY <1>1, <1>3, <2>1 DEF PageOf, p
  <1>7. CASE more
    <2>1. /\ Len(rest) > Limit /\ Len(entries) = Limit /\ Limit \in 1..Limit /\ Limit \in 1..Len(rest)
          /\ entries[Limit] = rest[Limit] /\ rest[Limit] \in RecentRecord
      <3>1. Len(rest) > Limit /\ Len(entries) = Limit
        BY <1>5, <1>7 DEF more
      <3>2. Limit \in 1..Limit /\ Limit \in 1..Len(rest)
        BY <1>4, <3>1
      <3>3. entries[Limit] = rest[Limit]
        BY <1>5, <3>1, <3>2
      <3> QED
        BY <1>0, <3>1, <3>2, <3>3
    <2> DEFINE l == rest[Limit]
    <2>2. l.ts \in Nat /\ l.id \in Nat
      BY <2>1, RecordFields
    <2> HIDE DEF l
    <2>3. next = [ts |-> l.ts, id |-> l.id]
      BY <1>7, <2>1 DEF Last, l
    <2>4. next.ts = l.ts /\ next.id = l.id /\ next \in Place /\ next # NoCursor
      <3>1. next.ts = l.ts /\ next.id = l.id /\ next \in Place
        BY <2>2, <2>3 DEF Place
      <3>2. NoCursor.ts = -1
        BY DEF NoCursor
      <3> HIDE DEF next
      <3> QED
        BY <2>2, <3>1, <3>2
    <2> HIDE DEF next
    <2>5. \A r : (LessTuple(r, next) <=> LessTuple(r, l)) /\ (LessTuple(next, r) <=> LessTuple(l, r))
      BY <2>4 DEF LessTuple
    <2>6. ASSUME NEW a \in 1..Len(entries)
          PROVE  /\ \E i \in 1..Len(items) : entries[a] = items[i]
                 /\ cursor # NoCursor => LessTuple(entries[a], cursor)
      BY <1>3, <1>5
    <2>7. ASSUME Ordered(items)
          PROVE  /\ Ordered(entries)
                 /\ \A a \in 1..Len(entries) : ~LessTuple(entries[a], next)
                 /\ cursor # NoCursor => LessTuple(next, cursor)
                 /\ \A i \in 1..Len(items) :
                       cursor = NoCursor \/ LessTuple(items[i], cursor) =>
                           \/ \E a \in 1..Len(entries) : entries[a] = items[i]
                           \/ LessTuple(items[i], next)
      <3>1. Ordered(rest)
        BY <1>3, <2>7
      <3>2. Ordered(entries)
        BY <1>5, <3>1 DEF Ordered
      <3>3. ASSUME NEW a \in 1..Len(entries) PROVE ~LessTuple(entries[a], next)
        <4>1. a \in 1..Len(rest) /\ entries[a] = rest[a] /\ a <= Limit /\ rest[a] \in RecentRecord
          <5>1. a \in 1..Len(rest) /\ entries[a] = rest[a]
            BY <1>5
          <5>2. a <= Limit
            BY <1>4, <2>1
          <5> QED
            BY <1>0, <5>1, <5>2
        <4>2. a = Limit \/ LessTuple(l, rest[a])
          BY <1>4, <2>1, <3>1, <4>1 DEF Ordered, l
        <4>3. rest[a].ts \in Nat /\ rest[a].id \in Nat
          BY <4>1, RecordFields
        <4>4. ~LessTuple(rest[a], l)
          BY <2>2, <4>2, <4>3, TupleOrder DEF l
        <4> QED
          BY <2>5, <4>1, <4>4
      <3>4. cursor # NoCursor => LessTuple(next, cursor)
        BY <1>3, <2>1, <2>5 DEF l
      <3>5. ASSUME NEW i \in 1..Len(items), cursor = NoCursor \/ LessTuple(items[i], cursor)
            PROVE  \/ \E a \in 1..Len(entries) : entries[a] = items[i]
                   \/ LessTuple(items[i], next)
        <4>1. PICK a \in 1..Len(rest) : rest[a] = items[i]
          BY <1>3, <3>5
        <4>2. CASE a <= Limit
          <5>1. a \in 1..Len(entries)
            BY <1>4, <2>1, <4>2
          <5> QED
            BY <1>5, <4>1, <5>1
        <4>3. CASE ~(a <= Limit)
          <5>1. Limit < a
            BY <1>4, <4>3
          <5>2. LessTuple(rest[a], l)
            BY <2>1, <3>1, <5>1 DEF Ordered, l
          <5> QED
            BY <2>5, <4>1, <5>2
        <4> QED
          BY <4>2, <4>3
      <3> QED
        BY <3>2, <3>3, <3>4, <3>5
    <2> QED
      BY <1>1, <1>5, <2>4, <2>6, <2>7 DEF PageOf, p
  <1> QED
    BY <1>6, <1>7

\* A record and its conversion stand at the same place.
LEMMA SamePlace ==
  ASSUME NEW b, NEW s \in Seq(RecentRecord), Faithful(b, s), NEW i \in 1..Len(s), NEW c
  PROVE  /\ s[i].ts \in Nat /\ s[i].id \in Nat
         /\ Position(b, s[i].id).ts = s[i].ts /\ Position(b, s[i].id).id = s[i].id
         /\ LessTuple(Position(b, s[i].id), c) <=> LessTuple(s[i], c)
         /\ Recorded(b, s[i].id)
  <1>1. s[i].ts \in Nat /\ s[i].id \in Nat
    BY RecordFields
  <1>2. s[i].ts = Position(b, s[i].id).ts /\ Recorded(b, s[i].id)
    BY DEF Faithful
  <1>3. Position(b, s[i].id).id = s[i].id
    BY DEF Position
  <1>4. LessTuple(Position(b, s[i].id), c) <=> LessTuple(s[i], c)
    BY <1>2, <1>3 DEF LessTuple
  <1> QED
    BY <1>1, <1>2, <1>3, <1>4

\* The places are pairs of numbers.
LEMMA PlaceTypes ==
  ASSUME NEW b, NEW x, Recorded(b, x)
  PROVE  Position(b, x).ts \in Nat /\ Position(b, x).id \in Nat
  BY DEF Recorded, Position

\* A page continues the walk: nothing on it was shown before, and between the
\* old cursor and the new one it leaves nothing out.
LEMMA PageContinues ==
  ASSUME NEW b, NEW items \in Seq(RecentRecord), Faithful(b, items), Ordered(items),
         NEW c, c = NoCursor \/ c \in Place, NEW p, PageOf(items, c, p),
         NEW seen \in Seq(Nat), IsInjective(seen),
         \A i \in 1..Len(seen) : /\ Recorded(b, seen[i]) /\ c # NoCursor
                                 /\ ~LessTuple(Position(b, seen[i]), c),
         NEW kept, kept \subseteq Ids(items),
         \A x \in kept : \/ \E i \in 1..Len(seen) : seen[i] = x
                         \/ c = NoCursor \/ LessTuple(Position(b, x), c)
  PROVE  ShownUpTo(b, seen \o IdsOf(p.entries), kept, p.next)
  <1> DEFINE e   == p.entries
             ids == IdsOf(e)
             all == seen \o ids
  <1>1. /\ e \in Seq(RecentRecord)
        /\ \A a \in 1..Len(e) : \E i \in 1..Len(items) : e[a] = items[i]
        /\ \A a \in 1..Len(e) : c # NoCursor => LessTuple(e[a], c)
        /\ p.next # NoCursor => p.next \in Place
        /\ Ordered(e)
        /\ \A i \in 1..Len(items) :
              c = NoCursor \/ LessTuple(items[i], c) =>
                  \/ \E a \in 1..Len(e) : e[a] = items[i]
                  \/ p.next # NoCursor /\ LessTuple(items[i], p.next)
        /\ p.next # NoCursor =>
              /\ \A a \in 1..Len(e) : ~LessTuple(e[a], p.next)
              /\ c # NoCursor => LessTuple(p.next, c)
    BY DEF PageOf
  <1> DEFINE n == p.next
  <1> HIDE DEF e, n
  <1>2. Len(e) \in Nat /\ Len(seen) \in Nat /\ Faithful(b, e)
    <2>1. Faithful(b, e)
      BY <1>1, SMTT(30) DEF Faithful
    <2> QED
      BY <1>1, <2>1
  <1>3. /\ ids \in Seq(Nat) /\ Len(ids) = Len(e)
        /\ \A a \in 1..Len(e) : ids[a] = e[a].id /\ e[a].id \in Nat
    <2>1. DOMAIN e = 1..Len(e)
      BY <1>1
    <2>2. \A a \in 1..Len(e) : e[a].id \in Nat
      BY <1>1, <1>2, SamePlace
    <2>3. ids = [a \in 1..Len(e) |-> e[a].id]
      BY <2>1 DEF IdsOf
    <2> HIDE DEF ids
    <2>4. ids \in [1..Len(e) -> Nat]
      BY <2>2, <2>3
    <2>5. ids \in Seq(Nat) /\ Len(ids) = Len(e)
      BY <1>2, <2>4
    <2> QED
      BY <2>2, <2>3, <2>5
  <1> HIDE DEF ids
  <1>4. /\ all \in Seq(Nat) /\ Len(all) = Len(seen) + Len(e)
        /\ \A i \in 1..(Len(seen) + Len(e)) :
              all[i] = IF i <= Len(seen) THEN seen[i] ELSE ids[i - Len(seen)]
    <2>1. /\ seen \o ids \in Seq(Nat) /\ Len(seen \o ids) = Len(seen) + Len(ids)
          /\ \A i \in 1..(Len(seen) + Len(ids)) :
                (seen \o ids)[i] = IF i <= Len(seen) THEN seen[i] ELSE ids[i - Len(seen)]
      <3>1. seen \in Seq(Nat) /\ ids \in Seq(Nat)
        BY <1>3
      <3> QED
        BY <3>1, ConcatProperties
    <2> HIDE DEF all
    <2>2. all = seen \o ids
      BY DEF all
    <2> QED
      BY <1>3, <2>1, <2>2
  <1> HIDE DEF all
  <1>5. /\ \A i \in 1..Len(seen) : i \in 1..Len(all) /\ all[i] = seen[i]
        /\ \A a \in 1..Len(e) : Len(seen) + a \in 1..Len(all) /\ all[Len(seen) + a] = e[a].id
        /\ \A i \in 1..Len(all) : i \in 1..Len(seen) \/ \E a \in 1..Len(e) : i = Len(seen) + a
    <2>1. \A i \in 1..Len(seen) : i \in 1..Len(all) /\ all[i] = seen[i]
      BY <1>2, <1>4, SMTT(30)
    <2>2. ASSUME NEW a \in 1..Len(e)
          PROVE  Len(seen) + a \in 1..Len(all) /\ all[Len(seen) + a] = e[a].id
      <3> DEFINE k == Len(seen) + a
      <3>1. k \in 1..(Len(seen) + Len(e)) /\ ~(k <= Len(seen)) /\ k - Len(seen) = a
        BY <1>2
      <3> HIDE DEF k
      <3>2. all[k] = ids[k - Len(seen)] /\ k \in 1..Len(all)
        BY <1>4, <3>1
      <3>3. all[k] = e[a].id
        BY <1>3, <3>1, <3>2
      <3> QED
        BY <3>2, <3>3 DEF k
    <2>3. ASSUME NEW i \in 1..Len(all), i \notin 1..Len(seen)
          PROVE  \E a \in 1..Len(e) : i = Len(seen) + a
      <3>1. i - Len(seen) \in 1..Len(e) /\ i = Len(seen) + (i - Len(seen))
        BY <1>2, <1>4, <2>3
      <3> QED
        BY <3>1
    <2> QED
      BY <2>1, <2>2, <2>3
  <1>6. ASSUME NEW a \in 1..Len(e)
        PROVE  /\ Recorded(b, e[a].id) /\ e[a].ts = Position(b, e[a].id).ts
               /\ e[a].ts \in Nat /\ e[a].id \in Nat
               /\ \A d : LessTuple(Position(b, e[a].id), d) <=> LessTuple(e[a], d)
    BY <1>1, <1>2, SamePlace
  <1>7. IsInjective(all)
    <2>1. ASSUME NEW i \in 1..Len(seen), NEW a \in 1..Len(e), seen[i] = e[a].id PROVE FALSE
      <3>1. LessTuple(e[a], c)
        BY <1>1
      <3> QED
        BY <1>6, <2>1, <3>1
    <2>2. ASSUME NEW x \in 1..Len(e), NEW y \in 1..Len(e), e[x].id = e[y].id, x < y PROVE FALSE
      <3>1. LessTuple(e[y], e[x])
        BY <1>1, <2>2 DEF Ordered
      <3>2. e[x].ts = e[y].ts /\ e[x].ts \in Nat /\ e[x].id \in Nat
        BY <1>6, <2>2
      <3> QED
        BY <2>2, <3>1, <3>2 DEF LessTuple
    <2>3. ASSUME NEW x \in 1..Len(e), NEW y \in 1..Len(e), e[x].id = e[y].id PROVE x = y
      <3>1. x < y \/ y < x \/ x = y
        BY <1>2
      <3> QED
        BY <2>2, <2>3, <3>1
    <2>4. DOMAIN all = 1..Len(all) /\ DOMAIN seen = 1..Len(seen)
      BY <1>4
    <2>5. ASSUME NEW i \in 1..Len(all), NEW j \in 1..Len(all), all[i] = all[j] PROVE i = j
      <3>1. CASE i \in 1..Len(seen) /\ j \in 1..Len(seen)
        BY <1>5, <2>4, <2>5, <3>1 DEF IsInjective
      <3>2. CASE i \in 1..Len(seen) /\ j \notin 1..Len(seen)
        <4>1. PICK a \in 1..Len(e) : j = Len(seen) + a
          BY <1>5, <3>2
        <4> QED
          BY <1>5, <2>1, <2>5, <3>2, <4>1
      <3>3. CASE i \notin 1..Len(seen) /\ j \in 1..Len(seen)
        <4>1. PICK a \in 1..Len(e) : i = Len(seen) + a
          BY <1>5, <3>3
        <4> QED
          BY <1>5, <2>1, <2>5, <3>3, <4>1
      <3>4. CASE i \notin 1..Len(seen) /\ j \notin 1..Len(seen)
        <4>1. PICK x \in 1..Len(e) : i = Len(seen) + x
          BY <1>5, <3>4
        <4>2. PICK y \in 1..Len(e) : j = Len(seen) + y
          BY <1>5, <3>4
        <4>3. e[x].id = e[y].id
          BY <1>5, <2>5, <4>1, <4>2
        <4> QED
          BY <2>3, <4>1, <4>2, <4>3
      <3> QED
        BY <3>1, <3>2, <3>3, <3>4
    <2> QED
      BY <2>4, <2>5 DEF IsInjective
  <1>8. n # NoCursor => n.ts \in Nat /\ n.id \in Nat
    BY <1>1 DEF n, Place
  <1>9. c # NoCursor => c.ts \in Nat /\ c.id \in Nat
    BY DEF Place
  <1>10. ASSUME NEW i \in 1..Len(all)
         PROVE  /\ Recorded(b, all[i])
                /\ n # NoCursor => ~LessTuple(Position(b, all[i]), n)
    <2>1. CASE i \in 1..Len(seen)
      <3>1. /\ Recorded(b, seen[i]) /\ c # NoCursor /\ ~LessTuple(Position(b, seen[i]), c)
            /\ all[i] = seen[i]
        BY <1>5, <2>1
      <3>2. ASSUME n # NoCursor PROVE ~LessTuple(Position(b, seen[i]), n)
        <4>1. LessTuple(n, c)
          BY <1>1, <3>1, <3>2 DEF n
        <4>2. Position(b, seen[i]).ts \in Nat /\ Position(b, seen[i]).id \in Nat
          BY <3>1, PlaceTypes
        <4> QED
          BY <1>8, <1>9, <3>1, <3>2, <4>1, <4>2, TupleOrder
      <3> QED
        BY <3>1, <3>2
    <2>2. CASE i \notin 1..Len(seen)
      <3>1. PICK a \in 1..Len(e) : i = Len(seen) + a
        BY <1>5, <2>2
      <3>2. all[i] = e[a].id
        BY <1>5, <3>1
      <3>3. n # NoCursor => ~LessTuple(e[a], n)
        BY <1>1 DEF n
      <3> QED
        BY <1>6, <3>2, <3>3
    <2> QED
      BY <2>1, <2>2
  <1>11. ASSUME NEW x \in kept
         PROVE  /\ Recorded(b, x)
                /\ \/ \E i \in 1..Len(all) : all[i] = x
                   \/ n # NoCursor /\ LessTuple(Position(b, x), n)
    <2>1. PICK k \in 1..Len(items) : x = items[k].id
      BY DEF Ids
    <2>2. Recorded(b, x) /\ \A d : LessTuple(Position(b, x), d) <=> LessTuple(items[k], d)
      BY <2>1, SamePlace
    <2>3. CASE \E i \in 1..Len(seen) : seen[i] = x
      BY <1>5, <2>2, <2>3
    <2>4. CASE c = NoCursor \/ LessTuple(items[k], c)
      <3>1. \/ \E a \in 1..Len(e) : e[a] = items[k]
            \/ n # NoCursor /\ LessTuple(items[k], n)
        BY <1>1, <2>4 DEF n
      <3> QED
        BY <1>5, <2>1, <2>2, <3>1
    <2> QED
      BY <2>2, <2>3, <2>4
  <1> QED
    BY <1>7, <1>10, <1>11 DEF ShownUpTo, all, ids, e, n

\* One request of the walk.
LEMMA NextPageStep ==
  ASSUME WalkInv, JobTypes, NextPage
  PROVE  WalkInv'
  <1>1. PICK f \in (IF walk.at = "idle" THEN Filters ELSE {walk.flt}) :
          LET items == Picked(recent, {r \in Range(recent) : Matches(r, f)})
              page  == Paginate(items, walk.cursor)
          IN  walk' = IF page.stale THEN NoWalk
                      ELSE [at |-> IF page.next = NoCursor THEN "done" ELSE "paging",
                            flt |-> f, cursor |-> page.next,
                            seen |-> walk.seen \o IdsOf(page.entries),
                            kept |-> IF walk.at = "idle" THEN Ids(items) ELSE walk.kept \cap Ids(items)]
    BY DEF NextPage
  <1> DEFINE matching == {r \in Range(recent) : Matches(r, f)}
             items    == Picked(recent, matching)
             page     == Paginate(items, walk.cursor)
             seen     == walk.seen \o IdsOf(page.entries)
             kept     == IF walk.at = "idle" THEN Ids(items) ELSE walk.kept \cap Ids(items)
  <1>2. walk' = IF page.stale THEN NoWalk
                ELSE [at |-> IF page.next = NoCursor THEN "done" ELSE "paging",
                      flt |-> f, cursor |-> page.next, seen |-> seen, kept |-> kept]
    BY <1>1
  <1> HIDE DEF matching, page, seen, kept
  <1>3. walk.at # "done" /\ UNCHANGED <<job, recent, inverted>>
    BY DEF NextPage
  <1>4. HistorySound'
    BY <1>3 DEF WalkInv, HistorySound
  <1>5. recent \in Seq(RecentRecord) /\ Faithful(job, recent) /\ (~inverted => Ordered(recent))
    BY DescendingOrdered DEF WalkInv, HistorySound
  <1>6. /\ items \in Seq(RecentRecord)
        /\ \A a \in 1..Len(items) : \E i \in 1..Len(recent) : items[a] = recent[i]
        /\ ~inverted => Ordered(items)
    BY <1>5, PickedFacts DEF PickedSoFar
  <1> HIDE DEF items
  <1>7. Faithful(job, items)
    BY <1>5, <1>6 DEF Faithful
  <1>8. /\ walk.at = "idle" => walk.cursor = NoCursor /\ walk.seen = <<>>
        /\ walk.at # "idle" => walk.at = "paging" /\ walk.cursor \in Place
        /\ walk.seen \in Seq(Nat)
    BY <1>3 DEF WalkInv, WalkShape, NoWalk
  <1>9. CASE page.stale
    <2>1. walk' = NoWalk
      BY <1>2, <1>9
    <2>2. WalkShape'
      <3>1. <<>> \in Seq(Nat)
        OBVIOUS
      <3> QED
        BY <2>1, <3>1 DEF WalkShape, NoWalk
    <2>3. WalkSound'
      BY <2>1 DEF WalkSound, NoWalk
    <2> QED
      BY <1>4, <2>2, <2>3 DEF WalkInv
  <1>10. CASE ~page.stale
    <2>1. PageOf(items, walk.cursor, page)
      <3>1. walk.cursor = NoCursor \/ walk.cursor \in Place
        BY <1>8
      <3> QED
        BY <1>6, <1>10, <3>1, PaginateFacts DEF page
    <2>2. /\ walk'.at = (IF page.next = NoCursor THEN "done" ELSE "paging")
          /\ walk'.cursor = page.next /\ walk'.seen = seen /\ walk'.kept = kept
      BY <1>2, <1>10
    <2>3. page.next # NoCursor => page.next \in Place
      BY <2>1 DEF PageOf
    <2>4. seen \in Seq(Nat)
      <3> DEFINE e == page.entries
      <3>1. e \in Seq(RecentRecord) /\ Len(e) \in Nat /\ DOMAIN e = 1..Len(e)
        BY <2>1 DEF PageOf
      <3> HIDE DEF e
      <3>2. \A a \in 1..Len(e) : e[a].id \in Nat
        BY <3>1, RecordFields
      <3>3. IdsOf(e) \in [1..Len(e) -> Nat]
        BY <3>1, <3>2 DEF IdsOf
      <3>4. IdsOf(e) \in Seq(Nat)
        BY <3>1, <3>3
      <3> QED
        BY <1>8, <3>4, ConcatProperties DEF seen, e
    <2>5. WalkShape'
      BY <2>2, <2>3, <2>4 DEF WalkShape
    <2>6. ASSUME ~inverted PROVE ShownUpTo(job, seen, kept, page.next)
      <3>1. kept \subseteq Ids(items)
        BY DEF kept
      <3>2. CASE walk.at = "idle"
        <4>1. /\ IsInjective(walk.seen) /\ walk.cursor = NoCursor
              /\ \A i \in 1..Len(walk.seen) : FALSE
          <5>1. walk.seen = <<>> /\ DOMAIN <<>> = {} /\ 1..Len(<<>>) = {}
            BY <1>8, <3>2
          <5> QED
            BY <1>8, <3>2, <5>1 DEF IsInjective
        <4> QED
          BY <1>6, <1>7, <1>8, <2>1, <2>6, <3>1, <4>1, PageContinues DEF seen
      <3>3. CASE walk.at # "idle"
        <4>1. ShownUpTo(job, walk.seen, walk.kept, walk.cursor)
          BY <2>6, <3>3 DEF WalkInv, WalkSound
        <4>2. walk.cursor \in Place /\ walk.cursor # NoCursor
          <5>1. walk.cursor \in Place
            BY <1>8, <3>3
          <5>2. walk.cursor.ts \in Nat
            BY <5>1 DEF Place
          <5>3. NoCursor.ts = -1
            BY DEF NoCursor
          <5> QED
            BY <5>1, <5>2, <5>3
        <4>3. /\ IsInjective(walk.seen)
              /\ \A i \in 1..Len(walk.seen) :
                    Recorded(job, walk.seen[i]) /\ ~LessTuple(Position(job, walk.seen[i]), walk.cursor)
              /\ \A x \in kept : \/ \E i \in 1..Len(walk.seen) : walk.seen[i] = x
                                 \/ LessTuple(Position(job, x), walk.cursor)
          BY <3>3, <4>1, <4>2 DEF ShownUpTo, kept
        <4> QED
          BY <1>6, <1>7, <1>8, <2>1, <2>6, <3>1, <4>2, <4>3, PageContinues DEF seen
      <3> QED
        BY <3>2, <3>3
    <2>7. WalkSound'
      BY <1>3, <2>2, <2>6 DEF WalkSound
    <2> QED
      BY <1>4, <2>5, <2>7 DEF WalkInv
  <1> QED
    BY <1>9, <1>10

\* A walk is sound in every state: the history is in the pager's order unless
\* conversions were recorded in another order than stamped.
LEMMA WalkInvariant == Spec => []WalkInv
  <1>1. Init => WalkInv
    <2> SUFFICES ASSUME Init PROVE WalkInv
      OBVIOUS
    <2> DEFINE old(i) == [id |-> Old[i], ts |-> 0, source |-> "cross", status |-> "success"]
    <2>1. /\ recent = [i \in DOMAIN Old |-> old(i)] /\ walk = NoWalk /\ inverted = ~Descending(recent)
      BY DEF Init
    <2>2. Len(Old) \in Nat /\ DOMAIN Old = 1..Len(Old) /\ \A i \in 1..Len(Old) : Old[i] \in Nat \ Jobs
      BY ObservabilityAssumption
    <2>3. \A i \in 1..Len(Old) : old(i) \in RecentRecord /\ old(i).id = Old[i] /\ old(i).ts = 0
      BY <2>2 DEF RecentRecord, Statuses
    <2> HIDE DEF old
    <2>4. recent \in [1..Len(Old) -> RecentRecord] /\ \A i \in 1..Len(Old) : recent[i] = old(i)
      BY <2>1, <2>2, <2>3
    <2>5. recent \in Seq(RecentRecord) /\ Len(recent) = Len(Old)
      BY <2>2, <2>4
    <2>6. Faithful(job, recent)
      BY <2>2, <2>3, <2>4, <2>5 DEF Faithful, Recorded, Position
    <2>7. HistorySound
      BY <2>1, <2>5, <2>6 DEF HistorySound
    <2>8. WalkShape
      <3>1. <<>> \in Seq(Nat)
        OBVIOUS
      <3> QED
        BY <2>1, <3>1 DEF WalkShape, NoWalk
    <2>9. WalkSound
      BY <2>1 DEF WalkSound, NoWalk
    <2> QED
      BY <2>7, <2>8, <2>9 DEF WalkInv
  <1>2. WalkInv /\ ProgressInv /\ [Next]_vars => WalkInv'
    <2> SUFFICES ASSUME WalkInv, ProgressInv, [Next]_vars PROVE WalkInv'
      OBVIOUS
    <2>1. JobTypes
      BY DEF ProgressInv
    <2>2. ASSUME NEW j \in Jobs, JobStep(j) \/ WorkerLine(j) PROVE WalkInv'
      BY <2>1, <2>2, UnrecordedStep, WalkFrame, RecordStep
    <2>3. CASE UNCHANGED <<job, recent, walk, inverted>>
      <3>1. RecordedStays
        BY <2>3 DEF RecordedStays
      <3> QED
        BY <2>3, <3>1, WalkFrame
    <2>4. ASSUME NEW j \in Jobs, HandleStderrLine(j) PROVE UNCHANGED <<job, recent, walk, inverted>>
      BY <2>4 DEF HandleStderrLine
    <2>5. Read \/ Tick \/ UNCHANGED vars => UNCHANGED <<job, recent, walk, inverted>>
      BY DEF Read, Tick, vars
    <2> QED
      BY <2>1, <2>2, <2>3, <2>4, <2>5, NextPageStep DEF Next
  <1> QED
    BY <1>1, <1>2, ProgressInvariant, PTL DEF Spec

\* A walk through the pages of the history that met no stale cursor has shown
\* each record at most once and each matching one that stayed in the buffer,
\* whatever was recorded and evicted meanwhile, for any page size, any size of
\* the buffer and any history, if records are inserted in the order of their
\* stamps (Paginate's comparison of pairs, RecentStore.Record's trim).
THEOREM WalksAlwaysComplete == Spec => []WalkComplete
  <1>1. WalkInv => WalkComplete
    <2> SUFFICES ASSUME WalkInv, walk.at = "done", ~inverted
                 PROVE  IsInjective(walk.seen) /\ walk.kept \subseteq Range(walk.seen)
      BY DEF WalkComplete
    <2>1. /\ ShownUpTo(job, walk.seen, walk.kept, walk.cursor) /\ walk.cursor = NoCursor
          /\ walk.seen \in Seq(Nat)
      BY DEF WalkInv, WalkSound, WalkShape
    <2>2. DOMAIN walk.seen = 1..Len(walk.seen)
      BY <2>1
    <2> QED
      BY <2>1, <2>2 DEF ShownUpTo, Range
  <1> QED
    BY <1>1, WalkInvariant, PTL
=============================================================================
