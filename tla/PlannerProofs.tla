--------------------------- MODULE PlannerProofs ---------------------------
(***************************************************************************)
(* The plan, and its rendering by one-shot workers.                        *)
(*                                                                         *)
(* Planner: PlanCovers for every document, every set of seams and all      *)
(* settings.  The invariant says, for each of the loops, how far the       *)
(* chunks made so far reach: to the group being formed, or to the cursor.  *)
(*                                                                         *)
(* Subdivision: for every plan.  TreeInv describes the tree of halvings,   *)
(* to any depth, and bounds the processes level by level.  FileInv says    *)
(* whose pages each file holds as long as no chunk is halved twice.        *)
(***************************************************************************)
EXTENDS Planner, Subdivision, FiniteSetTheorems, SequenceTheorems, WellFoundedInduction, TLAPS

\* groupSeams: the chunks end where the group begins, the group where the
\* last seam read ends.
Grouping ==
    /\ seams # <<>>
    /\ k = 1 => chunks = <<>> /\ pending = <<>>
    /\ k > 1 => /\ pending # <<>>
                /\ Len(pending) = 1
                /\ pending[1].from <= pending[1].to
                /\ pending[1].from \in Nat \ {0}
                /\ pending[1].to = seams[k - 1].to
                /\ Tiles(chunks, pending[1].from - 1)

\* What the chunks cover at each place of the code.
Reach ==
    /\ seams # <<>> => Tiles(seams, pages)
    /\ pc \in {"size", "plan", "seams", "balance"} => cursor = 1
    /\ pc \in {"size", "plan"} => chunks = <<>> /\ pending = <<>> /\ k = 1
    /\ pc = "seams" => Grouping
    /\ pc = "balance" => Tiles(chunks, pages)
    /\ pc \in {"split", "grow"} => /\ cursor \in Nat \ {0}
                                   /\ cursor <= pages + 1
                                   /\ Tiles(chunks, cursor - 1)
    /\ pc = "grow" => cursor <= end /\ end <= pages
    /\ pc = "done" => Tiles(chunks, pages)

IInv == TypeOK /\ Reach

-----------------------------------------------------------------------------
(* Tilings.                                                                *)

\* No chunks cover no pages.
LEMMA TilesEmpty == Tiles(<<>>, 0)
  BY DEF Tiles

\* A tiling grows by a range that starts where it ends.
LEMMA TilesAppend ==
  ASSUME NEW cs \in Seq(PageRange), NEW n \in Nat, Tiles(cs, n),
         NEW c \in PageRange, c.from = n + 1, c.from <= c.to
  PROVE  Tiles(Append(cs, c), c.to)
  <1> DEFINE ds == Append(cs, c)
             m == Len(cs)
  <1>1. /\ m \in Nat /\ Len(ds) = m + 1
        /\ \A i \in 1..m : ds[i] = cs[i]
        /\ ds[m + 1] = c
        /\ ds # <<>>
    OBVIOUS
  <1>2. ASSUME NEW i \in 1..(m + 1)
        PROVE  /\ ds[i].from = IF i = 1 THEN 1 ELSE ds[i - 1].to + 1
               /\ ds[i].from <= ds[i].to
    <2>1. CASE i \in 1..m
      <3>1. ds[i] = cs[i] /\ (i # 1 => ds[i - 1] = cs[i - 1])
        BY <1>1, <2>1
      <3>2. /\ cs[i].from = IF i = 1 THEN 1 ELSE cs[i - 1].to + 1
            /\ cs[i].from <= cs[i].to
        BY <2>1 DEF Tiles
      <3> QED
        BY <3>1, <3>2
    <2>2. CASE i = m + 1
      <3>1. CASE m = 0
        <4>1. cs = <<>>
          BY <3>1
        <4>2. n = 0
          BY <4>1 DEF Tiles
        <4> QED
          BY <1>1, <2>2, <3>1, <4>2
      <3>2. CASE m # 0
        <4>1. cs # <<>> /\ m \in 1..m
          BY <1>1, <3>2
        <4>2. n = cs[m].to
          BY <4>1 DEF Tiles
        <4>3. ds[i - 1] = cs[m] /\ i # 1 /\ ds[i] = c
          BY <1>1, <2>2, <4>1
        <4> QED
          BY <4>2, <4>3
      <3> QED
        BY <3>1, <3>2
    <2> QED
      BY <1>1, <2>1, <2>2
  <1>3. ds[Len(ds)].to = c.to
    BY <1>1
  <1> HIDE DEF ds
  <1>4. Tiles(ds, c.to)
    BY <1>1, <1>2, <1>3 DEF Tiles
  <1> QED
    BY <1>4 DEF ds

\* Where the seams of a tiling start and end.
LEMMA TilesAt ==
  ASSUME NEW cs \in Seq(PageRange), NEW n \in Nat, Tiles(cs, n), cs # <<>>
  PROVE  /\ cs[1].from = 1
         /\ cs[Len(cs)].to = n
         /\ \A i \in 1..Len(cs) : cs[i].from <= cs[i].to
         /\ \A i \in 2..Len(cs) : cs[i].from = cs[i - 1].to + 1
  <1>1. Len(cs) \in Nat /\ Len(cs) >= 1
    OBVIOUS
  <1> QED
    BY <1>1 DEF Tiles

-----------------------------------------------------------------------------
\* The invariant holds before anything is planned.
LEMMA InvInit == Init => IInv
  <1> SUFFICES ASSUME Init PROVE IInv
    OBVIOUS
  <1>1. PICK p \in Probes : pages = p.pages /\ cost = p.cost /\ seams = p.seams
    BY DEF Init
  <1>2. /\ pages \in Nat /\ cost \in Nat /\ seams \in Seq(PageRange)
        /\ seams # <<>> => Tiles(seams, pages)
    BY <1>1, PlannerAssumption
  <1>3. TypeOK
    <2>1. /\ chunks \in Seq(PageRange) /\ pending \in Seq(PageRange)
          /\ Len(pending) <= 1
      BY DEF Init
    <2>2. k \in 1..(Len(seams) + 1)
      BY <1>2, SMT DEF Init
    <2>3. natural \in BOOLEAN /\ replanned \in BOOLEAN
      BY DEF Init
    <2> QED
      BY <1>2, <2>1, <2>2, <2>3 DEF Init, TypeOK
  <1>4. Reach
    BY <1>2 DEF Init, Reach
  <1> QED
    BY <1>3, <1>4 DEF IInv

\* AdaptiveMaxPages and the caps give a number.
LEMMA AdaptTypes ==
  ASSUME TypeOK
  PROVE  AtLeast(AtMost(AdaptiveMaxPages, lim.maxPages), lim.least) \in Nat
  <1>1. /\ lim.parallel \in Nat \ {0} /\ lim.budget \in Nat /\ lim.ceiling \in Nat
        /\ lim.maxPages \in Nat /\ lim.least \in Nat
        /\ pages \in Nat /\ cost \in Nat
        /\ MinPagesFloor \in Nat /\ MinChunks \in Nat \ {0}
    BY PlannerAssumption DEF TypeOK
  <1> DEFINE d == AtLeast(MinChunks, lim.parallel)
             r == (lim.budget * pages) \div cost
             q == pages \div d
  <1>2. d \in Nat \ {0}
    BY <1>1 DEF AtLeast
  <1>3. lim.budget * pages \in Nat
    BY <1>1
  <1>4. cost # 0 => r \in Nat
    BY <1>1, <1>3, SMT
  <1> HIDE DEF d
  <1>5. q \in Nat
    BY <1>1, <1>2, SMT
  <1> HIDE DEF r, q
  <1>6. \/ AdaptiveMaxPages = MinPagesFloor
        \/ AdaptiveMaxPages = lim.ceiling
        \/ /\ cost # 0
           /\ AdaptiveMaxPages = AtLeast(AtMost(IF pages > MinPagesFloor THEN AtMost(r, q)
                                                ELSE r, lim.ceiling), MinPagesFloor)
    BY Zenon DEF AdaptiveMaxPages, r, q, d
  <1>7. AdaptiveMaxPages \in Nat
    BY <1>1, <1>4, <1>5, <1>6 DEF AtLeast, AtMost
  <1> QED
    BY <1>1, <1>7 DEF AtLeast, AtMost

-----------------------------------------------------------------------------
(* The loops.                                                              *)

\* ConvertJob computes effMaxPages; the plan is still empty.
LEMMA AdaptStep == IInv /\ Adapt => IInv'
  <1> SUFFICES ASSUME IInv, Adapt PROVE IInv'
    OBVIOUS
  <1>1. TypeOK'
    BY AdaptTypes DEF IInv, Adapt, TypeOK, probeVars, loopVars
  <1>2. Reach'
    BY DEF IInv, Reach, Adapt, probeVars, loopVars
  <1> QED
    BY <1>1, <1>2 DEF IInv

\* PlanChunks picks a loop; both start with no chunk.
LEMMA PlanChunksStep == IInv /\ PlanChunks => IInv'
  <1> SUFFICES ASSUME IInv, PlanChunks PROVE IInv'
    OBVIOUS
  <1> USE DEF PlanChunks, probeVars, loopVars
  <1>1. /\ TypeOK /\ Reach /\ pages \in Nat
        /\ UNCHANGED <<pages, cost, seams, lim, eff, chunks, natural, k, pending,
                      cursor, end, replanned>>
    BY DEF IInv, TypeOK
  <1>2. TypeOK'
    BY <1>1 DEF TypeOK
  <1>3. chunks = <<>> /\ pending = <<>> /\ k = 1 /\ cursor = 1
    BY <1>1 DEF Reach
  <1>4. Tiles(chunks, 0) /\ cursor - 1 = 0 /\ cursor <= pages + 1
    BY <1>1, <1>3, TilesEmpty
  <1>5. CASE pages = 0
    BY <1>1, <1>2, <1>3, <1>4, <1>5 DEF Reach, IInv
  <1>6. CASE pages # 0 /\ seams # <<>>
    <2>1. Grouping'
      BY <1>1, <1>3, <1>6 DEF Grouping
    <2> QED
      BY <1>1, <1>2, <1>3, <1>6, <2>1 DEF Reach, IInv
  <1>7. CASE pages # 0 /\ seams = <<>>
    BY <1>1, <1>2, <1>3, <1>4, <1>7 DEF Reach, IInv
  <1> QED
    BY <1>2, <1>5, <1>6, <1>7 DEF IInv

\* One iteration of groupSeams: the seam extends the group, or the group
\* becomes a chunk and the seam the next group.
LEMMA GroupSeamStep == IInv /\ GroupSeam => IInv'
  <1> SUFFICES ASSUME IInv, GroupSeam PROVE IInv'
    OBVIOUS
  <1> DEFINE s == seams[k]
  <1>1. /\ TypeOK /\ Reach /\ Grouping
        /\ pc = "seams" /\ k <= Len(seams) /\ k' = k + 1
        /\ UNCHANGED <<pages, cost, seams, lim, pc, eff, natural, cursor, end, replanned>>
    BY DEF IInv, Reach, GroupSeam, probeVars
  <1>2. /\ seams \in Seq(PageRange) /\ pages \in Nat /\ seams # <<>>
        /\ chunks \in Seq(PageRange) /\ pending \in Seq(PageRange)
        /\ Tiles(seams, pages) /\ k \in 1..Len(seams) /\ k \in Nat /\ Len(seams) \in Nat
    BY <1>1 DEF TypeOK, Grouping, Reach
  <1>3. s \in PageRange /\ s.from \in Nat /\ s.to \in Nat
    <2>1. s \in PageRange
      BY <1>2
    <2> QED
      BY <2>1 DEF PageRange
  <1>4. s.from <= s.to /\ (k = 1 => s.from = 1) /\ (k > 1 => s.from = seams[k - 1].to + 1)
    BY <1>2, TilesAt
  <1>5. k > 1 => /\ pending # <<>> /\ Len(pending) = 1
                 /\ pending[1] \in PageRange
                 /\ pending[1].from \in Nat \ {0} /\ pending[1].to \in Nat
                 /\ pending[1].from <= pending[1].to
                 /\ pending[1].to + 1 = s.from
                 /\ Tiles(chunks, pending[1].from - 1)
    <2> SUFFICES ASSUME k > 1
                 PROVE  /\ pending # <<>> /\ Len(pending) = 1
                        /\ pending[1] \in PageRange
                        /\ pending[1].from \in Nat \ {0} /\ pending[1].to \in Nat
                        /\ pending[1].from <= pending[1].to
                        /\ pending[1].to + 1 = s.from
                        /\ Tiles(chunks, pending[1].from - 1)
      OBVIOUS
    <2>1. /\ pending # <<>> /\ Len(pending) = 1
          /\ pending[1].from \in Nat \ {0}
          /\ pending[1].from <= pending[1].to
          /\ pending[1].to + 1 = s.from
          /\ Tiles(chunks, pending[1].from - 1)
      BY <1>1, <1>4 DEF Grouping
    <2>2. pending[1] \in PageRange
      BY <1>2, <2>1
    <2>3. pending[1].to \in Nat
      BY <2>2 DEF PageRange
    <2> QED
      BY <2>1, <2>2, <2>3
  <1>6. \/ k = 1 /\ pending' = <<s>> /\ chunks' = chunks
        \/ /\ k > 1
           /\ pending' = <<[from |-> pending[1].from, to |-> s.to]>>
           /\ chunks' = chunks
        \/ k > 1 /\ chunks' = Append(chunks, pending[1]) /\ pending' = <<s>>
    <2>1. k = 1 \/ k > 1
      BY <1>2
    <2>2. k = 1 => pending = <<>>
      BY <1>1 DEF Grouping
    <2> QED
      BY <1>5, <2>1, <2>2 DEF GroupSeam, NextGroup
  <1>7. /\ chunks' \in Seq(PageRange)
        /\ pending' \in Seq(PageRange) /\ Len(pending') = 1 /\ pending' # <<>>
        /\ pending'[1].from \in Nat \ {0}
        /\ pending'[1].from <= pending'[1].to
        /\ pending'[1].to = s.to
        /\ Tiles(chunks', pending'[1].from - 1)
    <2>1. CASE k = 1 /\ pending' = <<s>> /\ chunks' = chunks
      <3>1. chunks = <<>>
        BY <1>1, <2>1 DEF Grouping
      <3>2. Tiles(chunks', 0)
        BY <2>1, <3>1, TilesEmpty
      <3>3. pending'[1] = s /\ s.from = 1 /\ s.from - 1 = 0
        BY <1>4, <2>1
      <3> QED
        BY <1>2, <1>3, <1>4, <2>1, <3>2, <3>3
    <2>2. CASE /\ k > 1
               /\ pending' = <<[from |-> pending[1].from, to |-> s.to]>>
               /\ chunks' = chunks
      <3>1. [from |-> pending[1].from, to |-> s.to] \in PageRange
        BY <1>3, <1>5, <2>2 DEF PageRange
      <3>2. pending'[1].from = pending[1].from /\ pending'[1].to = s.to
        BY <2>2
      <3>3. pending[1].from <= s.to
        BY <1>3, <1>4, <1>5, <2>2
      <3> QED
        BY <1>2, <1>5, <2>2, <3>1, <3>2, <3>3
    <2>3. CASE k > 1 /\ chunks' = Append(chunks, pending[1]) /\ pending' = <<s>>
      <3> DEFINE g == pending[1]
                 n == g.from - 1
      <3>1. /\ g \in PageRange /\ n \in Nat /\ g.from = n + 1
            /\ g.from <= g.to /\ Tiles(chunks, n)
        BY <1>5, <2>3
      <3>2. g.to = s.from - 1 /\ pending'[1] = s /\ s.from \in Nat \ {0}
        BY <1>3, <1>5, <2>3
      <3>3. chunks' = Append(chunks, g)
        BY <2>3
      <3> HIDE DEF g, n
      <3>4. Tiles(Append(chunks, g), g.to)
        BY <1>2, <3>1, TilesAppend
      <3>5. Tiles(chunks', pending'[1].from - 1)
        BY <3>2, <3>3, <3>4
      <3> QED
        BY <1>2, <1>3, <1>4, <2>3, <3>1, <3>2, <3>3, <3>5
    <2> QED
      BY <1>6, <2>1, <2>2, <2>3
  <1>8. TypeOK'
    <2>1. k' \in 1..(Len(seams') + 1)
      BY <1>1, <1>2
    <2> QED
      BY <1>1, <1>7, <2>1 DEF TypeOK
  <1>9. Grouping'
    <2>1. k' > 1 /\ k' # 1 /\ seams'[k' - 1] = s
      BY <1>1, <1>2
    <2> QED
      BY <1>1, <1>2, <1>7, <2>1 DEF Grouping
  <1>10. Reach'
    BY <1>1, <1>9 DEF Reach
  <1> QED
    BY <1>8, <1>10 DEF IInv

\* The last group completes the cover.
LEMMA EndSeamsStep == IInv /\ EndSeams => IInv'
  <1> SUFFICES ASSUME IInv, EndSeams PROVE IInv'
    OBVIOUS
  <1>1. /\ TypeOK /\ Reach /\ Grouping
        /\ k > Len(seams) /\ pc' = "balance" /\ natural' = TRUE
        /\ chunks' = chunks \o pending /\ pending' = <<>>
        /\ UNCHANGED <<pages, cost, seams, lim, eff, k, cursor, end, replanned>>
    BY DEF IInv, Reach, EndSeams, probeVars
  <1>2. /\ seams \in Seq(PageRange) /\ pages \in Nat /\ seams # <<>>
        /\ chunks \in Seq(PageRange) /\ pending \in Seq(PageRange)
        /\ Tiles(seams, pages) /\ k = Len(seams) + 1 /\ k > 1
    BY <1>1 DEF TypeOK, Grouping, Reach
  <1> DEFINE g == pending[1]
             n == g.from - 1
  <1>3. /\ pending # <<>> /\ Len(pending) = 1 /\ g \in PageRange
        /\ n \in Nat /\ g.from = n + 1 /\ g.from <= g.to
        /\ g.to = seams[k - 1].to /\ Tiles(chunks, n)
    <2>1. /\ pending # <<>> /\ Len(pending) = 1 /\ g.from \in Nat \ {0}
          /\ g.from <= g.to /\ g.to = seams[k - 1].to /\ Tiles(chunks, n)
      BY <1>1, <1>2 DEF Grouping
    <2>2. g \in PageRange
      BY <1>2, <2>1
    <2>3. n \in Nat /\ g.from = n + 1
      BY <2>1
    <2> QED
      BY <2>1, <2>2, <2>3
  <1>4. g.to = pages
    <2>1. seams[Len(seams)].to = pages
      BY <1>2, TilesAt
    <2> QED
      BY <1>2, <1>3, <2>1
  <1>5. pending = <<g>>
    BY <1>2, <1>3
  <1> HIDE DEF g, n
  <1>6. chunks' = Append(chunks, g)
    BY <1>1, <1>2, <1>3, <1>5
  <1>7. Tiles(Append(chunks, g), g.to)
    BY <1>2, <1>3, TilesAppend
  <1>8. Tiles(chunks', pages)
    BY <1>4, <1>6, <1>7
  <1>9. TypeOK'
    <2>1. chunks' \in Seq(PageRange)
      BY <1>2, <1>3, <1>6
    <2>2. pending' \in Seq(PageRange) /\ Len(pending') <= 1
      BY <1>1
    <2> QED
      BY <1>1, <2>1, <2>2 DEF TypeOK
  <1>10. Reach'
    <2>1. cursor' = 1 /\ (seams' # <<>> => Tiles(seams', pages'))
      BY <1>1, <1>2 DEF Reach, EndSeams
    <2> QED
      BY <1>1, <1>8, <2>1 DEF Reach
  <1> QED
    BY <1>9, <1>10 DEF IInv

\* The seam plan is kept whole or dropped whole.
LEMMA BalanceStep == IInv /\ Balance => IInv'
  <1> SUFFICES ASSUME IInv, Balance PROVE IInv'
    OBVIOUS
  <1>1. /\ TypeOK /\ Reach /\ pc = "balance" /\ pages \in Nat
        /\ cursor = 1 /\ Tiles(chunks, pages)
        /\ UNCHANGED <<pages, cost, seams, lim, eff, k, pending, cursor, end, replanned>>
    BY DEF IInv, Reach, Balance, TypeOK, probeVars, loopVars
  <1>2. \/ pc' = "done" /\ chunks' = chunks /\ natural' = natural
        \/ pc' = "split" /\ chunks' = <<>> /\ natural' = FALSE
    BY DEF Balance
  <1>3. TypeOK'
    <2>0. chunks \in Seq(PageRange) /\ <<>> \in Seq(PageRange)
      BY <1>1 DEF TypeOK
    <2>1. chunks' \in Seq(PageRange)
      BY <1>2, <2>0, Zenon
    <2>2. natural' \in BOOLEAN
      BY <1>1, <1>2, Zenon DEF TypeOK
    <2> QED
      BY <1>1, <1>2, <2>1, <2>2 DEF TypeOK
  <1>4. Reach'
    <2>1. cursor - 1 = 0 /\ cursor <= pages + 1
      BY <1>1
    <2> QED
      BY <1>1, <1>2, <2>1, TilesEmpty DEF Reach
  <1> QED
    BY <1>3, <1>4 DEF IInv

\* The outer loop of pageRangeSplit ends only behind the last page.
LEMMA SplitStep == IInv /\ Split => IInv'
  <1> SUFFICES ASSUME IInv, Split PROVE IInv'
    OBVIOUS
  <1>1. /\ TypeOK /\ Reach /\ pc = "split" /\ pages \in Nat
        /\ cursor \in Nat \ {0} /\ cursor <= pages + 1 /\ Tiles(chunks, cursor - 1)
        /\ UNCHANGED <<pages, cost, seams, lim, eff, chunks, natural, k, pending,
                      cursor, replanned>>
    BY DEF IInv, Reach, Split, TypeOK, probeVars
  <1>2. CASE cursor <= pages
    <2>1. pc' = "grow" /\ end' = cursor /\ cursor <= cursor
      BY <1>1, <1>2 DEF Split
    <2>2. TypeOK'
      BY <1>1, <2>1 DEF TypeOK
    <2>3. Reach'
      BY <1>1, <1>2, <2>1 DEF Reach
    <2> QED
      BY <2>2, <2>3 DEF IInv
  <1>3. CASE ~(cursor <= pages)
    <2>1. pc' = "done" /\ end' = end /\ cursor - 1 = pages
      BY <1>1, <1>3 DEF Split
    <2>2. TypeOK'
      BY <1>1, <2>1 DEF TypeOK
    <2>3. Tiles(chunks', pages')
      BY <1>1, <2>1
    <2>4. Reach'
      BY <1>1, <2>1, <2>3 DEF Reach
    <2> QED
      BY <2>2, <2>4 DEF IInv
  <1> QED
    BY <1>2, <1>3

\* The inner loop stays within the document; its chunk starts at the cursor.
LEMMA GrowStep == IInv /\ Grow => IInv'
  <1> SUFFICES ASSUME IInv, Grow PROVE IInv'
    OBVIOUS
  <1>1. /\ TypeOK /\ Reach /\ pc = "grow" /\ pages \in Nat /\ end \in Nat
        /\ chunks \in Seq(PageRange)
        /\ cursor \in Nat \ {0} /\ cursor <= end /\ end <= pages
        /\ Tiles(chunks, cursor - 1)
        /\ UNCHANGED <<pages, cost, seams, lim, eff, natural, k, pending, replanned>>
    BY DEF IInv, Reach, Grow, TypeOK, probeVars
  <1>2. CASE Grows
    <2>1. /\ end' = end + 1 /\ UNCHANGED <<pc, chunks, cursor>> /\ end + 1 <= pages
      BY <1>2 DEF Grow, Grows
    <2>2. TypeOK'
      BY <1>1, <2>1 DEF TypeOK
    <2>3. end' <= pages' /\ cursor' <= end'
      BY <1>1, <2>1
    <2>4. Reach'
      BY <1>1, <2>1, <2>3 DEF Reach
    <2> QED
      BY <2>2, <2>4 DEF IInv
  <1>3. CASE ~Grows
    <2> DEFINE c == [from |-> cursor, to |-> end]
               n == cursor - 1
    <2>1. /\ chunks' = Append(chunks, c) /\ cursor' = end + 1
          /\ pc' = "split" /\ end' = end
      BY <1>3 DEF Grow, Complete
    <2>2. /\ c \in PageRange /\ n \in Nat /\ c.from = n + 1
          /\ c.from <= c.to /\ c.to = end /\ Tiles(chunks, n)
      BY <1>1 DEF PageRange
    <2> HIDE DEF c, n
    <2>3. Tiles(Append(chunks, c), c.to)
      BY <1>1, <2>2, TilesAppend
    <2>4. cursor' \in Nat \ {0} /\ cursor' <= pages' + 1 /\ cursor' - 1 = end
      BY <1>1, <2>1
    <2>5. Tiles(chunks', cursor' - 1)
      BY <2>1, <2>2, <2>3, <2>4
    <2>6. TypeOK'
      <3>1. chunks' \in Seq(PageRange)
        BY <1>1, <2>1, <2>2
      <3> QED
        BY <1>1, <2>1, <2>4, <3>1 DEF TypeOK
    <2>7. Reach'
      BY <1>1, <2>1, <2>4, <2>5 DEF Reach
    <2> QED
      BY <2>6, <2>7 DEF IInv
  <1> QED
    BY <1>2, <1>3

\* dispatchPool starts over with another page count and no seams.
LEMMA ReplanStep == IInv /\ Replan => IInv'
  <1> SUFFICES ASSUME IInv, Replan PROVE IInv'
    OBVIOUS
  <1>1. pages' \in Nat
    BY PlannerAssumption DEF Replan
  <1>2. TypeOK'
    <2>1. /\ seams' \in Seq(PageRange) /\ chunks' \in Seq(PageRange)
          /\ pending' \in Seq(PageRange) /\ Len(pending') <= 1
          /\ k' \in 1..(Len(seams') + 1)
      BY DEF Replan
    <2>2. natural' \in BOOLEAN /\ replanned' \in BOOLEAN
      BY DEF Replan
    <2> QED
      BY <1>1, <2>1, <2>2 DEF IInv, TypeOK, Replan
  <1>3. Reach'
    BY DEF Replan, Reach
  <1> QED
    BY <1>2, <1>3 DEF IInv

\* Every step keeps the invariant.
LEMMA InvStep == IInv /\ [Next]_vars => IInv'
  <1>1. IInv /\ UNCHANGED vars => IInv'
    BY DEF vars, probeVars, loopVars, IInv, TypeOK, Reach, Grouping
  <1> QED
    BY <1>1, AdaptStep, PlanChunksStep, GroupSeamStep, EndSeamsStep, BalanceStep,
       SplitStep, GrowStep, ReplanStep DEF Next, Step, Terminated

-----------------------------------------------------------------------------
\* The planner's variables keep their types, for all documents and settings.
THEOREM PlannerTypeOK == Spec => []TypeOK
  <1>1. IInv => TypeOK
    BY DEF IInv
  <1> QED
    BY <1>1, InvInit, InvStep, PTL DEF Spec

\* PlanChunks covers every page of the document exactly once and in order,
\* along seams, by page ranges or planned again, for all documents and
\* settings, also those under which not even one page fits.
THEOREM PlanAlwaysCovers == Spec => []PlanCovers
  <1>1. IInv => PlanCovers
    BY DEF IInv, Reach, PlanCovers
  <1> QED
    BY <1>1, InvInit, InvStep, PTL DEF Spec

-----------------------------------------------------------------------------
(* The greedy plan.  The second invariant adds what a chunk holds: a group *)
(* of seams that could not take the next one, or PerChunk pages.           *)

\* effMaxPages from the probe's page count: within the floors, or within the
\* share of a worker.
SizeSound ==
    pc # "size" /\ ~replanned =>
        \/ eff <= AtLeast(MinPagesFloor, lim.least)
        \/ eff * cost <= lim.budget * pages

\* Only a plan along seams carries the NaturalSeam flag.
FlagSound ==
    /\ pc \in {"size", "plan", "seams", "split", "grow"} => ~natural
    /\ pc = "balance" => natural
    /\ natural => pages # 0 /\ seams # <<>>

\* Seams a to b, of which the last could not take the next one.
IsGroup(c) ==
    \E a, b \in 1..Len(seams) :
        /\ c.from = seams[a].from /\ c.to = seams[b].to
        /\ a < b => Fits(Span(c))
        /\ b < Len(seams) => ~Fits(Span(c) + Span(seams[b + 1]))

\* The group being formed: seams a to k - 1.
IsPending(g) ==
    \E a \in 1..Len(seams) :
        /\ a < k
        /\ g.from = seams[a].from /\ g.to = seams[k - 1].to
        /\ a < k - 1 => Fits(Span(g))

SeamsSound ==
    /\ pc \in {"seams", "balance"} => /\ pages # 0
                                      /\ \A i \in 1..Len(chunks) : IsGroup(chunks[i])
    /\ pc = "seams" /\ k > 1 => IsPending(pending[1])
    /\ pc = "done" /\ natural => SeamsGreedy

\* The chunks of a page-range plan so far.
AreRanges ==
    \A i \in 1..Len(chunks) :
        chunks[i] = [from |-> (i - 1) * PerChunk + 1, to |-> AtMost(i * PerChunk, pages)]

RangesSound ==
    /\ pc \in {"split", "grow"} => AreRanges /\ Len(chunks) * PerChunk < pages + PerChunk
    /\ pc = "split" => cursor = AtMost(Len(chunks) * PerChunk, pages) + 1
    /\ pc = "grow" => cursor = Len(chunks) * PerChunk + 1 /\ end < cursor + PerChunk
    /\ pc = "done" /\ ~natural => RangesGreedy

GreedyInv == IInv /\ SizeSound /\ FlagSound /\ SeamsSound /\ RangesSound

-----------------------------------------------------------------------------
(* Arithmetic.                                                             *)

\* Division rounds down.
LEMMA DivBound ==
  ASSUME NEW a \in Nat, NEW b \in Nat, NEW c \in Nat \ {0}
  PROVE  /\ b \div c \in Nat
         /\ a <= b \div c <=> a * c <= b
  <1> DEFINE q == b \div c
             r == b % c
  <1>1. /\ q \in Nat /\ r \in Nat /\ r < c
        /\ b = c * q + r
    BY SMT
  <1> HIDE DEF q, r
  <1>2. CASE a <= q
    <2>1. a * c <= q * c
      BY <1>1, <1>2, SMT
    <2> QED
      BY <1>1, <1>2, <2>1, SMT DEF q
  <1>3. CASE a > q
    <2>1. a * c >= (q + 1) * c
      BY <1>1, <1>3, SMT
    <2>2. (q + 1) * c = c * q + c
      BY <1>1, SMT
    <2>3. a * c > b
      BY <1>1, <2>1, <2>2, SMT
    <2> QED
      BY <1>1, <1>3, <2>3, SMT DEF q
  <1> QED
    BY <1>1, <1>2, <1>3

\* A multiple of the chunk size and the next one.
LEMMA Multiples ==
  ASSUME NEW m \in Nat, NEW p \in Nat
  PROVE  /\ m * p \in Nat /\ (m + 1) * p = m * p + p /\ (m + 1) * p \in Nat
         /\ 0 * p = 0 /\ (m + 1 - 1) * p = m * p
  BY SMT

\* The number of chunks of p pages that n pages need.
LEMMA CeilDiv ==
  ASSUME NEW m \in Nat, NEW p \in Nat \ {0}, NEW n \in Nat,
         n <= m * p, m * p < n + p
  PROVE  m = (n + p - 1) \div p
  <1> DEFINE b == n + p - 1
             q == b \div p
  <1>1. b \in Nat /\ m * p \in Nat /\ m * p <= b
    BY Multiples, SMT
  <1>2. (m + 1) * p = m * p + p
    BY Multiples
  <1>3. ~((m + 1) * p <= b)
    BY <1>1, <1>2, SMT
  <1> HIDE DEF b
  <1>4. q \in Nat /\ m <= q /\ ~(m + 1 <= q)
    BY <1>1, <1>3, DivBound
  <1> HIDE DEF q
  <1>5. m = q
    BY <1>4
  <1> QED
    BY <1>5 DEF q, b

\* A factor that is not 0 can be dropped on both sides.
LEMMA DropFactor ==
  ASSUME NEW x \in Nat, NEW y \in Nat, NEW n \in Nat \ {0}, x * n <= y * n
  PROVE  x <= y
  <1>1. CASE x > y
    <2>1. x * n >= (y + 1) * n
      BY <1>1, SMT
    <2>2. (y + 1) * n = y * n + n
      BY Multiples
    <2> QED
      BY <2>1, <2>2, SMT
  <1> QED
    BY <1>1

\* More pages cost more.
LEMMA CostMonotone ==
  ASSUME NEW a \in Nat, NEW b \in Nat, NEW c \in Nat, a <= b
  PROVE  a * c <= b * c /\ a * c \in Nat /\ b * c \in Nat
  BY SMT

\* The settings and the probe result are numbers.
LEMMA Numbers ==
  ASSUME TypeOK
  PROVE  /\ lim.parallel \in Nat \ {0} /\ lim.budget \in Nat /\ lim.ceiling \in Nat
         /\ lim.maxPages \in Nat /\ lim.least \in Nat /\ lim.maxMB \in Nat
         /\ pages \in Nat /\ cost \in Nat /\ eff \in Nat
         /\ MinPagesFloor \in Nat \ {0} /\ MinChunks \in Nat \ {0}
         /\ lim.maxMB * pages \in Nat /\ lim.budget * pages \in Nat
  <1>1. /\ lim.parallel \in Nat \ {0} /\ lim.budget \in Nat /\ lim.ceiling \in Nat
        /\ lim.maxPages \in Nat /\ lim.least \in Nat /\ lim.maxMB \in Nat
        /\ pages \in Nat /\ cost \in Nat /\ eff \in Nat
        /\ MinPagesFloor \in Nat \ {0} /\ MinChunks \in Nat \ {0}
    BY PlannerAssumption DEF TypeOK
  <1> QED
    BY <1>1, SMT

\* PerChunk is the largest number of pages that fits, or 1.
LEMMA PerChunkFits ==
  ASSUME TypeOK
  PROVE  /\ PerChunk \in Nat \ {0}
         /\ \A n \in Nat : n >= 2 => (Fits(n) <=> n <= PerChunk)
         /\ PerChunk = 1 \/ PerChunk <= eff
  <1> DEFINE b == lim.maxMB * pages
             q == b \div cost
  <1>1. b \in Nat /\ cost \in Nat /\ eff \in Nat
    BY Numbers
  <1>2. CASE cost = 0
    <2>1. PerChunk = AtLeast(1, eff)
      BY <1>1, <1>2 DEF PerChunk, AtMost
    <2>2. ASSUME NEW n \in Nat PROVE Fits(n) <=> n <= eff
      <3>1. n * cost = 0
        BY <1>2
      <3> QED
        BY <1>1, <3>1 DEF Fits
    <2> QED
      BY <1>1, <2>1, <2>2 DEF AtLeast
  <1>3. CASE cost # 0
    <2> HIDE DEF b
    <2>1. q \in Nat /\ \A n \in Nat : n <= q <=> n * cost <= b
      BY <1>1, <1>3, DivBound
    <2>2. PerChunk = AtLeast(1, AtMost(eff, q))
      BY <1>3 DEF PerChunk, b
    <2>3. ASSUME NEW n \in Nat PROVE Fits(n) <=> n <= eff /\ n <= q
      BY <2>1 DEF Fits, b
    <2> HIDE DEF q
    <2> QED
      BY <1>1, <2>1, <2>2, <2>3 DEF AtLeast, AtMost
  <1> QED
    BY <1>2, <1>3

-----------------------------------------------------------------------------
(* The sum of the chunks' pages.                                           *)

\* A set of numbers has a least one: the form of induction used below.
LEMMA LeastNumber ==
  ASSUME NEW T, T \subseteq Nat, T # {}
  PROVE  \E x \in T : \A y \in T : ~(y < x)
  <1> DEFINE R == {ss \in Nat \X Nat : ss[1] < ss[2]}
  <1>1. IsWellFoundedOn(R, Nat)
    BY NatLessThanWellFounded DEF OpToRel
  <1> HIDE DEF R
  <1>2. PICK x \in T : \A y \in T : ~(<<y, x>> \in R)
    BY <1>1, WFMin
  <1>3. ASSUME NEW y \in T, y < x PROVE <<y, x>> \in R
    <2>1. y \in Nat /\ x \in Nat
      OBVIOUS
    <2> QED
      BY <1>3, <2>1 DEF R
  <1> QED
    BY <1>2, <1>3

\* The chunks of a tiling have as many pages as the document.
LEMMA TilesSum ==
  ASSUME chunks \in Seq(PageRange), Tiles(chunks, pages)
  PROVE  PlannedPages = pages
  <1> DEFINE F(f) == [i \in 0..Len(chunks) |-> IF i = 0 THEN 0 ELSE f[i - 1] + Span(chunks[i])]
             g == [i \in 0..Len(chunks) |-> IF i = 0 THEN 0 ELSE chunks[i].to]
             planned == CHOOSE f : f = F(f)
  <1>0. Len(chunks) \in Nat
    OBVIOUS
  <1>1. g = F(g)
    <2>1. ASSUME NEW i \in 0..Len(chunks) PROVE g[i] = F(g)[i]
      <3>1. CASE i = 0
        BY <3>1
      <3>2. CASE i # 0
        <4>1. i \in 1..Len(chunks) /\ i - 1 \in 0..Len(chunks)
          BY <3>2
        <4>2. chunks[i] \in PageRange /\ (i # 1 => chunks[i - 1] \in PageRange)
          BY <4>1
        <4>3. /\ chunks[i].to \in Nat /\ chunks[i].from \in Nat
              /\ i # 1 => chunks[i - 1].to \in Nat
          BY <4>2 DEF PageRange
        <4>4. chunks[i].from = IF i = 1 THEN 1 ELSE chunks[i - 1].to + 1
          BY <4>1 DEF Tiles
        <4> QED
          BY <4>1, <4>3, <4>4 DEF Span
      <3> QED
        BY <3>1, <3>2
    <2> QED
      BY <2>1
  <1>2. planned = F(planned)
    BY <1>1, Zenon
  <1>3. PlannedPages = planned[Len(chunks)]
    BY Zenon DEF PlannedPages
  <1>4. g[Len(chunks)] = pages
    <2>1. Len(chunks) = 0 <=> chunks = <<>>
      BY <1>0
    <2> QED
      BY <1>0, <2>1 DEF Tiles
  <1> DEFINE Wrong == {i \in 0..Len(chunks) : planned[i] # g[i]}
  <1>5. CASE Wrong = {}
    <2>1. Len(chunks) \in 0..Len(chunks)
      BY <1>0
    <2>2. planned[Len(chunks)] = g[Len(chunks)]
      BY <1>5, <2>1
    <2> QED
      BY <1>3, <1>4, <2>2, Zenon
  <1>6. CASE Wrong # {}
    <2>1. Wrong \subseteq Nat
      OBVIOUS
    <2> HIDE DEF g, F, planned
    <2>2. PICK i \in Wrong : \A j \in Wrong : ~(j < i)
      BY <1>6, <2>1, LeastNumber
    <2>3. i \in 0..Len(chunks) /\ planned[i] = F(planned)[i] /\ g[i] = F(g)[i]
      BY <1>1, <1>2
    <2>4. CASE i = 0
      BY <2>2, <2>3, <2>4 DEF F
    <2>5. CASE i # 0
      <3>1. i - 1 \in 0..Len(chunks) /\ i - 1 < i
        BY <2>3, <2>5
      <3>2. planned[i - 1] = g[i - 1]
        BY <2>2, <3>1
      <3>3. F(planned)[i] = F(g)[i]
        BY <2>3, <2>5, <3>2 DEF F
      <3> QED
        BY <2>2, <2>3, <3>3
    <2> QED
      BY <2>4, <2>5
  <1> QED
    BY <1>5, <1>6

\* isBalanced: each chunk exceeds neither limit by more than half.
LEMMA BalancedChunks ==
  ASSUME TypeOK, Tiles(chunks, pages), pages # 0, IsBalanced, NEW i \in 1..Len(chunks)
  PROVE  /\ 2 * Span(chunks[i]) <= 3 * eff
         /\ 2 * cost * Span(chunks[i]) <= 3 * lim.maxMB * pages
  <1>1. PlannedPages = pages
    BY TilesSum DEF TypeOK
  <1> DEFINE n == Span(chunks[i])
  <1>2. n \in Nat
    <2>1. chunks[i] \in PageRange
      BY DEF TypeOK
    <2>2. chunks[i].from \in Nat /\ chunks[i].to \in Nat
      BY <2>1 DEF PageRange
    <2>3. chunks[i].from <= chunks[i].to
      BY DEF Tiles
    <2> QED
      BY <2>2, <2>3 DEF Span
  <1>3. 2 * n <= 3 * eff /\ 2 * pages * cost * n <= 3 * lim.maxMB * pages * pages
    BY <1>1 DEF IsBalanced
  <1> HIDE DEF n
  <1> DEFINE x == 2 * cost * n
             y == 3 * lim.maxMB * pages
  <1>4. pages \in Nat \ {0} /\ cost \in Nat /\ lim.maxMB \in Nat
    BY Numbers
  <1>5. x \in Nat /\ y \in Nat /\ x * pages = 2 * pages * cost * n /\ y * pages = 3 * lim.maxMB * pages * pages
    BY <1>2, <1>4, SMT
  <1>6. x * pages <= y * pages
    BY <1>3, <1>5
  <1> HIDE DEF x, y
  <1>7. x <= y
    BY <1>4, <1>5, <1>6, DropFactor
  <1> QED
    BY <1>3, <1>7 DEF x, y, n

-----------------------------------------------------------------------------
(* The steps of the second invariant.                                      *)

\* The initial state has no plan.
LEMMA GreedyInit == Init => GreedyInv
  <1> SUFFICES ASSUME Init PROVE GreedyInv
    OBVIOUS
  <1>1. IInv
    BY InvInit
  <1>2. pc = "size" /\ ~natural
    BY DEF Init
  <1> QED
    BY <1>1, <1>2 DEF GreedyInv, SizeSound, FlagSound, SeamsSound, RangesSound

\* AdaptiveMaxPages exceeds the floor only within the share of a worker.
LEMMA AdaptiveShare ==
  ASSUME TypeOK
  PROVE  /\ AdaptiveMaxPages \in Nat
         /\ AdaptiveMaxPages <= MinPagesFloor \/ AdaptiveMaxPages * cost <= lim.budget * pages
  <1> DEFINE d == AtLeast(MinChunks, lim.parallel)
             b == lim.budget * pages
             r == b \div cost
             q == pages \div d
             optimal == IF pages > MinPagesFloor THEN AtMost(r, q) ELSE r
  <1>1. /\ MinPagesFloor \in Nat /\ lim.ceiling \in Nat /\ cost \in Nat /\ b \in Nat
        /\ pages \in Nat /\ d \in Nat \ {0}
    BY Numbers DEF AtLeast
  <1>2. CASE pages = 0
    BY <1>1, <1>2 DEF AdaptiveMaxPages
  <1>3. CASE pages # 0 /\ cost = 0
    <2>1. AdaptiveMaxPages = lim.ceiling
      BY <1>3 DEF AdaptiveMaxPages
    <2>2. lim.ceiling * cost = 0
      BY <1>1, <1>3
    <2> QED
      BY <1>1, <2>1, <2>2
  <1>4. CASE pages # 0 /\ cost # 0
    <2>1. AdaptiveMaxPages = AtLeast(AtMost(optimal, lim.ceiling), MinPagesFloor)
      BY <1>4, Zenon DEF AdaptiveMaxPages
    <2> HIDE DEF b, d
    <2>2. r \in Nat /\ \A n \in Nat : n <= r <=> n * cost <= b
      BY <1>1, <1>4, DivBound
    <2>3. q \in Nat
      BY <1>1, DivBound
    <2> HIDE DEF r, q
    <2>4. optimal \in Nat /\ optimal <= r
      BY <2>2, <2>3 DEF AtMost
    <2> HIDE DEF optimal
    <2>5. /\ AdaptiveMaxPages \in Nat
          /\ AdaptiveMaxPages <= MinPagesFloor \/ AdaptiveMaxPages <= r
      BY <1>1, <2>1, <2>2, <2>4 DEF AtLeast, AtMost
    <2> QED
      BY <2>2, <2>5 DEF b
  <1> QED
    BY <1>2, <1>3, <1>4

\* The caps of ConvertJob keep the bound, apart from the format's least size.
LEMMA GreedyAdapt == GreedyInv /\ Adapt => GreedyInv'
  <1> SUFFICES ASSUME GreedyInv, Adapt PROVE GreedyInv'
    OBVIOUS
  <1>1. /\ TypeOK /\ IInv' /\ pc = "size" /\ pc' = "plan" /\ ~natural
        /\ eff' = AtLeast(AtMost(AdaptiveMaxPages, lim.maxPages), lim.least)
        /\ UNCHANGED <<pages, cost, seams, lim, natural, replanned>>
    BY AdaptStep DEF GreedyInv, IInv, FlagSound, Adapt, probeVars
  <1> DEFINE a == AdaptiveMaxPages
  <1>2. a \in Nat /\ (a <= MinPagesFloor \/ a * cost <= lim.budget * pages)
    BY <1>1, AdaptiveShare
  <1>3. /\ lim.least \in Nat /\ lim.maxPages \in Nat /\ MinPagesFloor \in Nat
        /\ cost \in Nat /\ lim.budget * pages \in Nat
    BY <1>1, Numbers
  <1> HIDE DEF a
  <1>4. eff' \in Nat /\ (eff' <= a \/ eff' = lim.least)
    BY <1>1, <1>2, <1>3 DEF AtLeast, AtMost, a
  <1>5. eff' <= AtLeast(MinPagesFloor, lim.least) \/ eff' * cost <= lim.budget * pages
    <2>1. CASE eff' <= a /\ a * cost <= lim.budget * pages
      <3>1. eff' * cost <= a * cost /\ a * cost \in Nat /\ eff' * cost \in Nat
        BY <1>2, <1>3, <1>4, <2>1, CostMonotone
      <3> QED
        BY <1>3, <2>1, <3>1
    <2>2. CASE eff' <= a /\ a <= MinPagesFloor
      BY <1>2, <1>3, <1>4, <2>2 DEF AtLeast
    <2>3. CASE eff' = lim.least
      BY <1>3, <2>3 DEF AtLeast
    <2> QED
      BY <1>2, <1>4, <2>1, <2>2, <2>3
  <1> QED
    BY <1>1, <1>5 DEF GreedyInv, SizeSound, FlagSound, SeamsSound, RangesSound

\* Either loop starts with the empty plan, which is as it should be so far.
LEMMA GreedyPlanChunks == GreedyInv /\ PlanChunks => GreedyInv'
  <1> SUFFICES ASSUME GreedyInv, PlanChunks PROVE GreedyInv'
    OBVIOUS
  <1>1. /\ TypeOK /\ IInv' /\ pc = "plan" /\ ~natural /\ chunks = <<>> /\ k = 1 /\ cursor = 1
        /\ UNCHANGED <<pages, cost, seams, lim, eff, chunks, natural, k, pending,
                      cursor, end, replanned>>
        /\ pc' = IF pages = 0 THEN "done" ELSE IF seams # <<>> THEN "seams" ELSE "split"
    BY PlanChunksStep DEF GreedyInv, IInv, Reach, FlagSound, PlanChunks, probeVars, loopVars
  <1>2. SizeSound'
    BY <1>1 DEF GreedyInv, SizeSound
  <1>3. FlagSound'
    BY <1>1 DEF FlagSound
  <1>4. PerChunk' = PerChunk
    BY <1>1 DEF PerChunk
  <1>5. PerChunk \in Nat \ {0} /\ pages \in Nat /\ Len(chunks') = 0 /\ 0 * PerChunk = 0
    BY <1>1, PerChunkFits, Numbers
  <1>6. SeamsSound'
    BY <1>1, <1>5 DEF SeamsSound
  <1>7. AreRanges' /\ Len(chunks') * PerChunk' = 0
    BY <1>4, <1>5 DEF AreRanges
  <1>8. CASE pc' = "done"
    <2>1. pages' = 0
      BY <1>1, <1>8
    <2>2. 0 = (0 + PerChunk - 1) \div PerChunk
      BY <1>5, CeilDiv
    <2>3. RangesGreedy'
      BY <1>4, <1>5, <2>1, <2>2 DEF RangesGreedy
    <2> QED
      BY <1>1, <1>2, <1>3, <1>6, <1>8, <2>3 DEF GreedyInv, RangesSound
  <1>9. CASE pc' # "done"
    <2>1. 0 < pages + PerChunk /\ cursor = AtMost(0, pages) + 1
      BY <1>1, <1>5 DEF AtMost
    <2>2. pc' \in {"seams", "split"}
      BY <1>1, <1>9
    <2> QED
      BY <1>1, <1>2, <1>3, <1>4, <1>6, <1>7, <2>1, <2>2 DEF GreedyInv, RangesSound
  <1> QED
    BY <1>8, <1>9

\* Groups and limits do not change while the document and the settings do not.
LEMMA SameLimits ==
  ASSUME UNCHANGED <<pages, cost, seams, lim, eff>>
  PROVE  /\ PerChunk' = PerChunk
         /\ \A n : Fits(n)' <=> Fits(n)
         /\ \A c : IsGroup(c)' <=> IsGroup(c)
  BY DEF PerChunk, Fits, IsGroup

\* groupSeams: a group is closed only by a seam that does not fit it.
LEMMA GreedyGroupSeam == GreedyInv /\ GroupSeam => GreedyInv'
  <1> SUFFICES ASSUME GreedyInv, GroupSeam PROVE GreedyInv'
    OBVIOUS
  <1> DEFINE s == seams[k]
             g == pending[1]
  <1>1. /\ IInv' /\ pc = "seams" /\ k \in 1..Len(seams) /\ k \in Nat /\ Len(seams) \in Nat
        /\ k' = k + 1
        /\ UNCHANGED <<pages, cost, seams, lim, pc, eff, natural, cursor, end, replanned>>
        /\ chunks \in Seq(PageRange) /\ pending \in Seq(PageRange)
    BY GroupSeamStep DEF GreedyInv, IInv, TypeOK, GroupSeam, probeVars
  <1>2. /\ ~natural /\ pages # 0 /\ \A i \in 1..Len(chunks) : IsGroup(chunks[i])
        /\ k > 1 => IsPending(g)
        /\ (pending = <<>>) <=> (k = 1)
        /\ k > 1 => g \in PageRange
    <2>1. Grouping
      BY <1>1 DEF GreedyInv, IInv, Reach
    <2>2. (pending = <<>>) <=> (k = 1)
      BY <1>1, <2>1 DEF Grouping
    <2>3. pending # <<>> => pending[1] \in PageRange
      BY <1>1
    <2> QED
      BY <1>1, <2>2, <2>3 DEF GreedyInv, FlagSound, SeamsSound
  <1>3. seams'[k' - 1] = s /\ k' - 1 = k
    BY <1>1
  <1>4. CASE k = 1
    <2>1. pending' = <<s>> /\ chunks' = chunks
      BY <1>2, <1>4 DEF GroupSeam
    <2>2. pending'[1] = s
      BY <2>1
    <2>3. IsPending(pending[1])'
      BY <1>1, <1>3, <1>4, <2>2 DEF IsPending
    <2>4. SeamsSound'
      BY <1>1, <1>2, <2>1, <2>3, SameLimits DEF SeamsSound
    <2> QED
      BY <1>1, <1>2, <2>4 DEF GreedyInv, SizeSound, FlagSound, RangesSound
  <1>5. CASE k > 1 /\ Fits(Span(g) + Span(s))
    <2> DEFINE h == [from |-> g.from, to |-> s.to]
    <2>1. pending' = <<h>> /\ chunks' = chunks
      BY <1>1, <1>2, <1>5 DEF GroupSeam
    <2>2. pending'[1] = h /\ h.from = g.from /\ h.to = s.to
      BY <2>1
    <2>3. Span(h) = Span(g) + Span(s)
      <3>1. Grouping /\ Tiles(seams, pages) /\ seams \in Seq(PageRange) /\ pages \in Nat /\ seams # <<>>
        BY <1>1 DEF GreedyInv, IInv, Reach, TypeOK, Grouping
      <3>2. s.from = seams[k - 1].to + 1
        BY <1>1, <1>5, <3>1, TilesAt
      <3>3. g.to = seams[k - 1].to
        BY <1>5, <3>1 DEF Grouping
      <3>4. s \in PageRange
        BY <1>1, <3>1
      <3>5. s.from \in Nat /\ s.to \in Nat /\ g.from \in Nat /\ g.to \in Nat
        BY <1>2, <1>5, <3>4 DEF PageRange
      <3> QED
        BY <2>2, <3>2, <3>3, <3>5 DEF Span
    <2>4. IsPending(pending[1])'
      <3>1. PICK a \in 1..Len(seams) : a < k /\ g.from = seams[a].from
        BY <1>2, <1>5 DEF IsPending
      <3>2. a < k'
        BY <1>1, <3>1
      <3>3. /\ Span(pending'[1]) <= eff'
            /\ Span(pending'[1]) * cost' <= lim'.maxMB * pages'
        BY <1>1, <1>5, <2>2, <2>3 DEF Fits
      <3>4. /\ pending'[1].from = seams'[a].from /\ pending'[1].to = seams'[k' - 1].to
            /\ a \in 1..Len(seams')
        BY <1>1, <1>3, <2>2, <3>1
      <3> QED
        BY <3>2, <3>3, <3>4 DEF IsPending, Fits
    <2>5. SeamsSound'
      BY <1>1, <1>2, <2>1, <2>4, SameLimits DEF SeamsSound
    <2> QED
      BY <1>1, <1>2, <2>5 DEF GreedyInv, SizeSound, FlagSound, RangesSound
  <1>6. CASE k > 1 /\ ~Fits(Span(g) + Span(s))
    <2>1. pending' = <<s>> /\ chunks' = Append(chunks, g)
      BY <1>1, <1>2, <1>6 DEF GroupSeam, NextGroup
    <2>2. pending'[1] = s
      BY <2>1
    <2>3. IsPending(pending[1])'
      BY <1>1, <1>3, <2>2 DEF IsPending
    <2>4. IsGroup(g)
      <3>1. PICK a \in 1..Len(seams) :
                /\ a < k /\ g.from = seams[a].from /\ g.to = seams[k - 1].to
                /\ a < k - 1 => Fits(Span(g))
        BY <1>2, <1>6 DEF IsPending
      <3>2. k - 1 \in 1..Len(seams) /\ seams[(k - 1) + 1] = s
        BY <1>1, <1>6
      <3> QED
        BY <1>6, <3>1, <3>2 DEF IsGroup
    <2>5. \A i \in 1..Len(chunks') : IsGroup(chunks'[i])
      <3>1. ASSUME NEW i \in 1..Len(chunks') PROVE chunks'[i] = g \/ (i \in 1..Len(chunks) /\ chunks'[i] = chunks[i])
        BY <1>1, <1>2, <1>6, <2>1
      <3> QED
        BY <1>2, <2>4, <3>1
    <2>6. SeamsSound'
      BY <1>1, <1>2, <2>3, <2>5, SameLimits DEF SeamsSound
    <2> QED
      BY <1>1, <1>2, <2>6 DEF GreedyInv, SizeSound, FlagSound, RangesSound
  <1> QED
    BY <1>1, <1>4, <1>5, <1>6

\* The last group has no next seam.
LEMMA GreedyEndSeams == GreedyInv /\ EndSeams => GreedyInv'
  <1> SUFFICES ASSUME GreedyInv, EndSeams PROVE GreedyInv'
    OBVIOUS
  <1> DEFINE g == pending[1]
  <1>1. /\ IInv' /\ pc = "seams" /\ pc' = "balance" /\ natural' = TRUE
        /\ chunks' = chunks \o pending /\ k > Len(seams)
        /\ UNCHANGED <<pages, cost, seams, lim, eff, replanned>>
        /\ chunks \in Seq(PageRange) /\ pending \in Seq(PageRange)
        /\ k \in 1..(Len(seams) + 1) /\ Len(seams) \in Nat /\ seams \in Seq(PageRange)
    BY EndSeamsStep DEF GreedyInv, IInv, TypeOK, EndSeams, probeVars
  <1>2. Grouping /\ k = Len(seams) + 1 /\ k > 1 /\ seams # <<>>
    <2>1. Grouping
      BY <1>1 DEF GreedyInv, IInv, Reach
    <2>2. seams # <<>>
      BY <2>1 DEF Grouping
    <2> QED
      BY <1>1, <2>1, <2>2
  <1>3. /\ pages # 0 /\ \A i \in 1..Len(chunks) : IsGroup(chunks[i])
        /\ IsPending(g) /\ Len(pending) = 1
    BY <1>1, <1>2 DEF GreedyInv, SeamsSound, Grouping
  <1>4. IsGroup(g)
    <2>1. PICK a \in 1..Len(seams) :
              /\ a < k /\ g.from = seams[a].from /\ g.to = seams[k - 1].to
              /\ a < k - 1 => Fits(Span(g))
      BY <1>3 DEF IsPending
    <2> DEFINE b == k - 1
    <2>2. b = Len(seams) /\ b \in 1..Len(seams) /\ ~(b < Len(seams))
      BY <1>1, <1>2
    <2>3. /\ g.from = seams[a].from /\ g.to = seams[b].to
          /\ a < b => Fits(Span(g))
      BY <2>1
    <2> HIDE DEF b, g
    <2> QED
      BY <2>2, <2>3 DEF IsGroup
  <1>5. \A i \in 1..Len(chunks') : IsGroup(chunks'[i])
    <2>1. ASSUME NEW i \in 1..Len(chunks')
          PROVE  chunks'[i] = g \/ (i \in 1..Len(chunks) /\ chunks'[i] = chunks[i])
      <3>0. pending \in Seq(PageRange) /\ Len(pending) = 1 /\ chunks \in Seq(PageRange)
        BY <1>1, <1>3
      <3>1. g \in PageRange
        <4>1. pending # <<>>
          BY <3>0, SMTT(30)
        <4>2. pending # <<>> => pending[1] \in PageRange
          BY <1>1
        <4> QED
          BY <4>1, <4>2
      <3>2. pending = <<g>>
        BY <3>0
      <3>3. chunks \o pending = Append(chunks, g)
        <4> HIDE DEF g
        <4> QED
          BY <3>0, <3>1, <3>2
      <3> HIDE DEF g
      <3> QED
        BY <1>1, <3>1, <3>3
    <2> QED
      BY <1>3, <1>4, <2>1
  <1>6. SeamsSound'
    BY <1>1, <1>3, <1>5, SameLimits DEF SeamsSound
  <1> QED
    BY <1>1, <1>2, <1>3, <1>6 DEF GreedyInv, SizeSound, FlagSound, RangesSound

\* The plan along seams is used as it is, if it is balanced.
LEMMA GreedyBalance == GreedyInv /\ Balance => GreedyInv'
  <1> SUFFICES ASSUME GreedyInv, Balance PROVE GreedyInv'
    OBVIOUS
  <1>1. /\ TypeOK /\ IInv' /\ pc = "balance" /\ natural /\ pages # 0 /\ seams # <<>>
        /\ cursor = 1 /\ Tiles(chunks, pages)
        /\ \A i \in 1..Len(chunks) : IsGroup(chunks[i])
        /\ UNCHANGED <<pages, cost, seams, lim, eff, cursor, replanned>>
    BY BalanceStep DEF GreedyInv, IInv, Reach, FlagSound, SeamsSound, Balance, probeVars, loopVars
  <1>2. SizeSound'
    <2>1. pc' # "size"
      BY DEF Balance
    <2> QED
      BY <1>1, <2>1 DEF GreedyInv, SizeSound
  <1>3. CASE IsBalanced
    <2>1. pc' = "done" /\ chunks' = chunks /\ natural' = natural
      BY <1>3 DEF Balance
    <2>2. SeamsGreedy
      BY <1>1, <1>3, BalancedChunks DEF SeamsGreedy, IsGroup
    <2>3. SeamsGreedy'
      BY <1>1, <2>1, <2>2 DEF SeamsGreedy, Fits, Span
    <2>4. SeamsSound'
      BY <2>1, <2>3 DEF SeamsSound
    <2> QED
      BY <1>1, <1>2, <2>1, <2>4 DEF GreedyInv, FlagSound, RangesSound
  <1>4. CASE ~IsBalanced
    <2>1. pc' = "split" /\ chunks' = <<>> /\ natural' = FALSE
      BY <1>4 DEF Balance
    <2>2. PerChunk' = PerChunk /\ PerChunk \in Nat \ {0} /\ pages \in Nat
      BY <1>1, PerChunkFits, SameLimits, Numbers
    <2>3. Len(chunks') = 0 /\ 0 * PerChunk = 0
      <3>1. chunks' = <<>>
        BY <2>1
      <3> QED
        BY <2>2, <3>1
    <2>4. /\ Len(chunks') * PerChunk' < pages' + PerChunk'
          /\ cursor' = AtMost(Len(chunks') * PerChunk', pages') + 1
      BY <1>1, <2>2, <2>3 DEF AtMost
    <2>5. RangesSound'
      BY <2>1, <2>3, <2>4 DEF RangesSound, AreRanges
    <2> QED
      BY <1>1, <1>2, <2>1, <2>5 DEF GreedyInv, FlagSound, SeamsSound
  <1> QED
    BY <1>3, <1>4

\* The outer loop ends with the last page in the last chunk.
LEMMA GreedySplit == GreedyInv /\ Split => GreedyInv'
  <1> SUFFICES ASSUME GreedyInv, Split PROVE GreedyInv'
    OBVIOUS
  <1> DEFINE P == PerChunk
             m == Len(chunks)
             q == m * P
  <1>1. /\ TypeOK /\ IInv' /\ pc = "split" /\ ~natural
        /\ UNCHANGED <<pages, cost, seams, lim, eff, chunks, natural, cursor, replanned>>
        /\ AreRanges /\ q < pages + P /\ cursor = AtMost(q, pages) + 1
    BY SplitStep DEF GreedyInv, IInv, FlagSound, RangesSound, Split, probeVars
  <1>2. /\ P \in Nat \ {0} /\ pages \in Nat /\ PerChunk' = P /\ m \in Nat /\ q \in Nat
    <2>1. P \in Nat \ {0} /\ pages \in Nat /\ PerChunk' = P /\ m \in Nat
      BY <1>1, PerChunkFits, SameLimits, Numbers DEF TypeOK
    <2> HIDE DEF P, m
    <2> QED
      BY <2>1, Multiples
  <1>3. SizeSound' /\ FlagSound' /\ SeamsSound'
    <2>1. pc' \in {"grow", "done"}
      BY DEF Split
    <2> QED
      BY <1>1, <2>1 DEF GreedyInv, SizeSound, FlagSound, SeamsSound
  <1>4. AreRanges'
    BY <1>1, <1>2 DEF AreRanges
  <1>5. CASE cursor <= pages
    <2>1. pc' = "grow" /\ end' = cursor
      BY <1>5 DEF Split
    <2> HIDE DEF q, P
    <2>2. cursor = q + 1 /\ cursor < cursor + P
      BY <1>1, <1>2, <1>5 DEF AtMost
    <2> USE DEF q, P
    <2>3. RangesSound'
      BY <1>1, <1>2, <1>4, <2>1, <2>2 DEF RangesSound
    <2> QED
      BY <1>1, <1>3, <2>3 DEF GreedyInv
  <1>6. CASE ~(cursor <= pages)
    <2>1. pc' = "done"
      BY <1>6 DEF Split
    <2>2. pages <= q
      <3> HIDE DEF q, P
      <3> QED
        BY <1>1, <1>2, <1>6 DEF AtMost
    <2>3. m = (pages + P - 1) \div P
      <3>1. P \in Nat \ {0} /\ m \in Nat /\ pages \in Nat /\ pages <= m * P /\ m * P < pages + P
        BY <1>1, <1>2, <2>2
      <3> HIDE DEF P, m
      <3> QED
        BY <3>1, CeilDiv
    <2>4. RangesGreedy'
      BY <1>1, <1>2, <1>4, <2>3 DEF RangesGreedy, AreRanges
    <2>5. RangesSound'
      BY <2>1, <2>4 DEF RangesSound
    <2> QED
      BY <1>1, <1>3, <2>5 DEF GreedyInv
  <1> QED
    BY <1>5, <1>6

\* The inner loop stops at PerChunk pages or at the last page.
LEMMA GreedyGrow == GreedyInv /\ Grow => GreedyInv'
  <1> SUFFICES ASSUME GreedyInv, Grow PROVE GreedyInv'
    OBVIOUS
  <1> DEFINE P == PerChunk
             m == Len(chunks)
             q == m * P
  <1>1. /\ TypeOK /\ IInv' /\ pc = "grow" /\ ~natural
        /\ UNCHANGED <<pages, cost, seams, lim, eff, natural, replanned>>
        /\ AreRanges /\ q < pages + P /\ cursor = q + 1 /\ end < cursor + P
        /\ cursor <= end /\ end <= pages /\ end \in Nat
        /\ chunks \in Seq(PageRange)
    BY GrowStep DEF GreedyInv, IInv, Reach, TypeOK, FlagSound, RangesSound, Grow, probeVars
  <1>2. /\ P \in Nat \ {0} /\ pages \in Nat /\ PerChunk' = P /\ m \in Nat
        /\ q \in Nat /\ (m + 1) * P = q + P
        /\ \A n \in Nat : n >= 2 => (Fits(n) <=> n <= P)
    <2>1. /\ P \in Nat \ {0} /\ pages \in Nat /\ PerChunk' = P /\ m \in Nat
          /\ \A n \in Nat : n >= 2 => (Fits(n) <=> n <= P)
      BY <1>1, PerChunkFits, SameLimits, Numbers DEF TypeOK
    <2>2. q \in Nat /\ (m + 1) * P = q + P
      <3> HIDE DEF P, m
      <3> QED
        BY <2>1, Multiples
    <2> QED
      BY <2>1, <2>2
  <1>3. SizeSound' /\ FlagSound' /\ SeamsSound'
    <2>1. pc' \in {"grow", "split"}
      BY <1>1 DEF Grow
    <2> QED
      BY <1>1, <2>1 DEF GreedyInv, SizeSound, FlagSound, SeamsSound
  <1> DEFINE n == end + 1 - cursor + 1
  <1>4. n \in Nat /\ n >= 2 /\ (Fits(n) <=> n <= P)
    <2>1. n \in Nat /\ n >= 2
      <3> HIDE DEF q
      <3> QED
        BY <1>1, <1>2
    <2> HIDE DEF n, P
    <2> QED
      BY <1>2, <2>1
  <1>5. CASE Grows
    <2>1. end' = end + 1 /\ UNCHANGED <<pc, chunks, cursor>> /\ Fits(n)
      BY <1>5 DEF Grow, Grows
    <2>2. end' < cursor + P
      <3> HIDE DEF q, P
      <3> QED
        BY <1>1, <1>2, <1>4, <2>1
    <2>3. AreRanges'
      BY <1>1, <1>2, <2>1 DEF AreRanges
    <2>4. RangesSound'
      BY <1>1, <1>2, <2>1, <2>2, <2>3 DEF RangesSound
    <2> QED
      BY <1>1, <1>3, <2>4 DEF GreedyInv
  <1>6. CASE ~Grows
    <2> DEFINE c == [from |-> cursor, to |-> end]
    <2>1. chunks' = Append(chunks, c) /\ cursor' = end + 1 /\ pc' = "split"
      BY <1>6 DEF Grow, Complete
    <2>2. end + 1 > pages \/ ~Fits(n)
      BY <1>1, <1>2, <1>6 DEF Grows
    <2>3. /\ end = AtMost(q + P, pages) /\ cursor = q + 1 /\ q < pages
          /\ q + P < pages + P
      <3> HIDE DEF q, P
      <3> QED
        BY <1>1, <1>2, <1>4, <2>2 DEF AtMost
    <2>4. c \in PageRange
      BY <1>1, <1>2, <2>3 DEF PageRange
    <2>5. /\ Len(chunks') = m + 1 /\ chunks'[m + 1] = c
          /\ \A i \in 1..m : chunks'[i] = chunks[i]
      <3> HIDE DEF c
      <3> QED
        BY <1>1, <2>1, <2>4
    <2>6. ASSUME NEW i \in 1..Len(chunks')
          PROVE  chunks'[i] = [from |-> (i - 1) * P + 1, to |-> AtMost(i * P, pages)]
      <3>1. i \in 1..m \/ i = m + 1
        BY <1>2, <2>5
      <3>2. CASE i \in 1..m
        BY <1>1, <2>5, <3>2 DEF AreRanges
      <3>3. CASE i = m + 1
        <4>1. i - 1 = m /\ chunks'[i] = c
          BY <1>2, <2>5, <3>3
        <4>2. i * P = q + P /\ (i - 1) * P = q
          BY <1>2, <3>3, <4>1
        <4> HIDE DEF q, P
        <4> QED
          BY <2>3, <4>1, <4>2
      <3> QED
        BY <3>1, <3>2, <3>3
    <2>7. AreRanges'
      BY <1>1, <1>2, <2>6 DEF AreRanges
    <2>8. /\ Len(chunks') * PerChunk' = q + P
          /\ cursor' = AtMost(q + P, pages) + 1
      BY <1>2, <2>1, <2>3, <2>5
    <2>9. RangesSound'
      <3> HIDE DEF q
      <3> QED
        BY <1>1, <1>2, <2>1, <2>3, <2>7, <2>8 DEF RangesSound
    <2> QED
      BY <1>1, <1>3, <2>9 DEF GreedyInv
  <1> QED
    BY <1>5, <1>6

\* dispatchPool's second plan starts like the first.
LEMMA GreedyReplan == GreedyInv /\ Replan => GreedyInv'
  <1> SUFFICES ASSUME GreedyInv, Replan PROVE GreedyInv'
    OBVIOUS
  <1>1. IInv' /\ pc' = "plan" /\ natural' = FALSE /\ replanned' = TRUE
    BY ReplanStep DEF GreedyInv, Replan
  <1> QED
    BY <1>1 DEF GreedyInv, SizeSound, FlagSound, SeamsSound, RangesSound

\* Every step keeps the second invariant.
LEMMA GreedyStep == GreedyInv /\ [Next]_vars => GreedyInv'
  <1>1. GreedyInv /\ UNCHANGED vars => GreedyInv'
    <2> SUFFICES ASSUME GreedyInv, UNCHANGED vars PROVE GreedyInv'
      OBVIOUS
    <2>1. IInv'
      BY InvStep DEF GreedyInv
    <2> USE DEF vars, probeVars, loopVars, GreedyInv
    <2>2. SizeSound' /\ FlagSound'
      BY DEF SizeSound, FlagSound
    <2>3. SeamsSound'
      <3>1. SeamsGreedy => SeamsGreedy'
        BY SMTT(30) DEF SeamsGreedy, Fits, Span
      <3>2. pc = "seams" /\ k > 1 => IsPending(pending[1])'
        BY DEF SeamsSound, IsPending, Fits, Span
      <3>3. pc \in {"seams", "balance"} =>
                (pages # 0 /\ \A i \in 1..Len(chunks) : IsGroup(chunks[i]))'
        BY SameLimits DEF SeamsSound
      <3> QED
        BY <3>1, <3>2, <3>3 DEF SeamsSound
    <2>4. PerChunk' = PerChunk
      BY SameLimits
    <2>5. RangesSound'
      BY <2>4 DEF RangesSound, RangesGreedy, AreRanges
    <2> QED
      BY <2>1, <2>2, <2>3, <2>5
  <1> QED
    BY <1>1, GreedyAdapt, GreedyPlanChunks, GreedyGroupSeam, GreedyEndSeams, GreedyBalance,
       GreedySplit, GreedyGrow, GreedyReplan DEF Next, Step, Terminated

\* The invariant holds in every state of the planner.
LEMMA GreedyInvariant == Spec => []GreedyInv
  BY GreedyInit, GreedyStep, PTL DEF Spec

-----------------------------------------------------------------------------
\* The loops of PlanChunks compute the greedy plan for all documents, seams
\* and settings: pageRangeSplit the chunks of PerChunk pages and the rest,
\* groupSeams groups that could not take their next seam, used only if none
\* exceeds a limit by more than half.
THEOREM PlanAlwaysGreedy == Spec => []PlanIsGreedy
  <1>1. GreedyInv => PlanIsGreedy
    BY DEF GreedyInv, SeamsSound, RangesSound, PlanIsGreedy
  <1> QED
    BY <1>1, GreedyInvariant, PTL

\* A page-range chunk larger than the floors is estimated to fit the worker
\* that renders it, whatever the document and the settings are.
THEOREM ChunksAlwaysFitWorker == Spec => []FitsWorker
  <1>1. GreedyInv => FitsWorker
    <2> SUFFICES ASSUME GreedyInv, pc = "done", ~natural, ~replanned, NEW i \in 1..Len(chunks)
                 PROVE  \/ Span(chunks[i]) <= AtLeast(MinPagesFloor, lim.least)
                        \/ Span(chunks[i]) * cost <= lim.budget * pages
      BY DEF FitsWorker
    <2> DEFINE P == PerChunk
               n == Span(chunks[i])
    <2>1. /\ TypeOK /\ Tiles(chunks, pages) /\ chunks \in Seq(PageRange)
          /\ chunks[i] = [from |-> (i - 1) * P + 1, to |-> AtMost(i * P, pages)]
          /\ eff <= AtLeast(MinPagesFloor, lim.least) \/ eff * cost <= lim.budget * pages
      BY DEF GreedyInv, IInv, Reach, TypeOK, SizeSound, RangesSound, RangesGreedy
    <2>2. /\ P \in Nat \ {0} /\ (P = 1 \/ P <= eff) /\ eff \in Nat /\ cost \in Nat
          /\ lim.least \in Nat /\ MinPagesFloor \in Nat \ {0}
          /\ lim.budget * pages \in Nat /\ pages \in Nat
      BY <2>1, PerChunkFits, Numbers
    <2>3. n \in Nat /\ n <= P
      <3>1. i \in Nat /\ i >= 1 /\ i - 1 \in Nat
        BY <2>1
      <3>2. (i - 1) * P \in Nat /\ i * P = (i - 1) * P + P
        <4>1. ((i - 1) + 1) * P = (i - 1) * P + P /\ (i - 1) * P \in Nat
          <5> HIDE DEF P
          <5> QED
            BY <2>2, <3>1, Multiples
        <4>2. (i - 1) + 1 = i
          BY <3>1
        <4> QED
          BY <4>1, <4>2
      <3> DEFINE a == (i - 1) * P
      <3>3. chunks[i].from = a + 1 /\ chunks[i].to = AtMost(a + P, pages)
        BY <2>1, <3>2
      <3>4. chunks[i].from <= chunks[i].to
        BY <2>1 DEF Tiles
      <3>5. a \in Nat
        BY <3>2
      <3> HIDE DEF a, P
      <3> QED
        BY <2>2, <3>3, <3>4, <3>5, SMTT(30) DEF Span, AtMost
    <2> HIDE DEF P, n
    <2>4. n <= MinPagesFloor \/ n <= eff
      BY <2>2, <2>3
    <2>5. CASE n <= MinPagesFloor
      BY <2>2, <2>3, <2>5 DEF AtLeast, n
    <2>6. CASE n <= eff /\ eff <= AtLeast(MinPagesFloor, lim.least)
      BY <2>2, <2>3, <2>6 DEF AtLeast, n
    <2>7. CASE n <= eff /\ eff * cost <= lim.budget * pages
      <3>1. n * cost <= eff * cost /\ n * cost \in Nat /\ eff * cost \in Nat
        BY <2>2, <2>3, <2>7, CostMonotone
      <3>2. n * cost <= lim.budget * pages
        BY <2>2, <2>7, <3>1
      <3> QED
        BY <3>2 DEF n
    <2> QED
      BY <2>1, <2>4, <2>5, <2>6, <2>7
  <1> QED
    BY <1>1, GreedyInvariant, PTL

-----------------------------------------------------------------------------
(* From the planner to the one-shot path.                                  *)

\* The plan as the one-shot path takes it.
PlannedRanges == [i \in DOMAIN chunks |-> <<chunks[i].from, chunks[i].to>>]

\* What PlanChunks makes of a document with pages is what Subdivision assumes of
\* its Plan, for every document and all settings.
THEOREM PlansCanBeRendered == Spec => [](pc = "done" /\ pages # 0 => IsPlan(PlannedRanges))
  <1>1. ASSUME IInv, pc = "done", pages # 0 PROVE IsPlan(PlannedRanges)
    <2> DEFINE p == PlannedRanges
    <2>1. chunks \in Seq(PageRange) /\ Tiles(chunks, pages)
      BY <1>1 DEF IInv, TypeOK, Reach
    <2>2. Len(chunks) \in Nat /\ DOMAIN chunks = 1..Len(chunks)
      BY <2>1
    <2>3. chunks # <<>>
      BY <1>1, <2>1 DEF Tiles
    <2>4. Len(chunks) # 0
      BY <2>1, <2>3
    <2>5. ASSUME NEW i \in 1..Len(chunks) PROVE chunks[i].from \in Nat /\ chunks[i].to \in Nat
      <3>1. chunks[i] \in PageRange
        BY <2>1
      <3> QED
        BY <3>1 DEF PageRange
    <2>6. p = [i \in 1..Len(chunks) |-> <<chunks[i].from, chunks[i].to>>]
      BY <2>2 DEF PlannedRanges
    <2> HIDE DEF p
    <2>7. p \in Seq(Nat \X Nat) /\ Len(p) = Len(chunks)
      BY <2>2, <2>5, <2>6
    <2>8. p # <<>>
      BY <2>4, <2>7
    <2>9. \A i \in 1..Len(chunks) : p[i][1] = chunks[i].from /\ p[i][2] = chunks[i].to
      BY <2>6
    <2>10. ASSUME NEW i \in 1..Len(chunks)
           PROVE  /\ p[i][1] = IF i = 1 THEN 1 ELSE p[i - 1][2] + 1
                  /\ p[i][1] <= p[i][2]
      <3>1. /\ chunks[i].from = IF i = 1 THEN 1 ELSE chunks[i - 1].to + 1
            /\ chunks[i].from <= chunks[i].to
        BY <2>1 DEF Tiles
      <3>2. i # 1 => i - 1 \in 1..Len(chunks)
        BY <2>2
      <3> QED
        BY <2>9, <3>1, <3>2
    <2>11. IsPlan(p)
      BY <2>7, <2>8, <2>10 DEF IsPlan
    <2> QED
      BY <2>11 DEF p
  <1>2. IInv => (pc = "done" /\ pages # 0 => IsPlan(PlannedRanges))
    BY <1>1
  <1> QED
    BY <1>2, InvInit, InvStep, PTL DEF Spec

-----------------------------------------------------------------------------
(* The tree of halvings (Subdivision), to any depth.                       *)

Left(n)  == Subdivide(n)[1]
Right(n) == Subdivide(n)[2]

\* a lies before or after b; a lies within b; a lies within a half of b.
Apart(a, b)  == a[2] < b[1] \/ b[2] < a[1]
Inside(a, b) == b[1] <= a[1] /\ a[2] <= b[2]
InHalf(a, b) == Subdivide(b) # <<>> /\ (Inside(a, Left(b)) \/ Inside(a, Right(b)))

\* A chunk that has a goroutine; one whose first render is over; one whose
\* goroutine holds a slot.
Live(n)   == st[n] # "none"
Past(n)   == st[n] \notin {"none", "wait", "render"}
Active(n) == st[n] \notin Finished \cup {"none", "wait"}

States == Finished \cup {"none", "wait", "render", "put", "subs", "concat"}

\* The chunks of the plan are where they were when renderAll was called.
TopSound ==
    \A i \in 1..Len(Plan) :
        Live(Plan[i]) /\ info[Plan[i]] = [i2 |-> 2 * (i - 1), depth |-> 0, group |-> Root]

\* Every other chunk is a half of one whose render is over, and which waits for
\* it as long as it has not finished.
ChildSound(n) ==
    Live(n) /\ n \notin TopLevel =>
        LET g == info[n].group IN
        /\ g \in Ranges /\ Past(g) /\ Subdivide(g) # <<>>
        /\ n \in {Left(g), Right(g)}
        /\ info[n].i2 = info[g].i2 + (IF n = Left(g) THEN 0 ELSE 1)
        /\ info[n].depth = info[g].depth + 1 /\ info[n].depth <= OomDepth
        /\ st[n] \notin Finished => st[g] = "subs"

\* A chunk that was halved has both its halves.
SplitSound(n) ==
    st[n] \in {"subs", "concat"} =>
        /\ info[n].depth < OomDepth /\ Subdivide(n) # <<>>
        /\ Live(Left(n)) /\ info[Left(n)].group = n
        /\ Live(Right(n)) /\ info[Right(n)].group = n

\* Two chunks overlap only if one is part of a half of the other, whose render is
\* over.
Laminar ==
    \A a, b \in Ranges : Live(a) /\ Live(b) /\ a # b =>
        Apart(a, b) \/ (Past(b) /\ InHalf(a, b)) \/ (Past(a) /\ InHalf(b, a))

\* The outermost renderAll keeps to its slots.
SlotHolders == {m \in Members(Root) : st[m] \notin Finished \cup {"wait"}}
RootSlots == Cardinality(SlotHolders) <= Parallel

TreeInv ==
    /\ st \in [Ranges -> States]
    /\ info \in [Ranges -> [i2 : Nat, depth : Nat, group : Groups]]
    /\ TopSound
    /\ \A n \in Ranges : ChildSound(n) /\ SplitSound(n)
    /\ Laminar
    /\ RootSlots

-----------------------------------------------------------------------------
(* Files, with one halving at most.                                        *)

\* No chunk is halved twice: the depth to which the code keeps files apart.
OneHalving == OomDepth <= 1

Errors == {"none", "floor", "fails", "killed", "merge"}

\* What renderWithRetry has returned, or will return, is the chunk's own pages.
PathSound(n) ==
    LET chunkPdf == ChunkFile(info[n].i2)
        merged   == MergedFile(info[n].i2)
    IN  /\ st[n] \notin {"put", "ok"} => path[n] = NoPath
        /\ st[n] = "put" => path[n] = chunkPdf
        /\ st[n] = "ok" => \/ path[n] = InCache /\ cache[n] = PagesOf(n)
                           \/ path[n] = chunkPdf
                           \/ path[n] = merged /\ n \in TopLevel
        /\ path[n] \in {chunkPdf, merged} => file[path[n]] = PagesOf(n)
        /\ Live(n) /\ n \notin TopLevel => path[info[n].group] # ChunkFile(info[info[n].group].i2)

\* Why a chunk was skipped, or failed, and a merge with it.
ErrorSound(n) ==
    /\ st[n] = "err" => firstErr[info[n].group] # "none"
    /\ st[n] = "skipped" =>
          clientGone \/ firstErr[Root] # "none" \/ firstErr[info[n].group] # "none"
    /\ st[n] = "concat" => firstErr[n] = "none"

GroupSound ==
    /\ cancelled \subseteq TopLevel \cup {Root}
    /\ \A g \in cancelled : firstErr[g] # "none"
    /\ \A g \in Ranges : firstErr[g] # "merge"
    /\ firstErr[Root] = "merge" => clientGone

FileInv ==
    /\ path \in [Ranges -> Files \cup {InCache, NoPath}]
    /\ file \in [Files -> Seq(Nat)]
    /\ cache \in [Ranges -> Seq(Nat)]
    /\ firstErr \in [Groups -> Errors]
    /\ \A n \in Ranges : PathSound(n) /\ ErrorSound(n)
    /\ GroupSound
    /\ CacheSound /\ OutputIsDocument /\ MergeFailsOnlyIfAbandoned

-----------------------------------------------------------------------------
(* Page ranges and the plan.                                               *)

\* The document has at least one page.
LEMMA PagesFacts ==
  /\ Plan[Len(Plan)][2] \in Nat /\ Len(Plan) \in Nat \ {0}
  /\ Pages \subseteq Nat \ {0}
  /\ Plan \in Seq(Nat \X Nat) /\ DOMAIN Plan = 1..Len(Plan)
  /\ \A i \in 1..Len(Plan) : Plan[i] \in Nat \X Nat
  <1>1. Plan \in Seq(Nat \X Nat) /\ Plan # <<>>
    BY SubdivisionAssumption DEF IsPlan
  <1>2. Len(Plan) \in Nat \ {0} /\ DOMAIN Plan = 1..Len(Plan)
    BY <1>1
  <1>3. \A i \in 1..Len(Plan) : Plan[i] \in Nat \X Nat
    BY <1>1
  <1>4. Plan[Len(Plan)] \in Nat \X Nat
    BY <1>2, <1>3
  <1>5. Plan[Len(Plan)][2] \in Nat
    BY <1>4
  <1>6. Pages \subseteq Nat \ {0}
    BY <1>5 DEF Pages
  <1> QED
    BY <1>1, <1>2, <1>3, <1>5, <1>6

\* What a range is.
LEMMA RangeFacts ==
  ASSUME NEW n \in Ranges
  PROVE  /\ n[1] \in Nat \ {0} /\ n[2] \in Nat \ {0} /\ n[1] <= n[2]
         /\ n[2] <= Plan[Len(Plan)][2] /\ n = <<n[1], n[2]>> /\ n # Root
  <1>1. n \in Pages \X Pages /\ n[1] <= n[2]
    BY DEF Ranges
  <1>2. n[1] \in Pages /\ n[2] \in Pages /\ n = <<n[1], n[2]>>
    BY <1>1
  <1>3. n[1] \in Nat \ {0} /\ n[2] \in Nat \ {0} /\ n[2] <= Plan[Len(Plan)][2]
    BY <1>2, PagesFacts DEF Pages
  <1>4. n # Root
    BY <1>3 DEF Root
  <1> QED
    BY <1>1, <1>2, <1>3, <1>4

\* A pair of page numbers in order is a range.
LEMMA RangeIntro ==
  ASSUME NEW a \in Nat \ {0}, NEW b \in Nat, a <= b, b <= Plan[Len(Plan)][2]
  PROVE  <<a, b>> \in Ranges
  <1>1. a \in Pages /\ b \in Pages
    BY PagesFacts DEF Pages
  <1> QED
    BY <1>1 DEF Ranges

\* Two ranges with the same ends are the same.
LEMMA RangeEqual ==
  ASSUME NEW m \in Ranges, NEW n \in Ranges, m[1] = n[1], m[2] = n[2]
  PROVE  m = n
  BY RangeFacts

\* Subdivide cuts a range of several pages into two that share nothing.
LEMMA HalvesFacts ==
  ASSUME NEW n \in Ranges, Subdivide(n) # <<>>
  PROVE  /\ Subdivide(n) = <<Left(n), Right(n)>>
         /\ Left(n) \in Ranges /\ Right(n) \in Ranges
         /\ Left(n)[1] = n[1] /\ Right(n)[2] = n[2] /\ Right(n)[1] = Left(n)[2] + 1
         /\ Left(n)[2] < n[2] /\ n[1] < Right(n)[1]
         /\ Left(n) # Right(n) /\ Left(n) # n /\ Right(n) # n
  <1> DEFINE span == n[2] - n[1] + 1
             mid  == n[1] + ((span + 1) \div 2) - 1
             l == <<n[1], mid>>
             r == <<mid + 1, n[2]>>
  <1>1. /\ n[1] \in Nat \ {0} /\ n[2] \in Nat \ {0} /\ n[1] <= n[2]
        /\ n[2] <= Plan[Len(Plan)][2]
    BY RangeFacts
  <1>2. Subdivide(n) = IF span <= 1 THEN <<>> ELSE <<l, r>>
    BY DEF Subdivide
  <1>3. span > 1 /\ Subdivide(n) = <<l, r>>
    BY <1>1, <1>2
  <1>4. mid \in Nat /\ n[1] <= mid /\ mid < n[2]
    BY <1>1, <1>3, SMTT(30)
  <1> HIDE DEF mid
  <1>5. l \in Ranges /\ r \in Ranges
    <2>1. n[1] <= mid /\ mid <= Plan[Len(Plan)][2] /\ mid + 1 \in Nat \ {0} /\ mid + 1 <= n[2]
      BY <1>1, <1>4, PagesFacts
    <2> QED
      BY <1>1, <1>4, <2>1, RangeIntro
  <1>6. Left(n) = l /\ Right(n) = r
    BY <1>3 DEF Left, Right
  <1>7. l[1] = n[1] /\ l[2] = mid /\ r[1] = mid + 1 /\ r[2] = n[2]
    OBVIOUS
  <1> HIDE DEF l, r
  <1> QED
    BY <1>1, <1>3, <1>4, <1>5, <1>6, <1>7

\* The chunks of the plan are ranges in order.
LEMMA PlanOrdered ==
  ASSUME NEW i \in 1..Len(Plan), NEW j \in 1..Len(Plan), i < j
  PROVE  Plan[i][2] < Plan[j][1]
  <1> DEFINE Wrong == {x \in 1..Len(Plan) : i < x /\ ~(Plan[i][2] < Plan[x][1])}
  <1>1. Wrong \subseteq Nat
    BY PagesFacts
  <1>2. SUFFICES ASSUME Wrong # {} PROVE FALSE
    OBVIOUS
  <1>3. PICK x \in Wrong : \A y \in Wrong : ~(y < x)
    <2> HIDE DEF Wrong
    <2> QED
      BY <1>1, <1>2, LeastNumber
  <1>4. /\ x \in 1..Len(Plan) /\ i < x /\ ~(Plan[i][2] < Plan[x][1])
        /\ x - 1 \in 1..Len(Plan) /\ x # 1
    BY <1>3, PagesFacts
  <1>5. Plan[x][1] = Plan[x - 1][2] + 1 /\ Plan[x - 1][1] <= Plan[x - 1][2]
    BY <1>4, SubdivisionAssumption DEF IsPlan
  <1>6. Plan[x - 1] \in Nat \X Nat /\ Plan[i] \in Nat \X Nat /\ Plan[x] \in Nat \X Nat
    BY <1>4, PagesFacts
  <1>7. Plan[x - 1][2] \in Nat /\ Plan[x - 1][1] \in Nat /\ Plan[i][2] \in Nat
    BY <1>6
  <1>8. CASE x - 1 = i
    BY <1>4, <1>5, <1>7, <1>8
  <1>9. CASE x - 1 # i
    <2>0. x \in Nat /\ i \in Nat
      BY <1>4, PagesFacts
    <2>1. i < x - 1 /\ x - 1 < x
      <3> HIDE DEF Wrong
      <3> QED
        BY <1>4, <1>9, <2>0
    <2>2. Plan[i][2] < Plan[x - 1][1]
      BY <1>3, <1>4, <2>1
    <2> QED
      BY <1>4, <1>5, <1>7, <2>2
  <1> QED
    BY <1>8, <1>9

\* A chunk of the plan is a range, and apart from all the others.
LEMMA PlanFacts ==
  ASSUME NEW i \in 1..Len(Plan)
  PROVE  /\ Plan[i] \in Ranges /\ Plan[i] \in TopLevel
         /\ \A j \in 1..Len(Plan) : Plan[j] = Plan[i] => j = i
         /\ \A j \in 1..Len(Plan) : j # i => Apart(Plan[i], Plan[j])
  <1>1. Plan[i] \in Nat \X Nat /\ Plan[Len(Plan)] \in Nat \X Nat /\ Len(Plan) \in 1..Len(Plan)
    BY PagesFacts
  <1>2. /\ Plan[i][1] \in Nat /\ Plan[i][2] \in Nat /\ Plan[i] = <<Plan[i][1], Plan[i][2]>>
        /\ Plan[i][1] <= Plan[i][2]
    BY <1>1, SubdivisionAssumption DEF IsPlan
  <1>3. Plan[i][1] # 0
    <2>1. CASE i = 1
      BY <2>1, SubdivisionAssumption DEF IsPlan
    <2>2. CASE i # 1
      <3>1. i - 1 \in 1..Len(Plan) /\ i - 1 < i
        BY <2>2, PagesFacts
      <3>2. Plan[i - 1][2] < Plan[i][1] /\ Plan[i - 1] \in Nat \X Nat
        BY <3>1, PlanOrdered, PagesFacts
      <3> QED
        BY <1>2, <3>2
    <2> QED
      BY <2>1, <2>2
  <1>4. Plan[i][2] <= Plan[Len(Plan)][2]
    <2>1. CASE i = Len(Plan)
      BY <1>2, <2>1
    <2>2. CASE i # Len(Plan)
      <3>0. Len(Plan) \in Nat
        BY PagesFacts
      <3>1. i < Len(Plan)
        BY <2>2, <3>0
      <3>2. Plan[i][2] < Plan[Len(Plan)][1]
        BY <1>1, <3>1, PlanOrdered
      <3>3. Plan[Len(Plan)][1] <= Plan[Len(Plan)][2]
        BY <1>1, SubdivisionAssumption DEF IsPlan
      <3>4. Plan[Len(Plan)][1] \in Nat /\ Plan[Len(Plan)][2] \in Nat
        BY <1>1
      <3> QED
        BY <1>2, <3>2, <3>3, <3>4
    <2> QED
      BY <2>1, <2>2
  <1>5. Plan[i] \in Ranges
    BY <1>2, <1>3, <1>4, RangeIntro
  <1>6. Plan[i] \in TopLevel
    BY PagesFacts DEF TopLevel
  <1>7. ASSUME NEW j \in 1..Len(Plan), j # i PROVE Apart(Plan[i], Plan[j]) /\ Plan[j] # Plan[i]
    <2>1. i < j \/ j < i
      BY <1>7, PagesFacts
    <2>2. Apart(Plan[i], Plan[j])
      BY <2>1, PlanOrdered DEF Apart
    <2>3. Plan[j] # Plan[i]
      BY <1>2, <2>2 DEF Apart
    <2> QED
      BY <2>2, <2>3
  <1> QED
    BY <1>5, <1>6, <1>7

\* The chunks of the plan, seen as a set.
LEMMA TopFacts ==
  /\ TopLevel \subseteq Ranges
  /\ \A n \in TopLevel : \E i \in 1..Len(Plan) : n = Plan[i]
  /\ \A m, n \in TopLevel : m # n => Apart(m, n)
  <1>1. \A n \in TopLevel : \E i \in 1..Len(Plan) : n = Plan[i]
    BY PagesFacts DEF TopLevel
  <1>2. ASSUME NEW m \in TopLevel, NEW n \in TopLevel, m # n PROVE Apart(m, n)
    <2>1. PICK i \in 1..Len(Plan) : m = Plan[i]
      BY <1>1
    <2>2. PICK j \in 1..Len(Plan) : n = Plan[j]
      BY <1>1
    <2> QED
      BY <1>2, <2>1, <2>2, PlanFacts
  <1> QED
    BY <1>1, <1>2, PlanFacts

-----------------------------------------------------------------------------
(* TreeInv.                                                                *)

\* Where a half of n lies.
LEMMA HalfPlace ==
  ASSUME NEW n \in Ranges, Subdivide(n) # <<>>, NEW h \in {Left(n), Right(n)}
  PROVE  /\ h \in Ranges /\ h # n /\ InHalf(h, n) /\ ~InHalf(n, h) /\ ~Apart(h, n)
         /\ Apart(Left(n), Right(n))
         /\ \A b \in Ranges : /\ Apart(n, b) => Apart(h, b)
                              /\ InHalf(n, b) => InHalf(h, b)
  <1>1. /\ n[1] \in Nat /\ n[2] \in Nat /\ n[1] <= n[2]
        /\ h \in Ranges /\ h # n /\ h[1] \in Nat /\ h[2] \in Nat /\ h[1] <= h[2]
        /\ n[1] <= h[1] /\ h[2] <= n[2] /\ (n[1] < h[1] \/ h[2] < n[2])
    BY HalvesFacts, RangeFacts
  <1>2. Apart(Left(n), Right(n))
    BY HalvesFacts, RangeFacts DEF Apart
  <1>3. InHalf(h, n)
    BY <1>1 DEF InHalf, Inside
  <1>4. ~Apart(h, n)
    BY <1>1 DEF Apart
  <1>5. ~InHalf(n, h)
    <2> SUFFICES ASSUME InHalf(n, h) PROVE FALSE
      OBVIOUS
    <2>1. Subdivide(h) # <<>>
      BY DEF InHalf
    <2>2. /\ Left(h)[1] = h[1] /\ Right(h)[2] = h[2] /\ Right(h)[1] = Left(h)[2] + 1
          /\ Left(h)[2] < h[2] /\ h[1] < Right(h)[1]
          /\ Left(h)[2] \in Nat /\ Right(h)[1] \in Nat
      BY <1>1, <2>1, HalvesFacts, RangeFacts
    <2> QED
      BY <1>1, <2>2 DEF InHalf, Inside
  <1>6. ASSUME NEW b \in Ranges
        PROVE  /\ Apart(n, b) => Apart(h, b)
               /\ InHalf(n, b) => InHalf(h, b)
    <2>1. b[1] \in Nat /\ b[2] \in Nat
      BY RangeFacts
    <2>2. Apart(n, b) => Apart(h, b)
      BY <1>1, <2>1 DEF Apart
    <2>3. ASSUME InHalf(n, b) PROVE InHalf(h, b)
      <3>1. Subdivide(b) # <<>>
        BY <2>3 DEF InHalf
      <3>2. /\ Left(b)[1] \in Nat /\ Left(b)[2] \in Nat /\ Right(b)[1] \in Nat /\ Right(b)[2] \in Nat
        BY <3>1, HalvesFacts, RangeFacts
      <3> QED
        BY <1>1, <2>3, <3>2 DEF InHalf, Inside
    <2> QED
      BY <2>2, <2>3
  <1> QED
    BY <1>1, <1>2, <1>3, <1>4, <1>5, <1>6

\* There are finitely many ranges.
LEMMA RangesFinite ==
  ASSUME NEW S \in SUBSET Ranges
  PROVE  IsFiniteSet(S) /\ Cardinality(S) \in Nat
  <1>1. IsFiniteSet(Pages)
    BY PagesFacts, FS_Interval DEF Pages
  <1>2. IsFiniteSet(Pages \X Pages)
    BY <1>1, FS_Product
  <1>3. S \in SUBSET (Pages \X Pages)
    BY DEF Ranges
  <1>4. IsFiniteSet(S)
    BY <1>2, <1>3, FS_Subset
  <1> QED
    BY <1>4, FS_CardinalityType

\* At first there are the chunks of the plan, all waiting.
LEMMA TreeInit == OneShotInit => TreeInv
  <1> SUFFICES ASSUME OneShotInit PROVE TreeInv
    OBVIOUS
  <1>1. st = [n \in Ranges |-> IF n \in TopLevel THEN "wait" ELSE "none"]
    BY DEF OneShotInit
  <1>2. info = [n \in Ranges |->
                  [i2 |-> IF n \in TopLevel
                          THEN 2 * ((CHOOSE i \in DOMAIN Plan : Plan[i] = n) - 1) ELSE 0,
                   depth |-> 0, group |-> Root]]
    BY DEF OneShotInit
  <1>3. ASSUME NEW i \in 1..Len(Plan)
        PROVE  (CHOOSE j \in DOMAIN Plan : Plan[j] = Plan[i]) = i
    <2> DEFINE c == CHOOSE j \in DOMAIN Plan : Plan[j] = Plan[i]
    <2>1. c \in 1..Len(Plan) /\ Plan[c] = Plan[i]
      BY PagesFacts
    <2> HIDE DEF c
    <2>2. c = i
      BY <2>1, PlanFacts
    <2> QED
      BY <2>2 DEF c
  <1>4. TopSound
    <2> SUFFICES ASSUME NEW i \in 1..Len(Plan)
                 PROVE  /\ st[Plan[i]] # "none"
                        /\ info[Plan[i]] = [i2 |-> 2 * (i - 1), depth |-> 0, group |-> Root]
      BY DEF TopSound, Live
    <2>1. Plan[i] \in Ranges /\ Plan[i] \in TopLevel
      BY PlanFacts
    <2> QED
      BY <1>1, <1>2, <1>3, <2>1
  <1>5. st \in [Ranges -> States]
    BY <1>1 DEF States
  <1>6. info \in [Ranges -> [i2 : Nat, depth : Nat, group : Groups]]
    <2>1. ASSUME NEW n \in Ranges
          PROVE  (IF n \in TopLevel
                  THEN 2 * ((CHOOSE i \in DOMAIN Plan : Plan[i] = n) - 1) ELSE 0) \in Nat
      <3>1. CASE n \in TopLevel
        <4>1. PICK i \in 1..Len(Plan) : n = Plan[i]
          BY <3>1, TopFacts
        <4>2. (CHOOSE j \in DOMAIN Plan : Plan[j] = n) = i
          BY <1>3, <4>1
        <4>3. 2 * (i - 1) \in Nat
          BY PagesFacts
        <4> QED
          BY <3>1, <4>2, <4>3
      <3> QED
        BY <3>1
    <2>2. Root \in Groups
      BY DEF Groups
    <2> QED
      BY <1>2, <2>1, <2>2
  <1>7. ASSUME NEW n \in Ranges PROVE ChildSound(n) /\ SplitSound(n)
    BY <1>1 DEF ChildSound, SplitSound, Live
  <1>8. Laminar
    <2> SUFFICES ASSUME NEW a \in Ranges, NEW b \in Ranges, Live(a), Live(b), a # b
                 PROVE  Apart(a, b)
      BY DEF Laminar
    <2>1. a \in TopLevel /\ b \in TopLevel
      BY <1>1 DEF Live
    <2> QED
      BY <2>1, TopFacts
  <1>9. RootSlots
    <2>1. SlotHolders = {}
      BY <1>1 DEF SlotHolders, Members
    <2> QED
      BY <2>1, FS_EmptySet, SubdivisionAssumption DEF RootSlots
  <1> QED
    BY <1>4, <1>5, <1>6, <1>7, <1>8, <1>9 DEF TreeInv

\* Who holds one of the outermost slots, as a set of ranges.
LEMMA HoldersAre ==
  SlotHolders = {m \in Ranges : Active(m) /\ info[m].group = Root}
  BY DEF SlotHolders, Members, Active

\* A goroutine goes on, by any step but a halving.
Move(n, y) ==
    /\ st[n] \notin Finished \cup {"none"}
    /\ y \in Finished \cup {"render", "put", "concat"}
    /\ y = "render" => st[n] = "wait" /\ SlotFree(n)
    /\ y = "put" => st[n] = "render"
    /\ y = "concat" => st[n] = "subs"
    /\ st[n] = "subs" => \A m \in Members(n) : st[m] \in Finished
    /\ st' = [st EXCEPT ![n] = y]
    /\ info' = info

\* No such step changes the tree.
LEMMA MoveStep ==
  ASSUME TreeInv, NEW n \in Ranges, NEW y, Move(n, y)
  PROVE  TreeInv'
  <1>1. st \in [Ranges -> States] /\ st[n] \in States /\ st' = [st EXCEPT ![n] = y] /\ info' = info
    BY DEF TreeInv, Move
  <1>2. y \in States
    BY DEF Move, States
  <1>3. st' \in [Ranges -> States] /\ st'[n] = y /\ \A m \in Ranges : m # n => st'[m] = st[m]
    BY <1>1, <1>2
  <1>4. y \notin {"none", "wait"} /\ st[n] \notin Finished \cup {"none"}
    BY DEF Move, Finished
  <1>5. \A m \in Ranges : (Live(m))' <=> Live(m)
    BY <1>3, <1>4 DEF Live
  <1>6. \A m \in Ranges : Past(m) => (Past(m))'
    <2>1. Past(n) => y # "render"
      BY DEF Past, Move
    <2> QED
      BY <1>3, <1>4, <2>1 DEF Past
  <1>7. TopSound'
    <2>1. TopSound
      BY DEF TreeInv
    <2>2. \A i \in 1..Len(Plan) : Plan[i] \in Ranges
      BY PlanFacts
    <2> QED
      BY <1>1, <1>5, <2>1, <2>2 DEF TopSound
  <1>8. ASSUME NEW m \in Ranges PROVE (ChildSound(m))'
    <2>1. SUFFICES ASSUME Live(m), m \notin TopLevel PROVE (ChildSound(m))'
      BY <1>5 DEF ChildSound
    <2> DEFINE g == info[m].group
    <2>2. /\ g \in Ranges /\ Past(g) /\ Subdivide(g) # <<>>
          /\ m \in {Left(g), Right(g)}
          /\ info[m].i2 = info[g].i2 + (IF m = Left(g) THEN 0 ELSE 1)
          /\ info[m].depth = info[g].depth + 1 /\ info[m].depth <= OomDepth
          /\ st[m] \notin Finished => st[g] = "subs"
      BY <2>1 DEF TreeInv, ChildSound
    <2>3. ASSUME st'[m] \notin Finished PROVE st'[g] = "subs"
      <3>1. st[m] \notin Finished
        BY <1>3, <1>4, <2>3
      <3>2. st[g] = "subs"
        BY <2>2, <3>1
      <3>3. g # n
        <4> SUFFICES ASSUME g = n PROVE FALSE
          OBVIOUS
        <4>1. m \in Members(n)
          BY <2>1 DEF Members, Live
        <4> QED
          BY <3>1, <3>2, <4>1 DEF Move
      <3> QED
        BY <1>3, <2>2, <3>2, <3>3
    <2>4. (Past(g))'
      BY <1>6, <2>2, <1>1
    <2> HIDE DEF g
    <2>5. g' = g
      BY <1>1 DEF g
    <2>6. /\ g \in Ranges /\ st'[g] \notin {"none", "wait", "render"} /\ Subdivide(g) # <<>>
          /\ m \in {Left(g), Right(g)}
          /\ info'[m].i2 = info'[g].i2 + (IF m = Left(g) THEN 0 ELSE 1)
          /\ info'[m].depth = info'[g].depth + 1 /\ info'[m].depth <= OomDepth
          /\ st'[m] \notin Finished => st'[g] = "subs"
      BY <1>1, <2>2, <2>3, <2>4, <2>5 DEF Past
    <2> QED
      BY <1>1, <2>6 DEF ChildSound, Past, g
  <1>9. ASSUME NEW m \in Ranges PROVE (SplitSound(m))'
    <2>1. SUFFICES ASSUME st'[m] \in {"subs", "concat"} PROVE (SplitSound(m))'
      BY DEF SplitSound
    <2>2. st[m] \in {"subs", "concat"}
      BY <1>3, <2>1 DEF Move, Finished
    <2>3. /\ info[m].depth < OomDepth /\ Subdivide(m) # <<>>
          /\ Live(Left(m)) /\ info[Left(m)].group = m
          /\ Live(Right(m)) /\ info[Right(m)].group = m
      BY <2>2 DEF TreeInv, SplitSound
    <2>4. Left(m) \in Ranges /\ Right(m) \in Ranges
      BY <2>3, HalvesFacts
    <2>5. (Live(Left(m)))' /\ (Live(Right(m)))'
      BY <1>5, <2>3, <2>4
    <2> QED
      BY <1>1, <2>3, <2>5 DEF SplitSound
  <1>10. Laminar'
    <2> SUFFICES ASSUME NEW a \in Ranges, NEW b \in Ranges, (Live(a))', (Live(b))', a # b
                 PROVE  Apart(a, b) \/ ((Past(b))' /\ InHalf(a, b)) \/ ((Past(a))' /\ InHalf(b, a))
      BY DEF Laminar
    <2>1. Apart(a, b) \/ (Past(b) /\ InHalf(a, b)) \/ (Past(a) /\ InHalf(b, a))
      BY <1>5 DEF TreeInv, Laminar
    <2> QED
      BY <1>6, <2>1
  <1>11. RootSlots'
    <2> DEFINE H == {m \in Ranges : Active(m) /\ info[m].group = Root}
    <2>1. SlotHolders' = {m \in Ranges : (Active(m))' /\ info[m].group = Root}
      BY <1>1 DEF SlotHolders, Members, Active
    <2>2. SlotHolders = H /\ Cardinality(H) <= Parallel /\ IsFiniteSet(H) /\ Cardinality(H) \in Nat
      BY HoldersAre, RangesFinite DEF TreeInv, RootSlots
    <2>3. \A m \in Ranges : m # n => ((Active(m))' <=> Active(m))
      BY <1>3 DEF Active
    <2>4. CASE st[n] = "wait" /\ y = "render" /\ info[n].group = Root
      <3>1. Cardinality(H) < Parallel
        BY <2>2, <2>4 DEF Move, SlotFree, SlotHolders
      <3>2. SlotHolders' \in SUBSET (H \cup {n})
        BY <2>1, <2>3
      <3>3. IsFiniteSet(H \cup {n}) /\ Cardinality(H \cup {n}) <= Cardinality(H) + 1
        <4> HIDE DEF H
        <4>1. /\ IsFiniteSet(H \cup {n})
              /\ Cardinality(H \cup {n}) = IF n \in H THEN Cardinality(H) ELSE Cardinality(H) + 1
          BY <2>2, FS_AddElement
        <4> QED
          BY <2>2, <4>1
      <3>4. Cardinality(SlotHolders') <= Cardinality(H \cup {n})
        BY <3>2, <3>3, FS_Subset
      <3>5. Cardinality(SlotHolders') \in Nat /\ Cardinality(H \cup {n}) \in Nat
        BY <2>1, RangesFinite
      <3> HIDE DEF H
      <3> QED
        BY <2>2, <3>1, <3>3, <3>4, <3>5, SubdivisionAssumption DEF RootSlots
    <2>5. CASE ~(st[n] = "wait" /\ y = "render" /\ info[n].group = Root)
      <3>1. SlotHolders' \in SUBSET H
        <4>1. (Active(n))' /\ info[n].group = Root => Active(n)
          BY <1>3, <1>4, <2>5 DEF Active, Move
        <4> QED
          BY <2>1, <2>3, <4>1
      <3>2. Cardinality(SlotHolders') <= Cardinality(H)
        BY <2>2, <3>1, FS_Subset
      <3>3. Cardinality(SlotHolders') \in Nat
        BY <2>1, RangesFinite
      <3> HIDE DEF H
      <3> QED
        BY <2>2, <3>2, <3>3, SubdivisionAssumption DEF RootSlots
    <2> QED
      BY <2>4, <2>5
  <1>12. info' \in [Ranges -> [i2 : Nat, depth : Nat, group : Groups]]
    BY <1>1 DEF TreeInv
  <1> QED
    BY <1>3, <1>7, <1>8, <1>9, <1>10, <1>11, <1>12 DEF TreeInv

\* A chunk that ran out of memory is halved.
LEMMA HalvingStep ==
  ASSUME TreeInv, NEW n \in Ranges, RenderOom(n), Subdivide(n) # <<>>
  PROVE  TreeInv'
  <1> DEFINE l == Left(n)
             r == Right(n)
             d == info[n].depth + 1
             il == [i2 |-> info[n].i2, depth |-> d, group |-> n]
             ir == [i2 |-> info[n].i2 + 1, depth |-> d, group |-> n]
  <1>1. /\ st \in [Ranges -> States]
        /\ info \in [Ranges -> [i2 : Nat, depth : Nat, group : Groups]]
    BY DEF TreeInv
  <1>2. st[n] = "render" /\ info[n].depth < OomDepth
    BY DEF RenderOom
  <1>3. /\ Subdivide(n) = <<l, r>> /\ l \in Ranges /\ r \in Ranges
        /\ l # r /\ l # n /\ r # n
    BY HalvesFacts
  <1>4. /\ st' = [st EXCEPT ![n] = "subs", ![l] = "wait", ![r] = "wait"]
        /\ info' = [info EXCEPT ![l] = il, ![r] = ir]
    BY DEF RenderOom, Left, Right
  <1>5. /\ InHalf(l, n) /\ ~InHalf(n, l) /\ ~Apart(l, n)
        /\ InHalf(r, n) /\ ~InHalf(n, r) /\ ~Apart(r, n) /\ Apart(l, r)
        /\ \A b \in Ranges : /\ Apart(n, b) => Apart(l, b) /\ Apart(r, b)
                             /\ InHalf(n, b) => InHalf(l, b) /\ InHalf(r, b)
    BY HalfPlace
  <1>6. Live(n) /\ ~Past(n)
    BY <1>2 DEF Live, Past
  <1>7. ~Live(l) /\ ~Live(r)
    BY <1>3, <1>5, <1>6 DEF TreeInv, Laminar
  <1>8. info[n].i2 \in Nat /\ info[n].depth \in Nat /\ n \in Groups
    BY <1>1 DEF Groups
  <1>9. /\ il \in [i2 : Nat, depth : Nat, group : Groups]
        /\ ir \in [i2 : Nat, depth : Nat, group : Groups]
        /\ il.i2 = info[n].i2 /\ il.depth = info[n].depth + 1 /\ il.group = n
        /\ ir.i2 = info[n].i2 + 1 /\ ir.depth = info[n].depth + 1 /\ ir.group = n
    BY <1>8
  <1> HIDE DEF l, r, il, ir
  <1>10. /\ st'[n] = "subs" /\ st'[l] = "wait" /\ st'[r] = "wait"
         /\ \A m \in Ranges : m \notin {n, l, r} => st'[m] = st[m]
         /\ info'[l] = il /\ info'[r] = ir
         /\ \A m \in Ranges : m \notin {l, r} => info'[m] = info[m]
    BY <1>1, <1>3, <1>4
  <1>11. st' \in [Ranges -> States]
    <2>1. {"subs", "wait"} \subseteq States
      BY DEF States
    <2> QED
      BY <1>1, <1>3, <1>4, <2>1
  <1>12. info' \in [Ranges -> [i2 : Nat, depth : Nat, group : Groups]]
    BY <1>1, <1>3, <1>4, <1>9
  <1>13. \A m \in Ranges : m \notin {l, r} => ((Live(m))' <=> Live(m))
    BY <1>2, <1>10 DEF Live
  <1>14. \A m \in Ranges : Past(m) => (Past(m))' /\ m \notin {n, l, r}
    BY <1>6, <1>7, <1>10 DEF Past, Live
  <1>15. TopSound'
    <2> SUFFICES ASSUME NEW i \in 1..Len(Plan)
                 PROVE  /\ (Live(Plan[i]))'
                        /\ info'[Plan[i]] = [i2 |-> 2 * (i - 1), depth |-> 0, group |-> Root]
      BY DEF TopSound
    <2>1. Plan[i] \in Ranges
      BY PlanFacts
    <2>2. Live(Plan[i]) /\ info[Plan[i]] = [i2 |-> 2 * (i - 1), depth |-> 0, group |-> Root]
      BY DEF TreeInv, TopSound
    <2>3. Plan[i] \notin {l, r}
      BY <1>7, <2>2
    <2> QED
      BY <1>10, <1>13, <2>1, <2>2, <2>3
  <1>16. ASSUME NEW m \in Ranges PROVE (ChildSound(m))'
    <2>1. CASE m \in {l, r}
      <3>1. /\ info'[m].group = n /\ info'[m].depth = info[n].depth + 1
            /\ info'[m].i2 = info[n].i2 + (IF m = l THEN 0 ELSE 1)
        BY <1>3, <1>8, <1>9, <1>10, <2>1
      <3>2. info'[n] = info[n]
        BY <1>3, <1>10
      <3>3. info'[m].depth <= OomDepth
        BY <1>2, <1>8, <3>1, SubdivisionAssumption
      <3>4. m \in {Left(n), Right(n)} /\ (m = l <=> m = Left(n))
        BY <2>1 DEF l, r
      <3> QED
        BY <1>10, <3>1, <3>2, <3>3, <3>4 DEF ChildSound, Past
    <2>2. CASE m \notin {l, r}
      <3>1. SUFFICES ASSUME Live(m), m \notin TopLevel PROVE (ChildSound(m))'
        BY <1>13, <2>2 DEF ChildSound
      <3> DEFINE g == info[m].group
      <3>2. /\ g \in Ranges /\ Past(g) /\ Subdivide(g) # <<>>
            /\ m \in {Left(g), Right(g)}
            /\ info[m].i2 = info[g].i2 + (IF m = Left(g) THEN 0 ELSE 1)
            /\ info[m].depth = info[g].depth + 1 /\ info[m].depth <= OomDepth
            /\ st[m] \notin Finished => st[g] = "subs"
        BY <3>1 DEF TreeInv, ChildSound
      <3>3. g \notin {n, l, r} /\ st'[g] = st[g] /\ info'[g] = info[g]
        BY <1>10, <1>14, <3>2
      <3>4. info'[m] = info[m]
        BY <1>10, <2>2
      <3>5. st'[m] \notin Finished => st[m] \notin Finished
        BY <1>2, <1>10, <2>2 DEF Finished
      <3> HIDE DEF g
      <3>6. info'[m].group = g
        BY <3>4 DEF g
      <3> QED
        BY <3>2, <3>3, <3>4, <3>5, <3>6 DEF ChildSound, Past
    <2> QED
      BY <2>1, <2>2
  <1>17. ASSUME NEW m \in Ranges PROVE (SplitSound(m))'
    <2>1. CASE m = n
      <3>1. (Live(l))' /\ (Live(r))'
        BY <1>10 DEF Live
      <3>2. info'[l].group = n /\ info'[r].group = n /\ info'[n] = info[n]
        BY <1>3, <1>9, <1>10
      <3> QED
        BY <1>2, <2>1, <3>1, <3>2 DEF SplitSound, l, r
    <2>2. CASE m # n
      <3>1. SUFFICES ASSUME st'[m] \in {"subs", "concat"} PROVE (SplitSound(m))'
        BY DEF SplitSound
      <3>2. m \notin {l, r} /\ st[m] \in {"subs", "concat"}
        BY <1>10, <2>2, <3>1
      <3>3. /\ info[m].depth < OomDepth /\ Subdivide(m) # <<>>
            /\ Live(Left(m)) /\ info[Left(m)].group = m
            /\ Live(Right(m)) /\ info[Right(m)].group = m
        BY <3>2 DEF TreeInv, SplitSound
      <3>4. Left(m) \in Ranges /\ Right(m) \in Ranges
        BY <3>3, HalvesFacts
      <3>5. Left(m) \notin {l, r} /\ Right(m) \notin {l, r}
        BY <1>7, <3>3
      <3>6. /\ info'[m] = info[m] /\ info'[Left(m)] = info[Left(m)]
            /\ info'[Right(m)] = info[Right(m)]
            /\ (Live(Left(m)))' /\ (Live(Right(m)))'
        BY <1>10, <1>13, <3>2, <3>3, <3>4, <3>5
      <3> QED
        BY <3>3, <3>6 DEF SplitSound
    <2> QED
      BY <2>1, <2>2
  <1>18. Laminar'
    <2> DEFINE Fit(a, b) == Apart(a, b) \/ ((Past(b))' /\ InHalf(a, b))
    <2>1. ASSUME NEW b \in Ranges, (Live(b))', NEW h \in {l, r}, h # b
          PROVE  Fit(h, b) \/ (b \in {l, r} /\ Apart(b, h))
      <3>1. CASE b = n
        BY <1>5, <1>10, <3>1 DEF Past
      <3>2. CASE b \in {l, r}
        BY <1>5, <2>1, <3>2 DEF Apart
      <3>3. CASE b \notin {n, l, r}
        <4>1. Live(b)
          BY <1>13, <2>1, <3>3
        <4>2. Apart(n, b) \/ (Past(b) /\ InHalf(n, b))
          BY <1>6, <3>3, <4>1 DEF TreeInv, Laminar
        <4> QED
          BY <1>5, <1>14, <4>2
      <3> QED
        BY <3>1, <3>2, <3>3
    <2> SUFFICES ASSUME NEW a \in Ranges, NEW b \in Ranges, (Live(a))', (Live(b))', a # b
                 PROVE  Apart(a, b) \/ ((Past(b))' /\ InHalf(a, b)) \/ ((Past(a))' /\ InHalf(b, a))
      BY DEF Laminar
    <2>2. CASE a \in {l, r}
      BY <2>1, <2>2 DEF Apart
    <2>3. CASE b \in {l, r}
      BY <2>1, <2>3 DEF Apart
    <2>4. CASE a \notin {l, r} /\ b \notin {l, r}
      <3>1. Live(a) /\ Live(b)
        BY <1>13, <2>4
      <3>2. Apart(a, b) \/ (Past(b) /\ InHalf(a, b)) \/ (Past(a) /\ InHalf(b, a))
        BY <3>1 DEF TreeInv, Laminar
      <3> QED
        BY <1>14, <3>2
    <2> QED
      BY <2>2, <2>3, <2>4
  <1>19. RootSlots'
    <2>1. SlotHolders' \in SUBSET SlotHolders
      <3>1. SlotHolders' = {m \in Ranges : (Active(m))' /\ info'[m].group = Root}
        BY DEF SlotHolders, Members, Active
      <3>2. ASSUME NEW m \in Ranges, (Active(m))', info'[m].group = Root
            PROVE  Active(m) /\ info[m].group = Root
        <4>1. m \notin {l, r}
          BY <1>10, <3>2 DEF Active
        <4>2. info[m].group = Root
          BY <1>10, <3>2, <4>1
        <4>3. Active(m)
          BY <1>2, <1>10, <3>2, <4>1 DEF Active, Finished
        <4> QED
          BY <4>2, <4>3
      <3> QED
        BY <3>1, <3>2, HoldersAre
    <2>2. SlotHolders \in SUBSET Ranges
      BY HoldersAre
    <2>3. IsFiniteSet(SlotHolders) /\ Cardinality(SlotHolders) \in Nat
      BY <2>2, RangesFinite
    <2>4. Cardinality(SlotHolders') <= Cardinality(SlotHolders)
      BY <2>1, <2>3, FS_Subset
    <2>5. Cardinality(SlotHolders') \in Nat
      BY <2>1, <2>2, RangesFinite
    <2>6. Cardinality(SlotHolders) <= Parallel
      BY DEF TreeInv, RootSlots
    <2> QED
      BY <2>3, <2>4, <2>5, <2>6, SubdivisionAssumption DEF RootSlots
  <1> QED
    BY <1>11, <1>12, <1>15, <1>16, <1>17, <1>18, <1>19 DEF TreeInv

\* Any step of a chunk is a halving or one of the others.
LEMMA MovesFacts ==
  ASSUME NEW n \in Ranges, ChunkStep(n), TreeInv
  PROVE  (RenderOom(n) /\ Subdivide(n) # <<>>) \/ \E y \in States : Move(n, y)
  <1>0. {"skipped", "ok", "err", "render", "put", "concat"} \subseteq States
    BY DEF States, Finished
  <1>1. CASE Skip(n)
    <2>1. Move(n, "skipped")
      BY <1>1 DEF Skip, Move, Finished
    <2> QED
      BY <1>0, <2>1
  <1>2. CASE Start(n)
    <2>1. Move(n, "ok") \/ Move(n, "render")
      BY <1>2 DEF Start, Move, Finished
    <2> QED
      BY <1>0, <2>1
  <1>3. CASE RenderOk(n)
    <2>1. Move(n, "ok") \/ Move(n, "put")
      BY <1>3 DEF RenderOk, Move, Finished
    <2> QED
      BY <1>0, <2>1
  <1>4. CASE PutChunk(n)
    <2>1. Move(n, "ok")
      BY <1>4 DEF PutChunk, Move, Finished
    <2> QED
      BY <1>0, <2>1
  <1>5. CASE RenderOom(n) /\ Subdivide(n) = <<>>
    <2>1. Move(n, "err")
      BY <1>5 DEF RenderOom, Fail, Move, Finished
    <2> QED
      BY <1>0, <2>1
  <1>6. CASE RenderFails(n)
    <2>1. Move(n, "err")
      BY <1>6 DEF RenderFails, Fail, Move, Finished
    <2> QED
      BY <1>0, <2>1
  <1>7. CASE SubsDone(n)
    <2>1. Move(n, "err") \/ Move(n, "concat")
      BY <1>7 DEF SubsDone, Fail, Move, Finished
    <2> QED
      BY <1>0, <2>1
  <1>8. CASE ConcatSubs(n)
    <2>1. Move(n, "err") \/ Move(n, "ok")
      BY <1>8 DEF ConcatSubs, Fail, Move, Finished
    <2> QED
      BY <1>0, <2>1
  <1> QED
    BY <1>1, <1>2, <1>3, <1>4, <1>5, <1>6, <1>7, <1>8 DEF ChunkStep

\* Every step keeps TreeInv.
LEMMA TreeStep == TreeInv /\ [OneShotNext]_oneShotVars => TreeInv'
  <1> SUFFICES ASSUME TreeInv, [OneShotNext]_oneShotVars PROVE TreeInv'
    OBVIOUS
  <1>1. CASE \E n \in Ranges : ChunkStep(n)
    <2>1. PICK n \in Ranges : ChunkStep(n)
      BY <1>1
    <2> QED
      BY <2>1, MovesFacts, MoveStep, HalvingStep
  <1>2. CASE UNCHANGED <<st, info>>
    <2>1. st' = st /\ info' = info
      BY <1>2
    <2> QED
      BY <2>1 DEF TreeInv, TopSound, ChildSound, SplitSound, Laminar, RootSlots, SlotHolders,
                  Members, Live, Past
  <1>3. CASE BeginMerge \/ MergeEnds \/ ClientGone \/ JobOver \/ UNCHANGED oneShotVars
    BY <1>2, <1>3 DEF BeginMerge, MergeEnds, ClientGone, JobOver, oneShotVars
  <1> QED
    BY <1>1, <1>3 DEF OneShotNext

-----------------------------------------------------------------------------
(* HalvingBudget, for any depth.                                           *)

\* Powers of two, from the number of subsets.
LEMMA PowersOfTwo ==
  /\ 2^0 = 1
  /\ \A d \in Nat : 2^d \in Nat /\ 2^(d + 1) = 2 * 2^d
  <1>1. 2^0 = 1
    <2>1. SUBSET {} = {{}}
      OBVIOUS
    <2>2. IsFiniteSet({}) /\ Cardinality({}) = 0
      BY FS_EmptySet
    <2>3. Cardinality(SUBSET {}) = 2^Cardinality({})
      BY <2>2, FS_SUBSET
    <2>4. Cardinality({{}}) = 1
      BY FS_Singleton
    <2> QED
      BY <2>1, <2>2, <2>3, <2>4
  <1>2. ASSUME NEW d \in Nat PROVE 2^d \in Nat /\ 2^(d + 1) = 2 * 2^d
    <2> DEFINE S == SUBSET (1..d)
               A == SUBSET (1..(d + 1))
               T == A \ S
               f == [s \in S |-> s \cup {d + 1}]
    <2>1. /\ IsFiniteSet(1..d) /\ Cardinality(1..d) = d
          /\ IsFiniteSet(1..(d + 1)) /\ Cardinality(1..(d + 1)) = d + 1
      BY FS_Interval
    <2>2. /\ IsFiniteSet(S) /\ Cardinality(S) = 2^d
          /\ IsFiniteSet(A) /\ Cardinality(A) = 2^(d + 1)
      BY <2>1, FS_SUBSET
    <2>3. f \in Bijection(S, T)
      <3>0. d + 1 \notin 1..d /\ 1..(d + 1) = 1..d \cup {d + 1}
        OBVIOUS
      <3>1. f \in [S -> T]
        <4> SUFFICES ASSUME NEW s \in S PROVE s \cup {d + 1} \in T
          OBVIOUS
        <4> QED
          BY <3>0
      <3>2. \A s, t \in S : f[s] = f[t] => s = t
        <4> SUFFICES ASSUME NEW s \in S, NEW t \in S, s \cup {d + 1} = t \cup {d + 1} PROVE s = t
          OBVIOUS
        <4> QED
          BY <3>0
      <3>3. \A t \in T : \E s \in S : f[s] = t
        <4> SUFFICES ASSUME NEW t \in T PROVE \E s \in S : f[s] = t
          OBVIOUS
        <4>1. d + 1 \in t /\ t \ {d + 1} \in S
          BY <3>0
        <4>2. (t \ {d + 1}) \cup {d + 1} = t
          BY <4>1
        <4> QED
          BY <4>1, <4>2
      <3> HIDE DEF f, S, T
      <3> QED
        BY <3>1, <3>2, <3>3 DEF Bijection, Injection, Surjection, IsInjective
    <2>4. IsFiniteSet(T) /\ Cardinality(T) = Cardinality(S)
      <3> HIDE DEF f, S, T
      <3> QED
        BY <2>2, <2>3, FS_Bijection DEF ExistsBijection
    <2>5. A = S \cup T /\ S \cap T = {}
      <3>1. 1..d \subseteq 1..(d + 1)
        OBVIOUS
      <3> QED
        BY <3>1
    <2>6. Cardinality(S) \in Nat
      <3> HIDE DEF S
      <3> QED
        BY <2>2, FS_CardinalityType
    <2>7. Cardinality(A) = Cardinality(S) + Cardinality(T) - Cardinality(S \cap T)
      <3> HIDE DEF S, T, A
      <3> QED
        BY <2>2, <2>4, <2>5, FS_Union
    <2>8. Cardinality(S \cap T) = 0
      BY <2>5, FS_EmptySet
    <2> HIDE DEF S, T, A
    <2> QED
      BY <2>2, <2>4, <2>6, <2>7, <2>8
  <1> QED
    BY <1>1, <1>2

\* A power of two is at least one: there is the empty subset.
LEMMA PowerPositive ==
  ASSUME NEW d \in Nat
  PROVE  2^d >= 1
  <1>1. IsFiniteSet(1..d) /\ Cardinality(1..d) = d
    BY FS_Interval
  <1>2. IsFiniteSet(SUBSET (1..d)) /\ Cardinality(SUBSET (1..d)) = 2^d
    BY <1>1, FS_SUBSET
  <1>3. {} \in SUBSET (1..d)
    OBVIOUS
  <1>4. Cardinality(SUBSET (1..d)) # 0
    BY <1>2, <1>3, FS_EmptySet
  <1>5. 2^d \in Nat
    BY PowersOfTwo
  <1> QED
    BY <1>2, <1>4, <1>5

\* The chunks that hold a slot at depth d, those of them that wait for their
\* halves, and the renders at depth d or deeper.
ActiveAt(d) == {n \in Ranges : Active(n) /\ info[n].depth = d}
SplitAt(d)  == {n \in ActiveAt(d) : st[n] = "subs"}
RendersFrom(d) == {n \in Ranges : st[n] = "render" /\ info[n].depth >= d}

\* Depth 0 is the plan; nothing is deeper than OomDepth.
LEMMA DepthFacts ==
  ASSUME TreeInv, NEW n \in Ranges, Live(n)
  PROVE  /\ info[n].depth \in 0..OomDepth
         /\ info[n].depth = 0 <=> n \in TopLevel
         /\ n \in TopLevel <=> info[n].group = Root
  <1>1. info[n].depth \in Nat
    BY DEF TreeInv
  <1>2. CASE n \in TopLevel
    <2>1. PICK i \in 1..Len(Plan) : n = Plan[i]
      BY <1>2, TopFacts
    <2>2. info[Plan[i]] = [i2 |-> 2 * (i - 1), depth |-> 0, group |-> Root]
      BY DEF TreeInv, TopSound
    <2>3. info[n].depth = 0 /\ info[n].group = Root
      BY <2>1, <2>2
    <2> QED
      BY <1>2, <2>3, SubdivisionAssumption
  <1>3. CASE n \notin TopLevel
    <2>1. /\ info[n].group \in Ranges /\ info[n].depth = info[info[n].group].depth + 1
          /\ info[n].depth <= OomDepth
      BY <1>3 DEF TreeInv, ChildSound
    <2>2. info[info[n].group].depth \in Nat /\ info[n].group # Root
      BY <2>1, RangeFacts DEF TreeInv
    <2> QED
      BY <1>1, <1>3, <2>1, <2>2, SubdivisionAssumption
  <1> QED
    BY <1>2, <1>3

\* There are at most two active chunks for each one halved above them.
LEMMA TwoPerSplit ==
  ASSUME TreeInv, NEW d \in Nat
  PROVE  Cardinality(ActiveAt(d + 1)) <= 2 * Cardinality(SplitAt(d))
  <1> DEFINE A == ActiveAt(d + 1)
             S == SplitAt(d)
             f == [n \in A |-> <<info[n].group, IF n = Left(info[n].group) THEN 1 ELSE 2>>]
  <1>1. A \in SUBSET Ranges /\ S \in SUBSET Ranges
    BY DEF ActiveAt, SplitAt
  <1>2. ASSUME NEW n \in A
        PROVE  info[n].group \in S /\ n \in {Left(info[n].group), Right(info[n].group)}
    <2>1. n \in Ranges /\ Active(n) /\ info[n].depth = d + 1
      BY DEF ActiveAt
    <2>2. Live(n) /\ st[n] \notin Finished
      BY <2>1 DEF Active, Live
    <2>3. n \notin TopLevel
      BY <2>1, <2>2, DepthFacts
    <2>4. /\ info[n].group \in Ranges /\ st[info[n].group] = "subs"
          /\ info[n].depth = info[info[n].group].depth + 1
          /\ n \in {Left(info[n].group), Right(info[n].group)}
      BY <2>1, <2>2, <2>3 DEF TreeInv, ChildSound
    <2>5. info[info[n].group].depth = d
      <3>1. info[info[n].group].depth \in Nat
        BY <2>4 DEF TreeInv
      <3> QED
        BY <2>1, <2>4, <3>1
    <2>6. Active(info[n].group)
      BY <2>4 DEF Active, Finished
    <2> QED
      BY <2>4, <2>5, <2>6 DEF SplitAt, ActiveAt
  <1>3. f \in [A -> S \X {1, 2}]
    BY <1>2
  <1>4. ASSUME NEW m \in A, NEW n \in A, f[m] = f[n] PROVE m = n
    <2>1. info[m].group = info[n].group
      BY <1>4
    <2>2. m = Left(info[m].group) <=> n = Left(info[n].group)
      BY <1>4
    <2> QED
      BY <1>2, <2>1, <2>2
  <1>5. f \in Injection(A, S \X {1, 2})
    <2> HIDE DEF f, A, S
    <2> QED
      BY <1>3, <1>4 DEF Injection, IsInjective
  <1>6. IsFiniteSet(A) /\ Cardinality(A) \in Nat /\ IsFiniteSet(S) /\ Cardinality(S) \in Nat
    BY <1>1, RangesFinite
  <1>7. IsFiniteSet({1, 2}) /\ Cardinality({1, 2}) = 2
    <2>1. IsFiniteSet({1}) /\ Cardinality({1}) = 1
      BY FS_Singleton
    <2>2. {1, 2} = {1} \cup {2} /\ 2 \notin {1}
      OBVIOUS
    <2>3. IsFiniteSet({1} \cup {2}) /\ Cardinality({1} \cup {2}) = Cardinality({1}) + 1
      BY <2>1, <2>2, FS_AddElement
    <2> QED
      BY <2>1, <2>2, <2>3
  <1> HIDE DEF f, A, S
  <1>8. IsFiniteSet(S \X {1, 2}) /\ Cardinality(S \X {1, 2}) = Cardinality(S) * 2
    BY <1>6, <1>7, FS_Product
  <1>9. Cardinality(A) <= Cardinality(S \X {1, 2})
    BY <1>5, <1>8, FS_Injection
  <1>10. Cardinality(A) <= 2 * Cardinality(S)
    BY <1>6, <1>8, <1>9
  <1> QED
    BY <1>10 DEF A, S

\* At each depth, a chunk renders or waits for its halves, or neither.
LEMMA RendersSplit ==
  ASSUME TreeInv, NEW d \in Nat
  PROVE  /\ Cardinality(RendersFrom(d)) + Cardinality(SplitAt(d))
              <= Cardinality(ActiveAt(d)) + Cardinality(RendersFrom(d + 1))
         /\ Cardinality(RendersFrom(d)) \in Nat /\ Cardinality(RendersFrom(d + 1)) \in Nat
         /\ Cardinality(SplitAt(d)) \in Nat /\ Cardinality(ActiveAt(d)) \in Nat
         /\ Cardinality(SplitAt(d)) <= Cardinality(ActiveAt(d))
  <1> DEFINE R == {n \in ActiveAt(d) : st[n] = "render"}
             S == SplitAt(d)
             A == ActiveAt(d)
             F == RendersFrom(d)
             G == RendersFrom(d + 1)
  <1>1. /\ R \in SUBSET Ranges /\ S \in SUBSET Ranges /\ A \in SUBSET Ranges
        /\ F \in SUBSET Ranges /\ G \in SUBSET Ranges
    BY DEF ActiveAt, SplitAt, RendersFrom
  <1>2. /\ IsFiniteSet(R) /\ IsFiniteSet(S) /\ IsFiniteSet(A) /\ IsFiniteSet(F) /\ IsFiniteSet(G)
        /\ Cardinality(R) \in Nat /\ Cardinality(S) \in Nat /\ Cardinality(A) \in Nat
        /\ Cardinality(F) \in Nat /\ Cardinality(G) \in Nat
    BY <1>1, RangesFinite
  <1>3. F = R \cup G
    <2>1. \A n \in Ranges : st[n] = "render" => Active(n)
      BY DEF Active, Finished
    <2>2. \A n \in Ranges : info[n].depth \in Nat
      BY DEF TreeInv
    <2>3. \A n \in Ranges : info[n].depth >= d <=> info[n].depth = d \/ info[n].depth >= d + 1
      BY <2>2
    <2> QED
      BY <2>1, <2>3 DEF RendersFrom, ActiveAt
  <1>4. R \cap S = {} /\ R \cup S \in SUBSET A /\ S \in SUBSET A
    BY DEF SplitAt
  <1> HIDE DEF R, S, A, F, G
  <1>5. Cardinality(F) <= Cardinality(R) + Cardinality(G)
    <2>1. Cardinality(F) = Cardinality(R) + Cardinality(G) - Cardinality(R \cap G)
      BY <1>2, <1>3, FS_Union
    <2>2. Cardinality(R \cap G) \in Nat
      BY <1>2, FS_Intersection, FS_CardinalityType
    <2> QED
      BY <1>2, <2>1, <2>2
  <1>6. Cardinality(R) + Cardinality(S) <= Cardinality(A)
    <2>1. /\ IsFiniteSet(R \cup S)
          /\ Cardinality(R \cup S) = Cardinality(R) + Cardinality(S) - Cardinality(R \cap S)
      BY <1>2, FS_Union
    <2>2. Cardinality(R \cap S) = 0
      BY <1>4, FS_EmptySet
    <2>3. Cardinality(R \cup S) <= Cardinality(A)
      BY <1>2, <1>4, FS_Subset
    <2>4. Cardinality(R \cup S) = Cardinality(R) + Cardinality(S)
      BY <1>2, <2>1, <2>2
    <2> QED
      BY <2>3, <2>4
  <1>7. Cardinality(S) <= Cardinality(A)
    BY <1>2, <1>4, FS_Subset
  <1>8. Cardinality(F) + Cardinality(S) <= Cardinality(A) + Cardinality(G)
    BY <1>2, <1>5, <1>6
  <1> QED
    BY <1>2, <1>7, <1>8 DEF S, A, F, G

\* The arithmetic of one level: r renders at or below it, a chunks active on it,
\* s of them halved, q renders further down.
LEMMA LevelArithmetic ==
  ASSUME NEW r \in Nat, NEW a \in Nat, NEW s \in Nat, NEW q \in Nat, NEW b \in Nat, NEW p \in Nat,
         r + s <= a + q, s <= a, b <= 2 * s, q <= p * b, p >= 1
  PROVE  r <= (2 * p) * a
  <1>1. p * b <= p * (2 * s)
    <2>1. \E x \in Nat : b + x = 2 * s
      <3>1. (2 * s) - b \in Nat /\ b + ((2 * s) - b) = 2 * s
        OBVIOUS
      <3> QED
        BY <3>1
    <2>2. PICK x \in Nat : b + x = 2 * s
      BY <2>1
    <2>3. p * (2 * s) = p * b + p * x /\ p * x \in Nat /\ p * b \in Nat
      BY <2>2
    <2> QED
      BY <2>3
  <1>2. PICK t \in Nat : a = s + t
    <2>1. a - s \in Nat /\ a = s + (a - s)
      OBVIOUS
    <2> QED
      BY <2>1
  <1>3. r <= t + q
    BY <1>2
  <1>4. (2 * p) * a = p * (2 * s) + (2 * p) * t
    BY <1>2
  <1>5. t <= (2 * p) * t
    <2>1. PICK u \in Nat : 2 * p = 1 + u
      <3>1. (2 * p) - 1 \in Nat /\ 2 * p = 1 + ((2 * p) - 1)
        OBVIOUS
      <3> QED
        BY <3>1
    <2>2. (2 * p) * t = t + u * t /\ u * t \in Nat
      BY <2>1
    <2> QED
      BY <2>2
  <1>6. p * b \in Nat /\ p * (2 * s) \in Nat /\ (2 * p) * t \in Nat
    OBVIOUS
  <1> QED
    BY <1>1, <1>3, <1>4, <1>5, <1>6

\* From the deepest level up: renders below a level are bounded by its chunks.
LEMMA RendersBounded ==
  ASSUME TreeInv, NEW d \in 0..OomDepth
  PROVE  Cardinality(RendersFrom(OomDepth - d)) <= 2^d * Cardinality(ActiveAt(OomDepth - d))
  <1> DEFINE Wrong == {x \in 0..OomDepth :
               ~(Cardinality(RendersFrom(OomDepth - x)) <= 2^x * Cardinality(ActiveAt(OomDepth - x)))}
  <1>0. OomDepth \in Nat
    BY SubdivisionAssumption
  <1>1. SUFFICES ASSUME Wrong # {} PROVE FALSE
    OBVIOUS
  <1>2. PICK x \in Wrong : \A y \in Wrong : ~(y < x)
    <2>1. Wrong \subseteq Nat
      BY <1>0
    <2> HIDE DEF Wrong
    <2> QED
      BY <1>1, <2>1, LeastNumber
  <1>3. /\ x \in 0..OomDepth /\ x \in Nat
        /\ ~(Cardinality(RendersFrom(OomDepth - x)) <= 2^x * Cardinality(ActiveAt(OomDepth - x)))
    BY <1>0, <1>2
  <1>4. CASE x = 0
    <2>1. RendersFrom(OomDepth) \in SUBSET ActiveAt(OomDepth)
      <3> SUFFICES ASSUME NEW n \in Ranges, st[n] = "render", info[n].depth >= OomDepth
                   PROVE  Active(n) /\ info[n].depth = OomDepth
        BY DEF RendersFrom, ActiveAt
      <3>1. Live(n) /\ Active(n)
        BY DEF Live, Active, Finished
      <3>2. info[n].depth \in 0..OomDepth
        BY <3>1, DepthFacts
      <3> QED
        BY <1>0, <3>1, <3>2
    <2>2. IsFiniteSet(ActiveAt(OomDepth)) /\ Cardinality(ActiveAt(OomDepth)) \in Nat
      <3>1. ActiveAt(OomDepth) \in SUBSET Ranges
        BY DEF ActiveAt
      <3> QED
        BY <3>1, RangesFinite
    <2>3. Cardinality(RendersFrom(OomDepth)) <= Cardinality(ActiveAt(OomDepth))
      BY <2>1, <2>2, FS_Subset
    <2>4. OomDepth - x = OomDepth /\ 2^x = 1
      BY <1>0, <1>4, PowersOfTwo
    <2>5. 2^x * Cardinality(ActiveAt(OomDepth)) = Cardinality(ActiveAt(OomDepth))
      BY <2>2, <2>4
    <2> QED
      BY <1>3, <2>3, <2>4, <2>5
  <1>5. CASE x # 0
    <2> DEFINE e == OomDepth - x
               w == x - 1
    <2>1. e \in Nat /\ w \in Nat /\ w \in 0..OomDepth /\ OomDepth - w = e + 1 /\ w < x /\ w + 1 = x
      BY <1>0, <1>3, <1>5
    <2>2. w \notin Wrong
      BY <1>2, <2>1
    <2>3. Cardinality(RendersFrom(OomDepth - w)) <= 2^w * Cardinality(ActiveAt(OomDepth - w))
      BY <2>1, <2>2
    <2> HIDE DEF e, w
    <2>4. Cardinality(RendersFrom(e + 1)) <= 2^w * Cardinality(ActiveAt(e + 1))
      BY <2>1, <2>3
    <2>5. 2^w \in Nat /\ 2^x = 2 * 2^w
      BY <2>1, PowersOfTwo
    <2>6. 2^w >= 1
      BY <2>1, PowerPositive
    <2>7. Cardinality(ActiveAt(e + 1)) \in Nat
      <3>1. ActiveAt(e + 1) \in SUBSET Ranges
        BY DEF ActiveAt
      <3> QED
        BY <3>1, RangesFinite
    <2>8. Cardinality(RendersFrom(e)) <= (2 * 2^w) * Cardinality(ActiveAt(e))
      BY <2>1, <2>4, <2>5, <2>6, <2>7, TwoPerSplit, RendersSplit, LevelArithmetic
    <2> QED
      BY <1>3, <2>5, <2>8 DEF e
  <1> QED
    BY <1>4, <1>5

\* With level 0 inside its slots, the renders keep to their bound.
LEMMA BudgetKept == TreeInv => HalvingBudget
  <1> SUFFICES ASSUME TreeInv PROVE HalvingBudget
    OBVIOUS
  <1>0. OomDepth \in Nat /\ Parallel \in Nat
    BY SubdivisionAssumption
  <1>1. Cardinality(RendersFrom(0)) <= 2^OomDepth * Cardinality(ActiveAt(0))
    <2>1. OomDepth \in 0..OomDepth /\ OomDepth - OomDepth = 0
      BY <1>0
    <2> QED
      BY <2>1, RendersBounded
  <1>2. {n \in Ranges : st[n] = "render"} = RendersFrom(0)
    <2>1. \A n \in Ranges : info[n].depth >= 0
      BY DEF TreeInv
    <2> QED
      BY <2>1 DEF RendersFrom
  <1>3. ActiveAt(0) = SlotHolders
    <2>1. \A n \in Ranges : Active(n) => (info[n].depth = 0 <=> info[n].group = Root)
      BY DepthFacts DEF Active, Live
    <2> QED
      BY <2>1, HoldersAre DEF ActiveAt
  <1>4. Cardinality(ActiveAt(0)) <= Parallel /\ Cardinality(ActiveAt(0)) \in Nat
    <2>1. ActiveAt(0) \in SUBSET Ranges
      BY DEF ActiveAt
    <2> QED
      BY <1>3, <2>1, RangesFinite DEF TreeInv, RootSlots
  <1>5. 2^OomDepth \in Nat
    BY <1>0, PowersOfTwo
  <1>6. 2^OomDepth * Cardinality(ActiveAt(0)) <= Parallel * 2^OomDepth
    <2>1. ASSUME NEW p \in Nat, NEW a \in Nat, a <= Parallel PROVE p * a <= Parallel * p
      <3>1. PICK t \in Nat : Parallel = a + t
        <4>1. Parallel - a \in Nat /\ Parallel = a + (Parallel - a)
          BY <1>0, <2>1
        <4> QED
          BY <4>1
      <3>2. Parallel * p = p * a + t * p /\ t * p \in Nat /\ p * a \in Nat
        BY <3>1
      <3> QED
        BY <3>2
    <2> QED
      BY <1>4, <1>5, <2>1
  <1>7. Cardinality(RendersFrom(0)) \in Nat
    BY RendersSplit
  <1>8. 2^OomDepth * Cardinality(ActiveAt(0)) \in Nat /\ Parallel * 2^OomDepth \in Nat
    BY <1>0, <1>4, <1>5
  <1>9. Cardinality(RendersFrom(0)) <= Parallel * 2^OomDepth
    BY <1>1, <1>6, <1>7, <1>8
  <1> QED
    BY <1>2, <1>9 DEF HalvingBudget, Rendering

\* HalvingBudget holds for every plan, every number of slots and every depth:
\* each halving at most doubles the processes under the slot it happens in.
THEOREM ProcessesAlwaysBounded == OneShotSpec => []HalvingBudget
  <1>1. OneShotInit => TreeInv
    BY TreeInit
  <1>2. TreeInv /\ [OneShotNext]_oneShotVars => TreeInv'
    BY TreeStep
  <1>3. TreeInv => HalvingBudget
    BY BudgetKept
  <1> QED
    BY <1>1, <1>2, <1>3, PTL DEF OneShotSpec


-----------------------------------------------------------------------------
(* Pages and files.                                                        *)

\* A chunk's pages are a sequence, never empty.
LEMMA PagesOfFacts ==
  ASSUME NEW a \in Nat, NEW b \in Nat, a <= b
  PROVE  /\ PagesOf(<<a, b>>) \in Seq(Nat) /\ PagesOf(<<a, b>>) # <<>>
         /\ Len(PagesOf(<<a, b>>)) = (b - a) + 1
         /\ \A i \in 1..((b - a) + 1) : PagesOf(<<a, b>>)[i] = (a + i) - 1
  <1> DEFINE s == [i \in 1..(b - a + 1) |-> a + i - 1]
  <1>1. PagesOf(<<a, b>>) = s
    BY DEF PagesOf
  <1>2. b - a + 1 \in Nat \ {0}
    OBVIOUS
  <1>3. s \in Seq(Nat) /\ Len(s) = b - a + 1
    BY <1>2
  <1>4. s # <<>>
    BY <1>2, <1>3
  <1>5. \A i \in 1..((b - a) + 1) : s[i] = (a + i) - 1
    BY <1>2
  <1> QED
    BY <1>1, <1>3, <1>4, <1>5

\* The pages of two adjacent ranges, one after the other.
LEMMA PagesJoin ==
  ASSUME NEW a \in Nat, NEW b \in Nat, NEW c \in Nat, a <= b, b < c
  PROVE  PagesOf(<<a, b>>) \o PagesOf(<<b + 1, c>>) = PagesOf(<<a, c>>)
  <1> DEFINE s == PagesOf(<<a, b>>)
             t == PagesOf(<<b + 1, c>>)
             u == PagesOf(<<a, c>>)
  <1>1. /\ s \in Seq(Nat) /\ Len(s) = (b - a) + 1
        /\ \A i \in 1..((b - a) + 1) : s[i] = (a + i) - 1
    BY PagesOfFacts
  <1>2. /\ t \in Seq(Nat) /\ Len(t) = (c - (b + 1)) + 1
        /\ \A i \in 1..((c - (b + 1)) + 1) : t[i] = ((b + 1) + i) - 1
    <2>1. b + 1 \in Nat /\ b + 1 <= c
      OBVIOUS
    <2> QED
      BY <2>1, PagesOfFacts
  <1>3. /\ u \in Seq(Nat) /\ Len(u) = (c - a) + 1
        /\ \A i \in 1..((c - a) + 1) : u[i] = (a + i) - 1
    BY PagesOfFacts
  <1> HIDE DEF s, t, u
  <1>4. s \o t \in Seq(Nat) /\ Len(s \o t) = Len(s) + Len(t)
    BY <1>1, <1>2, ConcatProperties
  <1>5. Len(s \o t) = Len(u)
    BY <1>1, <1>2, <1>3, <1>4
  <1>6. ASSUME NEW i \in 1..Len(u) PROVE (s \o t)[i] = u[i]
    <2>1. i \in Nat /\ 1 <= i /\ i <= (c - a) + 1
      BY <1>3
    <2>2. CASE i <= Len(s)
      <3>1. (s \o t)[i] = s[i]
        BY <1>1, <1>2, <2>1, <2>2
      <3> QED
        BY <1>1, <1>3, <2>1, <2>2, <3>1
    <2>3. CASE ~(i <= Len(s))
      <3>1. (s \o t)[i] = t[i - Len(s)] /\ i - Len(s) \in 1..Len(t)
        BY <1>1, <1>2, <2>1, <2>3
      <3>2. t[i - Len(s)] = ((b + 1) + (i - Len(s))) - 1
        BY <1>2, <3>1
      <3>3. ((b + 1) + (i - Len(s))) - 1 = (a + i) - 1
        BY <1>1, <2>1
      <3> QED
        BY <1>3, <2>1, <3>1, <3>2, <3>3
    <2> QED
      BY <2>2, <2>3
  <1>7. s \o t = u
    BY <1>3, <1>4, <1>5, <1>6, SeqEqual
  <1> QED
    BY <1>7 DEF s, t, u

\* qpdf over consecutive ranges gives the pages from the first to the last.
LEMMA FlattenPages ==
  ASSUME NEW p \in Seq(Nat \X Nat), p # <<>>,
         \A i \in 1..Len(p) : p[i][1] <= p[i][2],
         \A i \in 2..Len(p) : p[i][1] = p[i - 1][2] + 1
  PROVE  FlattenSeq([i \in DOMAIN p |-> PagesOf(p[i])]) = PagesOf(<<p[1][1], p[Len(p)][2]>>)
  <1> DEFINE q == [i \in DOMAIN p |-> PagesOf(p[i])]
             F(f) == [i \in 1..Len(q) |-> IF i = 1 THEN q[i] ELSE f[i - 1] \o q[i]]
             g == [i \in 1..Len(q) |-> PagesOf(<<p[1][1], p[i][2]>>)]
             flat == CHOOSE f : f = F(f)
  <1>0. Len(p) \in Nat \ {0} /\ DOMAIN p = 1..Len(p) /\ \A i \in 1..Len(p) : p[i] \in Nat \X Nat
    OBVIOUS
  <1>1. Len(q) = Len(p)
    BY <1>0
  <1>2. \A i \in 1..Len(p) : /\ p[i][1] \in Nat /\ p[i][2] \in Nat /\ p[i] = <<p[i][1], p[i][2]>>
                             /\ q[i] = PagesOf(<<p[i][1], p[i][2]>>)
    <2>1. ASSUME NEW i \in 1..Len(p)
          PROVE  p[i][1] \in Nat /\ p[i][2] \in Nat /\ p[i] = <<p[i][1], p[i][2]>>
      BY <1>0
    <2>2. \A i \in 1..Len(p) : q[i] = PagesOf(p[i])
      BY <1>0
    <2> QED
      BY <2>1, <2>2
  <1>3. FlattenSeq(q) = flat[Len(q)]
    <2>1. Len(q) # 0
      BY <1>0, <1>1
    <2> HIDE DEF q
    <2> QED
      BY <2>1, Zenon DEF FlattenSeq
  <1> HIDE DEF q
  <1>4. ASSUME NEW i \in 1..Len(p), i # 1 PROVE p[1][1] <= p[i - 1][2] /\ i - 1 \in 1..Len(p)
    <2> DEFINE Wrong == {x \in 1..Len(p) : ~(p[1][1] <= p[x][2])}
    <2>1. Wrong = {}
      <3> SUFFICES ASSUME Wrong # {} PROVE FALSE
        OBVIOUS
      <3>1. PICK x \in Wrong : \A y \in Wrong : ~(y < x)
        <4>1. Wrong \subseteq Nat
          BY <1>0
        <4> HIDE DEF Wrong
        <4> QED
          BY <4>1, LeastNumber
      <3>2. x \in 1..Len(p) /\ ~(p[1][1] <= p[x][2]) /\ 1 \in 1..Len(p)
        BY <1>0
      <3>3. x # 1
        BY <1>0, <3>2
      <3>4. x - 1 \in 1..Len(p) /\ x - 1 < x /\ x \in 2..Len(p)
        BY <1>0, <3>2, <3>3
      <3>5. p[1][1] <= p[x - 1][2]
        BY <3>1, <3>4
      <3>6. p[x][1] = p[x - 1][2] + 1 /\ p[x][1] <= p[x][2]
        BY <3>4
      <3>7. p[1][1] \in Nat /\ p[x - 1][2] \in Nat /\ p[x][2] \in Nat
        BY <1>2, <3>2, <3>4
      <3>8. p[x - 1][2] + 1 <= p[x][2]
        BY <3>6
      <3>9. ASSUME NEW a \in Nat, NEW b \in Nat, NEW c \in Nat, a <= b, b + 1 <= c PROVE a <= c
        BY <3>9
      <3>10. p[1][1] <= p[x][2]
        BY <3>5, <3>7, <3>8, <3>9
      <3> QED
        BY <3>2, <3>10
    <2>2. i - 1 \in 1..Len(p)
      BY <1>0, <1>4
    <2> QED
      BY <2>1, <2>2
  <1>5. g = F(g)
    <2>1. ASSUME NEW i \in 1..Len(q) PROVE g[i] = F(g)[i]
      <3>0. i \in 1..Len(p) /\ 1 \in 1..Len(p)
        BY <1>0, <1>1
      <3>1. CASE i = 1
        <4>1. g[1] = PagesOf(<<p[1][1], p[1][2]>>) /\ F(g)[1] = q[1]
          BY <3>1
        <4> QED
          BY <1>2, <3>0, <3>1, <4>1
      <3>2. CASE i # 1
        <4>0. Len(p) \in Nat
          BY <1>0
        <4>1. p[1][1] <= p[i - 1][2] /\ i - 1 \in 1..Len(p) /\ i \in 2..Len(p)
          <5>1. p[1][1] <= p[i - 1][2] /\ i - 1 \in 1..Len(p)
            BY <1>4, <3>0, <3>2
          <5>2. i \in 2..Len(p)
            BY <3>0, <3>2, <4>0
          <5> QED
            BY <5>1, <5>2
        <4>2. p[i][1] = p[i - 1][2] + 1 /\ p[i][1] <= p[i][2]
          BY <3>0, <4>1
        <4>3. p[i - 1][2] < p[i][2] /\ p[i - 1][2] \in Nat /\ p[i][2] \in Nat /\ p[1][1] \in Nat
          <5>1. p[i - 1][2] \in Nat /\ p[i][2] \in Nat /\ p[1][1] \in Nat
            BY <1>2, <3>0, <4>1
          <5> QED
            BY <4>2, <5>1, SMTT(30)
        <4>4. PagesOf(<<p[1][1], p[i - 1][2]>>) \o PagesOf(<<p[i - 1][2] + 1, p[i][2]>>)
                = PagesOf(<<p[1][1], p[i][2]>>)
          BY <4>1, <4>3, PagesJoin
        <4>5. q[i] = PagesOf(<<p[i - 1][2] + 1, p[i][2]>>)
          BY <1>2, <3>0, <4>2
        <4>6. /\ g[i] = PagesOf(<<p[1][1], p[i][2]>>) /\ g[i - 1] = PagesOf(<<p[1][1], p[i - 1][2]>>)
              /\ F(g)[i] = g[i - 1] \o q[i]
          BY <1>1, <3>2, <4>1
        <4> QED
          BY <4>4, <4>5, <4>6
      <3> QED
        BY <3>1, <3>2
    <2> QED
      BY <2>1
  <1>6. flat = F(flat)
    BY <1>5, Zenon
  <1> DEFINE Wrong == {i \in 1..Len(q) : flat[i] # g[i]}
  <1>7. CASE Wrong = {}
    <2>1. Len(q) \in 1..Len(q)
      BY <1>0, <1>1
    <2>2. flat[Len(q)] = g[Len(q)]
      BY <1>7, <2>1
    <2>3. g[Len(q)] = PagesOf(<<p[1][1], p[Len(p)][2]>>)
      BY <1>1, <2>1
    <2> QED
      BY <1>3, <2>2, <2>3, Zenon DEF q
  <1>8. CASE Wrong # {}
    <2> HIDE DEF g, F, flat
    <2>1. Wrong \subseteq Nat
      BY <1>0, <1>1
    <2>2. PICK i \in Wrong : \A j \in Wrong : ~(j < i)
      BY <1>8, <2>1, LeastNumber
    <2>3. i \in 1..Len(q) /\ flat[i] = F(flat)[i] /\ g[i] = F(g)[i] /\ flat[i] # g[i]
      BY <1>5, <1>6
    <2>4. CASE i = 1
      BY <2>3, <2>4 DEF F
    <2>5. CASE i # 1
      <3>1. i - 1 \in 1..Len(q) /\ i - 1 < i
        BY <1>0, <1>1, <2>3, <2>5, SMTT(30)
      <3>2. flat[i - 1] = g[i - 1]
        BY <2>2, <3>1
      <3>3. F(flat)[i] = F(g)[i]
        BY <2>3, <2>5, <3>2 DEF F
      <3> QED
        BY <2>3, <3>3
    <2> QED
      BY <2>4, <2>5
  <1> QED
    BY <1>7, <1>8

\* The plan's chunks, one after the other, are the document.
LEMMA PlanFlattens == FlattenSeq([i \in DOMAIN Plan |-> PagesOf(Plan[i])]) = Document
  <1>1. /\ Plan \in Seq(Nat \X Nat) /\ Plan # <<>>
        /\ \A i \in 1..Len(Plan) : Plan[i][1] <= Plan[i][2]
        /\ \A i \in 2..Len(Plan) : Plan[i][1] = Plan[i - 1][2] + 1
        /\ Plan[1][1] = 1
    <2>1. Plan \in Seq(Nat \X Nat) /\ Plan # <<>>
      BY SubdivisionAssumption DEF IsPlan
    <2>2. \A i \in 1..Len(Plan) : /\ Plan[i][1] = IF i = 1 THEN 1 ELSE Plan[i - 1][2] + 1
                                  /\ Plan[i][1] <= Plan[i][2]
      BY SubdivisionAssumption DEF IsPlan
    <2>3. Len(Plan) \in Nat \ {0}
      BY PagesFacts
    <2>4. \A i \in 2..Len(Plan) : i \in 1..Len(Plan) /\ i # 1
      BY <2>3
    <2>5. 1 \in 1..Len(Plan)
      BY <2>3
    <2> QED
      BY <2>1, <2>2, <2>4, <2>5
  <1>2. FlattenSeq([i \in DOMAIN Plan |-> PagesOf(Plan[i])]) = PagesOf(<<1, Plan[Len(Plan)][2]>>)
    BY <1>1, FlattenPages
  <1> DEFINE c == Plan[Len(Plan)][2]
  <1>3. c \in Nat
    BY PagesFacts
  <1> HIDE DEF c
  <1>4. PagesOf(<<1, c>>) = [i \in 1..c |-> i]
    <2>1. PagesOf(<<1, c>>) = [i \in 1..(c - 1 + 1) |-> 1 + i - 1]
      BY DEF PagesOf
    <2>2. c - 1 + 1 = c /\ \A i \in 1..c : 1 + i - 1 = i
      BY <1>3
    <2> QED
      BY <2>1, <2>2
  <1> QED
    BY <1>2, <1>4 DEF Document, Pages, c

\* Two halves, one after the other, are the chunk they came from.
LEMMA HalvesFlatten ==
  ASSUME NEW n \in Ranges, Subdivide(n) # <<>>
  PROVE  FlattenSeq([i \in DOMAIN Subdivide(n) |-> PagesOf(Subdivide(n)[i])]) = PagesOf(n)
  <1> DEFINE l == Left(n)
             r == Right(n)
             p == <<l, r>>
  <1>1. /\ Subdivide(n) = p /\ l \in Ranges /\ r \in Ranges
        /\ l[1] = n[1] /\ r[2] = n[2] /\ r[1] = l[2] + 1
    BY HalvesFacts
  <1>2. /\ l[1] \in Nat /\ l[2] \in Nat /\ l[1] <= l[2] /\ l = <<l[1], l[2]>>
        /\ r[1] \in Nat /\ r[2] \in Nat /\ r[1] <= r[2] /\ r = <<r[1], r[2]>>
        /\ n = <<n[1], n[2]>>
    BY <1>1, RangeFacts
  <1> HIDE DEF l, r
  <1>3. l \in Nat \X Nat /\ r \in Nat \X Nat
    BY <1>2
  <1>4. p \in Seq(Nat \X Nat) /\ p # <<>> /\ Len(p) = 2 /\ p[1] = l /\ p[2] = r
    BY <1>3
  <1> HIDE DEF p
  <1>5. \A i \in 1..Len(p) : p[i][1] <= p[i][2]
    BY <1>2, <1>4
  <1>6. \A i \in 2..Len(p) : p[i][1] = p[i - 1][2] + 1
    BY <1>1, <1>4
  <1>7. FlattenSeq([i \in DOMAIN p |-> PagesOf(p[i])]) = PagesOf(<<p[1][1], p[Len(p)][2]>>)
    BY <1>4, <1>5, <1>6, FlattenPages
  <1>8. <<p[1][1], p[Len(p)][2]>> = n
    BY <1>1, <1>2, <1>4
  <1> QED
    BY <1>1, <1>7, <1>8

-----------------------------------------------------------------------------
(* Who writes and who reads a file, with one halving at most.              *)

\* The names of the scratch directory tell kind and index apart.
LEMMA NamesDiffer ==
  /\ \A i, j : ChunkFile(i) = ChunkFile(j) => i = j
  /\ \A i, j : MergedFile(i) = MergedFile(j) => i = j
  /\ \A i, j : ChunkFile(i) # MergedFile(j)
  /\ \A i : ChunkFile(i) # InCache /\ ChunkFile(i) # NoPath
  /\ \A i : MergedFile(i) # InCache /\ MergedFile(i) # NoPath
  /\ InCache # NoPath
  <1>1. /\ \A i : ChunkFile(i).kind = "chunk" /\ ChunkFile(i).i2 = i
        /\ \A i : MergedFile(i).kind = "merged" /\ MergedFile(i).i2 = i
        /\ InCache.kind = "cache" /\ NoPath.kind = "none"
    BY DEF ChunkFile, MergedFile, InCache, NoPath
  <1> QED
    BY <1>1

\* The pages of a range.
LEMMA RangePages ==
  ASSUME NEW n \in Ranges
  PROVE  PagesOf(n) \in Seq(Nat) /\ PagesOf(n) # <<>>
  <1>1. n[1] \in Nat /\ n[2] \in Nat /\ n[1] <= n[2] /\ n = <<n[1], n[2]>>
    BY RangeFacts
  <1>2. PagesOf(<<n[1], n[2]>>) \in Seq(Nat) /\ PagesOf(<<n[1], n[2]>>) # <<>>
    BY <1>1, PagesOfFacts
  <1> QED
    BY <1>1, <1>2

\* A chunk of the plan has an even index, a half that of its chunk, or the next.
LEMMA IndexFacts ==
  ASSUME TreeInv, OneHalving, NEW n \in Ranges, Live(n)
  PROVE  /\ n \in TopLevel =>
              /\ info[n].group = Root
              /\ \E i \in 1..Len(Plan) : n = Plan[i] /\ info[n].i2 = 2 * (i - 1)
         /\ n \notin TopLevel =>
              LET g == info[n].group IN
              /\ g \in TopLevel /\ g \in Ranges /\ g # n /\ Past(g) /\ Subdivide(g) # <<>>
              /\ n \in {Left(g), Right(g)} /\ Inside(n, g)
              /\ info[n].i2 = info[g].i2 + (IF n = Left(g) THEN 0 ELSE 1)
              /\ st[n] \notin Finished => st[g] = "subs"
  <1>1. CASE n \in TopLevel
    <2>1. PICK i \in 1..Len(Plan) : n = Plan[i]
      BY <1>1, TopFacts
    <2>2. info[Plan[i]] = [i2 |-> 2 * (i - 1), depth |-> 0, group |-> Root]
      BY DEF TreeInv, TopSound
    <2>3. info[n].i2 = 2 * (i - 1) /\ info[n].group = Root
      BY <2>1, <2>2
    <2> QED
      BY <1>1, <2>1, <2>3
  <1>2. CASE n \notin TopLevel
    <2> DEFINE g == info[n].group
    <2>1. /\ g \in Ranges /\ Past(g) /\ Subdivide(g) # <<>>
          /\ n \in {Left(g), Right(g)}
          /\ info[n].i2 = info[g].i2 + (IF n = Left(g) THEN 0 ELSE 1)
          /\ info[n].depth = info[g].depth + 1 /\ info[n].depth <= OomDepth
          /\ st[n] \notin Finished => st[g] = "subs"
      BY <1>2 DEF TreeInv, ChildSound
    <2> HIDE DEF g
    <2>2. Live(g) /\ info[g].depth \in Nat
      BY <2>1 DEF Past, Live, TreeInv
    <2>3. info[g].depth = 0
      BY <2>1, <2>2, SubdivisionAssumption DEF OneHalving
    <2>4. g \in TopLevel
      BY <2>1, <2>2, <2>3, DepthFacts
    <2>5. Inside(n, g) /\ g # n
      <3>1. g[1] \in Nat /\ g[2] \in Nat
        BY <2>1, RangeFacts
      <3>2. n[1] \in Nat /\ n[2] \in Nat
        BY RangeFacts
      <3> QED
        BY <2>1, <3>1, <3>2, HalvesFacts DEF Inside
    <2> QED
      BY <1>2, <2>1, <2>4, <2>5 DEF g
  <1> QED
    BY <1>1, <1>2

\* The files of a chunk are files of the scratch directory.
LEMMA FilesFacts ==
  ASSUME TreeInv, OneHalving, NEW n \in Ranges, Live(n)
  PROVE  ChunkFile(info[n].i2) \in Files /\ MergedFile(info[n].i2) \in Files
  <1>0. Len(Plan) \in Nat \ {0}
    BY PagesFacts
  <1>1. ASSUME NEW i \in 1..Len(Plan) PROVE 2 * (i - 1) \in Nat /\ 2 * (i - 1) + 1 <= 2 * Len(Plan)
    BY <1>0
  <1>2. info[n].i2 \in Nat /\ info[n].i2 <= 2 * Len(Plan)
    <2>1. CASE n \in TopLevel
      <3>1. PICK i \in 1..Len(Plan) : info[n].i2 = 2 * (i - 1)
        BY <2>1, IndexFacts
      <3> QED
        BY <1>0, <1>1, <3>1
    <2>2. CASE n \notin TopLevel
      <3> DEFINE g == info[n].group
      <3>1. /\ g \in TopLevel /\ g \in Ranges /\ Past(g)
            /\ info[n].i2 = info[g].i2 + (IF n = Left(g) THEN 0 ELSE 1)
        BY <2>2, IndexFacts
      <3> HIDE DEF g
      <3>2. Live(g)
        BY <3>1 DEF Past, Live
      <3>3. PICK i \in 1..Len(Plan) : info[g].i2 = 2 * (i - 1)
        BY <3>1, <3>2, IndexFacts
      <3> QED
        BY <1>0, <1>1, <3>1, <3>3
    <2> QED
      BY <2>1, <2>2
  <1>3. Cardinality(Pages) \in Nat
    <2>1. IsFiniteSet(Pages)
      BY PagesFacts, FS_Interval DEF Pages
    <2> QED
      BY <2>1, FS_CardinalityType
  <1>4. info[n].i2 \in 0..MaxIndex2
    BY <1>0, <1>2, <1>3 DEF MaxIndex2
  <1> QED
    BY <1>4 DEF ChunkFile, MergedFile, Files

\* Two chunks share an index only if one is the left half of the other.
LEMMA IndexShared ==
  ASSUME TreeInv, OneHalving, NEW m \in Ranges, Live(m), NEW n \in Ranges, Live(n),
         m # n, info[m].i2 = info[n].i2
  PROVE  \/ m \in TopLevel /\ n \notin TopLevel /\ info[n].group = m
         \/ n \in TopLevel /\ m \notin TopLevel /\ info[m].group = n
  <1>0. Len(Plan) \in Nat
    BY PagesFacts
  <1>1. ASSUME NEW a \in Ranges, Live(a)
        PROVE  \E i \in 1..Len(Plan) :
                 \/ a = Plan[i] /\ info[a].i2 = 2 * (i - 1)
                 \/ /\ a \notin TopLevel /\ info[a].group = Plan[i] /\ a = Left(Plan[i])
                    /\ info[a].i2 = 2 * (i - 1)
                 \/ /\ a \notin TopLevel /\ info[a].group = Plan[i] /\ a = Right(Plan[i])
                    /\ info[a].i2 = 2 * (i - 1) + 1
    <2>1. CASE a \in TopLevel
      BY <1>1, <2>1, IndexFacts
    <2>2. CASE a \notin TopLevel
      <3> DEFINE g == info[a].group
      <3>1. /\ g \in TopLevel /\ g \in Ranges /\ Past(g) /\ Subdivide(g) # <<>>
            /\ a \in {Left(g), Right(g)}
            /\ info[a].i2 = info[g].i2 + (IF a = Left(g) THEN 0 ELSE 1)
        BY <1>1, <2>2, IndexFacts
      <3> HIDE DEF g
      <3>2. Live(g)
        BY <3>1 DEF Past, Live
      <3>3. PICK i \in 1..Len(Plan) : g = Plan[i] /\ info[g].i2 = 2 * (i - 1)
        BY <3>1, <3>2, IndexFacts
      <3>4. 2 * (i - 1) \in Nat
        BY <1>0
      <3>5. CASE a = Left(g)
        BY <2>2, <3>1, <3>3, <3>4, <3>5 DEF g
      <3>6. CASE a # Left(g)
        BY <2>2, <3>1, <3>3, <3>4, <3>6 DEF g
      <3> QED
        BY <3>5, <3>6
    <2> QED
      BY <2>1, <2>2
  <1>2. PICK i \in 1..Len(Plan) :
                 \/ m = Plan[i] /\ info[m].i2 = 2 * (i - 1)
                 \/ /\ m \notin TopLevel /\ info[m].group = Plan[i] /\ m = Left(Plan[i])
                    /\ info[m].i2 = 2 * (i - 1)
                 \/ /\ m \notin TopLevel /\ info[m].group = Plan[i] /\ m = Right(Plan[i])
                    /\ info[m].i2 = 2 * (i - 1) + 1
    BY <1>1
  <1>3. PICK j \in 1..Len(Plan) :
                 \/ n = Plan[j] /\ info[n].i2 = 2 * (j - 1)
                 \/ /\ n \notin TopLevel /\ info[n].group = Plan[j] /\ n = Left(Plan[j])
                    /\ info[n].i2 = 2 * (j - 1)
                 \/ /\ n \notin TopLevel /\ info[n].group = Plan[j] /\ n = Right(Plan[j])
                    /\ info[n].i2 = 2 * (j - 1) + 1
    BY <1>1
  <1>4. i = j /\ (info[m].i2 = 2 * (i - 1) <=> info[n].i2 = 2 * (j - 1))
    <2>1. /\ info[m].i2 = 2 * (i - 1) \/ info[m].i2 = 2 * (i - 1) + 1
          /\ info[n].i2 = 2 * (j - 1) \/ info[n].i2 = 2 * (j - 1) + 1
      BY <1>2, <1>3
    <2>2. i \in Nat /\ j \in Nat
      BY <1>0
    <2>3. i = j
      BY <2>1, <2>2
    <2> QED
      BY <2>3
  <1>5. Plan[i] \in TopLevel
    BY PlanFacts
  <1>6. 2 * (i - 1) # 2 * (i - 1) + 1
    BY <1>0
  <1> QED
    BY <1>2, <1>3, <1>4, <1>5, <1>6

\* A file in path[] is the chunk's own, and it holds the chunk's pages.
LEMMA PathIs ==
  ASSUME FileInv, NEW m \in Ranges, path[m] # NoPath
  PROVE  /\ Live(m) /\ st[m] \in {"put", "ok"}
         /\ path[m] # InCache => file[path[m]] = PagesOf(m)
         /\ \/ path[m] = InCache /\ cache[m] = PagesOf(m) /\ st[m] = "ok"
            \/ path[m] = ChunkFile(info[m].i2)
            \/ path[m] = MergedFile(info[m].i2) /\ m \in TopLevel
  <1>1. PathSound(m)
    BY DEF FileInv
  <1>2. st[m] \in {"put", "ok"}
    BY <1>1 DEF PathSound
  <1>3. Live(m)
    BY <1>2 DEF Live
  <1>4. \/ path[m] = InCache /\ cache[m] = PagesOf(m) /\ st[m] = "ok"
        \/ path[m] = ChunkFile(info[m].i2)
        \/ path[m] = MergedFile(info[m].i2) /\ m \in TopLevel
    BY <1>1, <1>2 DEF PathSound
  <1>5. path[m] # InCache => file[path[m]] = PagesOf(m)
    BY <1>1, <1>4 DEF PathSound
  <1> QED
    BY <1>2, <1>3, <1>4, <1>5

\* While n renders, nobody reads the file it will write.
LEMMA ChunkFileOwned ==
  ASSUME TreeInv, FileInv, OneHalving, NEW m \in Ranges, NEW n \in Ranges, m # n, st[n] = "render"
  PROVE  path[m] # ChunkFile(info[n].i2)
  <1> SUFFICES ASSUME path[m] = ChunkFile(info[n].i2) PROVE FALSE
    OBVIOUS
  <1>1. path[m] = ChunkFile(info[m].i2) /\ Live(m) /\ info[m].i2 = info[n].i2
    BY PathIs, NamesDiffer
  <1>2. Live(n) /\ ~Past(n)
    BY DEF Live, Past
  <1>3. CASE m \in TopLevel /\ n \notin TopLevel /\ info[n].group = m
    BY <1>1, <1>2, <1>3 DEF FileInv, PathSound
  <1>4. CASE n \in TopLevel /\ m \notin TopLevel /\ info[m].group = n
    BY <1>1, <1>2, <1>4 DEF TreeInv, ChildSound
  <1> QED
    BY <1>1, <1>2, <1>3, <1>4, IndexShared

\* Nobody but n reads the file its halves are merged into.
LEMMA MergedFileOwned ==
  ASSUME TreeInv, FileInv, OneHalving, NEW m \in Ranges, NEW n \in Ranges, m # n,
         n \in TopLevel, Live(n)
  PROVE  path[m] # MergedFile(info[n].i2)
  <1> SUFFICES ASSUME path[m] = MergedFile(info[n].i2) PROVE FALSE
    OBVIOUS
  <1>1. m \in TopLevel /\ Live(m) /\ info[m].i2 = info[n].i2
    BY PathIs, NamesDiffer
  <1> QED
    BY <1>1, IndexShared

\* Only a chunk of the plan has halves.
LEMMA SplitsAreTop ==
  ASSUME TreeInv, OneHalving, NEW n \in Ranges, st[n] \in {"subs", "concat"}
  PROVE  n \in TopLevel /\ Live(n) /\ info[n].group = Root
  <1>1. Live(n) /\ info[n].depth \in Nat /\ info[n].depth < OomDepth
    BY DEF Live, TreeInv, SplitSound
  <1>2. info[n].depth = 0
    BY <1>1, SubdivisionAssumption DEF OneHalving
  <1> QED
    BY <1>1, <1>2, DepthFacts

\* What qpdf reads for a chunk: its pages, if the chunk was rendered.
LEMMA ContentFacts ==
  ASSUME FileInv, NEW m \in Ranges, st[m] \in Finished
  PROVE  /\ st[m] = "ok" => Content(m) = PagesOf(m) /\ Content(m) # <<>>
         /\ st[m] # "ok" => Content(m) = <<>>
  <1>1. CASE st[m] = "ok"
    <2>1. PathSound(m)
      BY DEF FileInv
    <2>2. path[m] # NoPath
      BY <1>1, <2>1, NamesDiffer DEF PathSound
    <2>3. /\ path[m] # InCache => file[path[m]] = PagesOf(m)
          /\ path[m] = InCache => cache[m] = PagesOf(m)
      BY <2>2, PathIs, NamesDiffer
    <2>4. Content(m) = PagesOf(m)
      BY <2>2, <2>3 DEF Content
    <2> QED
      BY <1>1, <2>4, RangePages
  <1>2. CASE st[m] # "ok"
    <2>1. path[m] = NoPath
      BY <1>2 DEF FileInv, PathSound, Finished
    <2> QED
      BY <1>2, <2>1, NamesDiffer DEF Content
  <1> QED
    BY <1>1, <1>2

-----------------------------------------------------------------------------
(* FileInv, step by step.                                                  *)

\* At first there are no files and no errors.
LEMMA FileInit == OneShotInit => FileInv
  <1> SUFFICES ASSUME OneShotInit PROVE FileInv
    OBVIOUS
  <1>1. /\ st = [n \in Ranges |-> IF n \in TopLevel THEN "wait" ELSE "none"]
        /\ path = [n \in Ranges |-> NoPath]
        /\ file = [f \in Files |-> <<>>]
        /\ cache = [n \in Ranges |-> <<>>]
        /\ firstErr = [g \in Groups |-> "none"]
        /\ cancelled = {} /\ job = "running"
    BY DEF OneShotInit
  <1>2. <<>> \in Seq(Nat)
    OBVIOUS
  <1>3. /\ path \in [Ranges -> Files \cup {InCache, NoPath}]
        /\ file \in [Files -> Seq(Nat)]
        /\ cache \in [Ranges -> Seq(Nat)]
        /\ firstErr \in [Groups -> Errors]
    BY <1>1, <1>2 DEF Errors
  <1>4. \A n \in Ranges : PathSound(n)
    <2> SUFFICES ASSUME NEW n \in Ranges PROVE PathSound(n)
      OBVIOUS
    <2>1. path[n] = NoPath /\ st[n] \in {"wait", "none"} /\ (Live(n) => n \in TopLevel)
      BY <1>1 DEF Live
    <2> QED
      BY <2>1, NamesDiffer DEF PathSound
  <1>5. \A n \in Ranges : ErrorSound(n)
    BY <1>1 DEF ErrorSound
  <1>6. GroupSound
    <2>1. \A g \in Groups : firstErr[g] = "none"
      BY <1>1
    <2> QED
      BY <1>1, <2>1 DEF GroupSound, Groups
  <1>7. CacheSound /\ OutputIsDocument /\ MergeFailsOnlyIfAbandoned
    BY <1>1 DEF CacheSound, OutputIsDocument, MergeFailsOnlyIfAbandoned
  <1> QED
    BY <1>3, <1>4, <1>5, <1>6, <1>7 DEF FileInv

\* A chunk whose own state, path and contents stay keeps PathSound, as long as
\* the chunk it came from does not take to its chunk file again.
LEMMA PathFrame ==
  ASSUME FileInv, NEW m \in Ranges,
         st'[m] = st[m], path'[m] = path[m], info'[m] = info[m], cache'[m] = cache[m],
         path[m] # NoPath => file'[path[m]] = file[path[m]],
         Live(m) /\ m \notin TopLevel =>
            path'[info[m].group] # ChunkFile(info'[info[m].group].i2)
  PROVE  (PathSound(m))'
  <1>1. PathSound(m)
    BY DEF FileInv
  <1>2. /\ st[m] \notin {"put", "ok"} => path[m] = NoPath
        /\ st[m] = "put" => path[m] = ChunkFile(info[m].i2)
        /\ st[m] = "ok" => \/ path[m] = InCache /\ cache[m] = PagesOf(m)
                           \/ path[m] = ChunkFile(info[m].i2)
                           \/ path[m] = MergedFile(info[m].i2) /\ m \in TopLevel
        /\ path[m] \in {ChunkFile(info[m].i2), MergedFile(info[m].i2)} => file[path[m]] = PagesOf(m)
    BY <1>1 DEF PathSound
  <1>3. path[m] \in {ChunkFile(info[m].i2), MergedFile(info[m].i2)} => path[m] # NoPath
    BY NamesDiffer
  <1>4. /\ st'[m] \notin {"put", "ok"} => path'[m] = NoPath
        /\ st'[m] = "put" => path'[m] = ChunkFile(info'[m].i2)
        /\ st'[m] = "ok" => \/ path'[m] = InCache /\ cache'[m] = PagesOf(m)
                            \/ path'[m] = ChunkFile(info'[m].i2)
                            \/ path'[m] = MergedFile(info'[m].i2) /\ m \in TopLevel
    BY <1>2
  <1>5. path'[m] \in {ChunkFile(info'[m].i2), MergedFile(info'[m].i2)} => file'[path'[m]] = PagesOf(m)
    BY <1>2, <1>3
  <1>6. (Live(m))' /\ m \notin TopLevel =>
            path'[info'[m].group] # ChunkFile(info'[info'[m].group].i2)
    BY DEF Live
  <1> QED
    BY <1>4, <1>5, <1>6 DEF PathSound

\* A chunk that does not move keeps ErrorSound when errors are only added.
LEMMA ErrorFrame ==
  ASSUME FileInv, TreeInv, NEW m \in Ranges,
         st'[m] = st[m], info'[m] = info[m], clientGone => clientGone',
         \A g \in Groups : firstErr[g] # "none" => firstErr'[g] # "none",
         st[m] = "concat" => firstErr'[m] = firstErr[m]
  PROVE  (ErrorSound(m))'
  <1>1. ErrorSound(m)
    BY DEF FileInv
  <1>2. info[m].group \in Groups /\ Root \in Groups
    BY DEF TreeInv, Groups
  <1>3. /\ firstErr[info[m].group] # "none" => firstErr'[info'[m].group] # "none"
        /\ firstErr[Root] # "none" => firstErr'[Root] # "none"
    BY <1>2
  <1> QED
    BY <1>1, <1>3 DEF ErrorSound

\* The last part of PathSound, for a chunk that stays with its group.
LEMMA GroupPath ==
  ASSUME FileInv, NEW m \in Ranges, Live(m), m \notin TopLevel
  PROVE  path[info[m].group] # ChunkFile(info[info[m].group].i2)
  BY DEF FileInv, PathSound

\* The group whose cancellation stops a half is the chunk it came from.
LEMMA WhyDone ==
  ASSUME TreeInv, FileInv, OneHalving, NEW n \in Ranges, Live(n), CtxDone(n)
  PROVE  clientGone \/ firstErr[Root] # "none" \/ firstErr[info[n].group] # "none"
  <1>1. CASE clientGone
    BY <1>1
  <1>2. CASE ~clientGone
    <2>1. PICK g \in cancelled : g = Root \/ (g # n /\ g[1] <= n[1] /\ n[2] <= g[2])
      BY <1>2 DEF CtxDone
    <2>2. firstErr[g] # "none" /\ g \in TopLevel \cup {Root}
      BY DEF FileInv, GroupSound
    <2>3. CASE g = Root
      BY <2>2, <2>3
    <2>4. CASE g # Root
      <3>1. g \in TopLevel /\ g \in Ranges /\ g # n /\ g[1] <= n[1] /\ n[2] <= g[2]
        BY <2>1, <2>2, <2>4, TopFacts
      <3>2. /\ n[1] \in Nat /\ n[2] \in Nat /\ n[1] <= n[2]
            /\ g[1] \in Nat /\ g[2] \in Nat
        BY <3>1, RangeFacts
      <3>3. n \notin TopLevel
        <4> SUFFICES ASSUME n \in TopLevel PROVE FALSE
          OBVIOUS
        <4>1. Apart(n, g)
          BY <3>1, TopFacts
        <4> QED
          BY <3>1, <3>2, <4>1 DEF Apart
      <3> DEFINE h == info[n].group
      <3>4. h \in TopLevel /\ h \in Ranges /\ h[1] <= n[1] /\ n[2] <= h[2]
        BY <3>3, IndexFacts DEF Inside
      <3> HIDE DEF h
      <3>5. h[1] \in Nat /\ h[2] \in Nat
        BY <3>4, RangeFacts
      <3>6. h = g
        <4> SUFFICES ASSUME h # g PROVE FALSE
          OBVIOUS
        <4>1. Apart(h, g)
          BY <3>1, <3>4, TopFacts
        <4> QED
          BY <3>1, <3>2, <3>4, <3>5, <4>1 DEF Apart
      <3> QED
        BY <2>2, <3>6 DEF h
    <2> QED
      BY <2>3, <2>4
  <1> QED
    BY <1>1, <1>2

\* A goroutine that finds its context done leaves without an error.
LEMMA FileSkip ==
  ASSUME TreeInv, FileInv, OneHalving, NEW n \in Ranges, Skip(n)
  PROVE  FileInv'
  <1>1. /\ st[n] = "wait" /\ CtxDone(n) /\ st' = [st EXCEPT ![n] = "skipped"]
        /\ info' = info /\ path' = path /\ file' = file /\ cache' = cache
        /\ firstErr' = firstErr /\ cancelled' = cancelled /\ clientGone' = clientGone
        /\ job' = job /\ out' = out
    BY DEF Skip
  <1>2. st'[n] = "skipped" /\ \A m \in Ranges : m # n => st'[m] = st[m]
    BY <1>1 DEF TreeInv
  <1>3. Live(n)
    BY <1>1 DEF Live
  <1>4. ASSUME NEW m \in Ranges PROVE (PathSound(m))'
    <2>1. CASE m # n
      BY <1>1, <1>2, <2>1, GroupPath, PathFrame
    <2>2. CASE m = n
      <3>1. path[n] = NoPath
        BY <1>1 DEF FileInv, PathSound
      <3>2. n \notin TopLevel => path[info[n].group] # ChunkFile(info[info[n].group].i2)
        BY <1>3, GroupPath
      <3> QED
        BY <1>1, <1>2, <2>2, <3>1, <3>2, NamesDiffer DEF PathSound
    <2> QED
      BY <2>1, <2>2
  <1>5. ASSUME NEW m \in Ranges PROVE (ErrorSound(m))'
    <2>1. CASE m # n
      BY <1>1, <1>2, <2>1, ErrorFrame
    <2>2. CASE m = n
      <3>1. clientGone \/ firstErr[Root] # "none" \/ firstErr[info[n].group] # "none"
        BY <1>1, <1>3, WhyDone
      <3> QED
        BY <1>1, <1>2, <2>2, <3>1 DEF ErrorSound
    <2> QED
      BY <2>1, <2>2
  <1>6. GroupSound'
    BY <1>1 DEF FileInv, GroupSound
  <1> QED
    BY <1>1, <1>4, <1>5, <1>6 DEF FileInv, CacheSound, OutputIsDocument, MergeFailsOnlyIfAbandoned

\* A chunk found in the cache is done, any other is rendered.
LEMMA FileStart ==
  ASSUME TreeInv, FileInv, OneHalving, NEW n \in Ranges, Start(n)
  PROVE  FileInv'
  <1>1. /\ st[n] = "wait"
        /\ info' = info /\ file' = file /\ cache' = cache
        /\ firstErr' = firstErr /\ cancelled' = cancelled /\ clientGone' = clientGone
        /\ job' = job /\ out' = out
    BY DEF Start
  <1>2. /\ \/ /\ cache[n] # <<>> /\ st' = [st EXCEPT ![n] = "ok"]
              /\ path' = [path EXCEPT ![n] = InCache]
           \/ st' = [st EXCEPT ![n] = "render"] /\ path' = path
    BY DEF Start
  <1>3. path \in [Ranges -> Files \cup {InCache, NoPath}] /\ st \in [Ranges -> States]
    BY DEF FileInv, TreeInv
  <1>4. /\ \A m \in Ranges : m # n => st'[m] = st[m] /\ path'[m] = path[m]
        /\ \/ cache[n] # <<>> /\ st'[n] = "ok" /\ path'[n] = InCache
           \/ st'[n] = "render" /\ path'[n] = path[n]
    BY <1>2, <1>3
  <1>5. path' \in [Ranges -> Files \cup {InCache, NoPath}]
    BY <1>2, <1>3
  <1>6. Live(n) /\ path[n] = NoPath
    BY <1>1 DEF Live, FileInv, PathSound
  <1>7. ASSUME NEW m \in Ranges, Live(m), m \notin TopLevel
        PROVE  path'[info[m].group] # ChunkFile(info'[info[m].group].i2)
    <2>1. info[m].group \in Ranges
      BY <1>7, IndexFacts
    <2>2. path[info[m].group] # ChunkFile(info[info[m].group].i2)
      BY <1>7, GroupPath
    <2>3. path'[info[m].group] \in {path[info[m].group], InCache}
      BY <1>4, <2>1
    <2> QED
      BY <1>1, <2>2, <2>3, NamesDiffer
  <1>8. ASSUME NEW m \in Ranges PROVE (PathSound(m))'
    <2>1. CASE m # n
      BY <1>1, <1>4, <1>7, <2>1, PathFrame
    <2>2. CASE m = n
      <3>1. n \notin TopLevel => path'[info'[n].group] # ChunkFile(info'[info'[n].group].i2)
        BY <1>1, <1>6, <1>7
      <3>2. CASE cache[n] # <<>> /\ st'[n] = "ok" /\ path'[n] = InCache
        <4>1. cache'[n] = PagesOf(n)
          BY <1>1, <3>2 DEF FileInv, CacheSound
        <4> QED
          BY <2>2, <3>1, <3>2, <4>1, NamesDiffer DEF PathSound
      <3>3. CASE st'[n] = "render" /\ path'[n] = path[n]
        BY <1>6, <2>2, <3>1, <3>3, NamesDiffer DEF PathSound
      <3> QED
        BY <1>4, <3>2, <3>3
    <2> QED
      BY <2>1, <2>2
  <1>9. ASSUME NEW m \in Ranges PROVE (ErrorSound(m))'
    <2>1. CASE m # n
      BY <1>1, <1>4, <2>1, ErrorFrame
    <2>2. CASE m = n
      BY <1>4, <2>2 DEF ErrorSound
    <2> QED
      BY <2>1, <2>2
  <1>10. GroupSound'
    BY <1>1 DEF FileInv, GroupSound
  <1> QED
    BY <1>1, <1>5, <1>8, <1>9, <1>10
    DEF FileInv, CacheSound, OutputIsDocument, MergeFailsOnlyIfAbandoned

\* A worker's output replaces whatever the file held; nobody was reading it.
LEMMA FileRenderOk ==
  ASSUME TreeInv, FileInv, OneHalving, NEW n \in Ranges, RenderOk(n)
  PROVE  FileInv'
  <1> DEFINE f == ChunkFile(info[n].i2)
  <1>1. /\ st[n] = "render"
        /\ file' = [file EXCEPT ![f] = PagesOf(n)]
        /\ path' = [path EXCEPT ![n] = f]
        /\ info' = info /\ cache' = cache
        /\ firstErr' = firstErr /\ cancelled' = cancelled /\ clientGone' = clientGone
        /\ job' = job /\ out' = out
    BY DEF RenderOk
  <1>2. st' = [st EXCEPT ![n] = IF CacheActive THEN "put" ELSE "ok"]
    BY DEF RenderOk
  <1>3. /\ path \in [Ranges -> Files \cup {InCache, NoPath}] /\ st \in [Ranges -> States]
        /\ file \in [Files -> Seq(Nat)]
    BY DEF FileInv, TreeInv
  <1>4. Live(n) /\ f \in Files /\ PagesOf(n) \in Seq(Nat)
    BY <1>1, FilesFacts, RangePages DEF Live
  <1>5. \A m \in Ranges : m # n => path[m] # f
    BY <1>1, ChunkFileOwned
  <1>6. /\ \A m \in Ranges : m # n => st'[m] = st[m] /\ path'[m] = path[m]
        /\ st'[n] \in {"put", "ok"} /\ path'[n] = f /\ file'[f] = PagesOf(n)
    <2> HIDE DEF f
    <2> QED
      BY <1>1, <1>2, <1>3, <1>4
  <1>7. /\ path' \in [Ranges -> Files \cup {InCache, NoPath}]
        /\ file' \in [Files -> Seq(Nat)]
    <2> HIDE DEF f
    <2> QED
      BY <1>1, <1>3, <1>4
  <1>8. ASSUME NEW m \in Ranges, m # n, path[m] # NoPath PROVE file'[path[m]] = file[path[m]]
    <2> HIDE DEF f
    <2> QED
      BY <1>1, <1>3, <1>5, <1>8
  <1>9. ASSUME NEW m \in Ranges, Live(m), m \notin TopLevel
        PROVE  path'[info[m].group] # ChunkFile(info'[info[m].group].i2)
    <2>1. info[m].group \in Ranges /\ Past(info[m].group)
      BY <1>9, IndexFacts
    <2>2. info[m].group # n
      BY <1>1, <2>1 DEF Past
    <2> QED
      BY <1>1, <1>6, <1>9, <2>1, <2>2, GroupPath
  <1>10. ASSUME NEW m \in Ranges PROVE (PathSound(m))'
    <2>1. CASE m # n
      <3> HIDE DEF f
      <3> QED
        BY <1>1, <1>6, <1>8, <1>9, <2>1, PathFrame
    <2>2. CASE m = n
      <3>1. n \notin TopLevel => path'[info'[n].group] # ChunkFile(info'[info'[n].group].i2)
        BY <1>1, <1>4, <1>9
      <3>2. path'[n] = ChunkFile(info'[n].i2) /\ file'[path'[n]] = PagesOf(n)
        BY <1>1, <1>6
      <3> QED
        BY <1>6, <2>2, <3>1, <3>2, NamesDiffer DEF PathSound
    <2> QED
      BY <2>1, <2>2
  <1>11. ASSUME NEW m \in Ranges PROVE (ErrorSound(m))'
    <2>1. CASE m # n
      BY <1>1, <1>6, <2>1, ErrorFrame
    <2>2. CASE m = n
      BY <1>6, <2>2 DEF ErrorSound
    <2> QED
      BY <2>1, <2>2
  <1>12. GroupSound'
    BY <1>1 DEF FileInv, GroupSound
  <1> HIDE DEF f
  <1> QED
    BY <1>1, <1>7, <1>10, <1>11, <1>12
    DEF FileInv, CacheSound, OutputIsDocument, MergeFailsOnlyIfAbandoned

\* What goes into the cache is the chunk's own file.
LEMMA FilePutChunk ==
  ASSUME TreeInv, FileInv, OneHalving, NEW n \in Ranges, PutChunk(n)
  PROVE  FileInv'
  <1>1. /\ st[n] = "put"
        /\ cache' = [cache EXCEPT ![n] = file[path[n]]]
        /\ st' = [st EXCEPT ![n] = "ok"]
        /\ info' = info /\ path' = path /\ file' = file
        /\ firstErr' = firstErr /\ cancelled' = cancelled /\ clientGone' = clientGone
        /\ job' = job /\ out' = out
    BY DEF PutChunk
  <1>2. st \in [Ranges -> States] /\ cache \in [Ranges -> Seq(Nat)]
    BY DEF FileInv, TreeInv
  <1>3. Live(n) /\ path[n] = ChunkFile(info[n].i2) /\ file[path[n]] = PagesOf(n)
    BY <1>1 DEF Live, FileInv, PathSound
  <1>4. /\ \A m \in Ranges : m # n => st'[m] = st[m] /\ cache'[m] = cache[m]
        /\ st'[n] = "ok" /\ cache'[n] = PagesOf(n)
    BY <1>1, <1>2, <1>3
  <1>5. cache' \in [Ranges -> Seq(Nat)]
    BY <1>1, <1>2, <1>3, RangePages
  <1>6. ASSUME NEW m \in Ranges PROVE (PathSound(m))'
    <2>1. CASE m # n
      BY <1>1, <1>4, <2>1, GroupPath, PathFrame
    <2>2. CASE m = n
      <3>1. n \notin TopLevel => path'[info'[n].group] # ChunkFile(info'[info'[n].group].i2)
        BY <1>1, <1>3, GroupPath
      <3>2. path'[n] = ChunkFile(info'[n].i2) /\ file'[path'[n]] = PagesOf(n)
        BY <1>1, <1>3
      <3> QED
        BY <1>4, <2>2, <3>1, <3>2, NamesDiffer DEF PathSound
    <2> QED
      BY <2>1, <2>2
  <1>7. ASSUME NEW m \in Ranges PROVE (ErrorSound(m))'
    <2>1. CASE m # n
      BY <1>1, <1>4, <2>1, ErrorFrame
    <2>2. CASE m = n
      BY <1>4, <2>2 DEF ErrorSound
    <2> QED
      BY <2>1, <2>2
  <1>8. GroupSound'
    BY <1>1 DEF FileInv, GroupSound
  <1>9. CacheSound'
    BY <1>4 DEF FileInv, CacheSound
  <1> QED
    BY <1>1, <1>5, <1>6, <1>7, <1>8, <1>9
    DEF FileInv, OutputIsDocument, MergeFailsOnlyIfAbandoned

\* The two halves of a chunk start without a file.
LEMMA FileHalving ==
  ASSUME TreeInv, FileInv, OneHalving, NEW n \in Ranges, RenderOom(n), Subdivide(n) # <<>>
  PROVE  FileInv'
  <1> DEFINE l == Left(n)
             r == Right(n)
             il == [i2 |-> info[n].i2, depth |-> info[n].depth + 1, group |-> n]
             ir == [i2 |-> info[n].i2 + 1, depth |-> info[n].depth + 1, group |-> n]
  <1>1. /\ st[n] = "render"
        /\ st' = [st EXCEPT ![n] = "subs", ![l] = "wait", ![r] = "wait"]
        /\ info' = [info EXCEPT ![l] = il, ![r] = ir]
        /\ path' = path /\ file' = file /\ cache' = cache
        /\ firstErr' = firstErr /\ cancelled' = cancelled /\ clientGone' = clientGone
        /\ job' = job /\ out' = out
    BY DEF RenderOom, Left, Right
  <1>2. l \in Ranges /\ r \in Ranges /\ l # r /\ l # n /\ r # n
    BY HalvesFacts
  <1>3. /\ st \in [Ranges -> States]
        /\ info \in [Ranges -> [i2 : Nat, depth : Nat, group : Groups]]
    BY DEF TreeInv
  <1>4. il.group = n /\ ir.group = n
    OBVIOUS
  <1>5. Live(n) /\ ~Past(n)
    BY <1>1 DEF Live, Past
  <1>6. ~Live(l) /\ ~Live(r)
    <2>1. /\ InHalf(l, n) /\ ~InHalf(n, l) /\ ~Apart(l, n)
          /\ InHalf(r, n) /\ ~InHalf(n, r) /\ ~Apart(r, n)
      BY HalfPlace
    <2> QED
      BY <1>2, <1>5, <2>1 DEF TreeInv, Laminar
  <1> HIDE DEF l, r, il, ir
  <1>7. /\ st'[n] = "subs" /\ st'[l] = "wait" /\ st'[r] = "wait"
        /\ \A m \in Ranges : m \notin {n, l, r} => st'[m] = st[m]
        /\ info'[l] = il /\ info'[r] = ir
        /\ \A m \in Ranges : m \notin {l, r} => info'[m] = info[m]
    BY <1>1, <1>2, <1>3
  <1>8. path[n] = NoPath /\ path[l] = NoPath /\ path[r] = NoPath
    BY <1>1, <1>2, <1>6 DEF FileInv, PathSound, Live
  <1>9. ASSUME NEW m \in Ranges, Live(m), m \notin TopLevel
        PROVE  path'[info[m].group] # ChunkFile(info'[info[m].group].i2)
    <2>1. info[m].group \in Ranges /\ Past(info[m].group)
      BY <1>9, IndexFacts
    <2>2. Live(info[m].group)
      BY <2>1 DEF Past, Live
    <2>3. info'[info[m].group] = info[info[m].group]
      BY <1>6, <1>7, <2>1, <2>2
    <2> QED
      BY <1>1, <1>9, <2>3, GroupPath
  <1>10. ASSUME NEW m \in Ranges PROVE (PathSound(m))'
    <2>1. CASE m \notin {n, l, r}
      BY <1>1, <1>7, <1>9, <2>1, PathFrame
    <2>2. CASE m = n
      <3>1. info'[n] = info[n]
        BY <1>2, <1>7
      <3>2. n \notin TopLevel => path'[info'[n].group] # ChunkFile(info'[info'[n].group].i2)
        BY <1>5, <1>9, <3>1
      <3> QED
        BY <1>1, <1>7, <1>8, <2>2, <3>2, NamesDiffer DEF PathSound
    <2>3. CASE m \in {l, r}
      <3>1. info'[m].group = n /\ st'[m] = "wait" /\ path'[m] = NoPath /\ path'[n] = NoPath
        BY <1>1, <1>4, <1>7, <1>8, <2>3
      <3> QED
        BY <3>1, NamesDiffer DEF PathSound
    <2> QED
      BY <2>1, <2>2, <2>3
  <1>11. ASSUME NEW m \in Ranges PROVE (ErrorSound(m))'
    <2>1. CASE m \notin {n, l, r}
      BY <1>1, <1>7, <2>1, ErrorFrame
    <2>2. CASE m \in {n, l, r}
      <3>1. st'[m] \in {"subs", "wait"}
        BY <1>7, <2>2
      <3> QED
        BY <3>1 DEF ErrorSound
    <2> QED
      BY <2>1, <2>2
  <1>12. GroupSound'
    BY <1>1 DEF FileInv, GroupSound
  <1> QED
    BY <1>1, <1>10, <1>11, <1>12
    DEF FileInv, CacheSound, OutputIsDocument, MergeFailsOnlyIfAbandoned

\* A chunk that fails leaves the first error with its group.
LEMMA FileFail ==
  ASSUME TreeInv, FileInv, OneHalving, NEW n \in Ranges, NEW e \in Errors, Fail(n, e),
         st[n] \notin Finished \cup {"none", "put"}, e # "none",
         info[n].group # Root => e # "merge",
         e = "merge" /\ firstErr[Root] = "none" => clientGone,
         UNCHANGED <<info, path, file, cache, clientGone, job, out>>
  PROVE  FileInv'
  <1> DEFINE g == info[n].group
  <1>1. /\ st' = [st EXCEPT ![n] = "err"]
        /\ info' = info /\ path' = path /\ file' = file /\ cache' = cache
        /\ clientGone' = clientGone /\ job' = job /\ out' = out
    BY DEF Fail
  <1>2. IF firstErr[g] = "none"
        THEN firstErr' = [firstErr EXCEPT ![g] = e] /\ cancelled' = cancelled \cup {g}
        ELSE firstErr' = firstErr /\ cancelled' = cancelled
    BY DEF Fail
  <1>3. st \in [Ranges -> States] /\ firstErr \in [Groups -> Errors] /\ g \in Groups
    BY DEF FileInv, TreeInv
  <1>4. Live(n) /\ path[n] = NoPath
    BY DEF Live, Finished, FileInv, PathSound
  <1>5. g \in TopLevel \cup {Root} /\ (g # Root => g \in Ranges /\ st[g] = "subs")
    BY <1>4, IndexFacts
  <1>6. g \in Ranges => g # Root
    BY RangeFacts
  <1>7. e # "merge" \/ g = Root
    OBVIOUS
  <1>8. \A m \in Ranges : m \in Groups /\ m # Root
    BY RangeFacts DEF Groups
  <1>9. Root \in Groups
    BY DEF Groups
  <1> HIDE DEF g
  <1>10. /\ firstErr' \in [Groups -> Errors] /\ firstErr'[g] # "none"
         /\ \A h \in Groups : h # g => firstErr'[h] = firstErr[h]
         /\ firstErr'[g] = IF firstErr[g] = "none" THEN e ELSE firstErr[g]
    BY <1>2, <1>3
  <1>11. st'[n] = "err" /\ \A m \in Ranges : m # n => st'[m] = st[m]
    BY <1>1, <1>3
  <1>12. ASSUME NEW m \in Ranges PROVE (PathSound(m))'
    <2>1. CASE m # n
      BY <1>1, <1>11, <2>1, GroupPath, PathFrame
    <2>2. CASE m = n
      <3>1. n \notin TopLevel => path'[info'[n].group] # ChunkFile(info'[info'[n].group].i2)
        BY <1>1, <1>4, GroupPath
      <3> QED
        BY <1>1, <1>4, <1>11, <2>2, <3>1, NamesDiffer DEF PathSound
    <2> QED
      BY <2>1, <2>2
  <1>13. ASSUME NEW m \in Ranges PROVE (ErrorSound(m))'
    <2>1. CASE m # n
      <3>1. st[m] = "concat" => firstErr'[m] = firstErr[m]
        BY <1>5, <1>8, <1>10
      <3>2. \A h \in Groups : firstErr[h] # "none" => firstErr'[h] # "none"
        BY <1>10
      <3> QED
        BY <1>1, <1>11, <2>1, <3>1, <3>2, ErrorFrame
    <2>2. CASE m = n
      <3>1. info'[n].group = g
        BY <1>1 DEF g
      <3> QED
        BY <1>10, <1>11, <2>2, <3>1 DEF ErrorSound
    <2> QED
      BY <2>1, <2>2
  <1>14. GroupSound'
    <2>1. /\ cancelled \subseteq TopLevel \cup {Root}
          /\ \A h \in cancelled : firstErr[h] # "none"
          /\ \A h \in Ranges : firstErr[h] # "merge"
          /\ firstErr[Root] = "merge" => clientGone
      BY DEF FileInv, GroupSound
    <2>2. cancelled' \subseteq cancelled \cup {g}
      BY <1>2
    <2>3. cancelled' \subseteq TopLevel \cup {Root}
      BY <1>5, <2>1, <2>2
    <2>4. \A h \in cancelled' : firstErr'[h] # "none"
      <3>1. \A h \in TopLevel \cup {Root} : h \in Groups
        BY <1>9, TopFacts DEF Groups
      <3> QED
        BY <1>10, <2>1, <2>2, <3>1
    <2>5. \A h \in Ranges : firstErr'[h] # "merge"
      BY <1>7, <1>8, <1>10, <2>1
    <2>6. firstErr'[Root] = "merge" => clientGone'
      BY <1>1, <1>9, <1>10, <2>1
    <2> QED
      BY <2>3, <2>4, <2>5, <2>6 DEF GroupSound
  <1> QED
    BY <1>1, <1>10, <1>12, <1>13, <1>14
    DEF FileInv, CacheSound, OutputIsDocument, MergeFailsOnlyIfAbandoned

\* The nested renderAll is over: its error is passed on, or its target made.
LEMMA FileSubsDone ==
  ASSUME TreeInv, FileInv, OneHalving, NEW n \in Ranges, SubsDone(n)
  PROVE  FileInv'
  <1>0. st[n] = "subs" /\ n \in TopLevel /\ Live(n) /\ info[n].group = Root
    BY SplitsAreTop DEF SubsDone
  <1>1. CASE firstErr[n] # "none"
    <2>1. Fail(n, firstErr[n]) /\ UNCHANGED <<info, path, file, cache, clientGone, job, out>>
      BY <1>1 DEF SubsDone
    <2>2. firstErr[n] \in Errors /\ firstErr[n] # "merge"
      BY DEF FileInv, GroupSound, Groups
    <2>3. st[n] \notin Finished \cup {"none", "put"}
      BY <1>0 DEF Finished
    <2> QED
      BY <1>0, <1>1, <2>1, <2>2, <2>3, FileFail
  <1>2. CASE firstErr[n] = "none"
    <2> DEFINE f == MergedFile(info[n].i2)
    <2>1. /\ st' = [st EXCEPT ![n] = "concat"]
          /\ file' = [file EXCEPT ![f] = <<>>]
          /\ info' = info /\ path' = path /\ cache' = cache
          /\ firstErr' = firstErr /\ cancelled' = cancelled /\ clientGone' = clientGone
          /\ job' = job /\ out' = out
      BY <1>2 DEF SubsDone
    <2>2. f \in Files
      BY <1>0, FilesFacts
    <2>3. \A m \in Ranges : m # n => path[m] # f
      BY <1>0, MergedFileOwned
    <2>4. st \in [Ranges -> States] /\ file \in [Files -> Seq(Nat)]
      BY DEF FileInv, TreeInv
    <2>5. path[n] = NoPath
      BY <1>0 DEF FileInv, PathSound
    <2> HIDE DEF f
    <2>6. <<>> \in Seq(Nat)
      OBVIOUS
    <2>7. file' \in [Files -> Seq(Nat)]
      BY <2>1, <2>4, <2>6
    <2>8. st'[n] = "concat" /\ \A m \in Ranges : m # n => st'[m] = st[m]
      BY <2>1, <2>4
    <2>9. ASSUME NEW m \in Ranges, m # n, path[m] # NoPath PROVE file'[path[m]] = file[path[m]]
      BY <2>1, <2>3, <2>4, <2>9
    <2>10. ASSUME NEW m \in Ranges PROVE (PathSound(m))'
      <3>1. CASE m # n
        BY <2>1, <2>8, <2>9, <3>1, GroupPath, PathFrame
      <3>2. CASE m = n
        BY <1>0, <2>1, <2>5, <2>8, <3>2, NamesDiffer DEF PathSound
      <3> QED
        BY <3>1, <3>2
    <2>11. ASSUME NEW m \in Ranges PROVE (ErrorSound(m))'
      <3>1. CASE m # n
        BY <2>1, <2>8, <3>1, ErrorFrame
      <3>2. CASE m = n
        BY <1>2, <2>1, <2>8, <3>2 DEF ErrorSound
      <3> QED
        BY <3>1, <3>2
    <2>12. GroupSound'
      BY <2>1 DEF FileInv, GroupSound
    <2> QED
      BY <2>1, <2>7, <2>10, <2>11, <2>12
      DEF FileInv, CacheSound, OutputIsDocument, MergeFailsOnlyIfAbandoned
  <1> QED
    BY <1>1, <1>2

\* The halves of a chunk about to be merged have finished; unless the client left
\* or the job failed, both were rendered.
LEMMA HalvesDone ==
  ASSUME TreeInv, FileInv, OneHalving, NEW n \in Ranges, st[n] = "concat",
         NEW h \in {Left(n), Right(n)}
  PROVE  /\ h \in Ranges /\ st[h] \in {"ok", "skipped"}
         /\ st[h] = "skipped" => clientGone \/ firstErr[Root] # "none"
  <1>1. /\ Subdivide(n) # <<>> /\ Live(h) /\ info[h].group = n
    BY DEF TreeInv, SplitSound
  <1>2. h \in Ranges
    BY <1>1, HalvesFacts
  <1>3. h \notin TopLevel
    <2>1. n # Root
      BY RangeFacts
    <2> QED
      BY <1>1, <1>2, <2>1, IndexFacts
  <1>4. st[h] \in Finished
    BY <1>1, <1>2, <1>3 DEF TreeInv, ChildSound
  <1>5. firstErr[n] = "none"
    BY DEF FileInv, ErrorSound
  <1>6. /\ st[h] = "err" => firstErr[n] # "none"
        /\ st[h] = "skipped" => clientGone \/ firstErr[Root] # "none" \/ firstErr[n] # "none"
    BY <1>1, <1>2 DEF FileInv, ErrorSound
  <1> QED
    BY <1>2, <1>4, <1>5, <1>6 DEF Finished

\* The merge of two halves gives the pages of the chunk, or fails for want of one.
LEMMA FileConcatSubs ==
  ASSUME TreeInv, FileInv, OneHalving, NEW n \in Ranges, ConcatSubs(n)
  PROVE  FileInv'
  <1> DEFINE l == Left(n)
             r == Right(n)
             subs == Subdivide(n)
             f == MergedFile(info[n].i2)
  <1>1. st[n] = "concat"
    BY DEF ConcatSubs
  <1>2. n \in TopLevel /\ Live(n) /\ info[n].group = Root
    BY <1>1, SplitsAreTop
  <1>3. subs # <<>>
    BY <1>1 DEF TreeInv, SplitSound
  <1>4. subs = <<l, r>> /\ l \in Ranges /\ r \in Ranges
    BY <1>3, HalvesFacts
  <1>5. /\ st[l] \in {"ok", "skipped"} /\ st[r] \in {"ok", "skipped"}
        /\ st[l] = "skipped" \/ st[r] = "skipped" => clientGone \/ firstErr[Root] # "none"
    BY <1>1, HalvesDone
  <1>6. \A m \in {l, r} : /\ st[m] = "ok" => Content(m) = PagesOf(m) /\ Content(m) # <<>>
                          /\ st[m] # "ok" => Content(m) = <<>>
    BY <1>4, <1>5, ContentFacts DEF Finished
  <1>7. Readable(subs) <=> st[l] = "ok" /\ st[r] = "ok"
    <2>1. Readable(subs) <=> Content(l) # <<>> /\ Content(r) # <<>>
      <3> HIDE DEF l, r, subs
      <3>1. DOMAIN subs = {1, 2} /\ subs[1] = l /\ subs[2] = r
        BY <1>4
      <3> QED
        BY <3>1 DEF Readable
    <2> QED
      BY <1>6, <2>1
  <1>8. CASE ~Readable(subs)
    <2>1. Fail(n, "merge") /\ UNCHANGED <<info, path, file, cache, clientGone, job, out>>
      BY <1>8 DEF ConcatSubs
    <2>2. clientGone \/ firstErr[Root] # "none"
      BY <1>5, <1>7, <1>8
    <2>3. st[n] \notin Finished \cup {"none", "put"} /\ "merge" \in Errors
      BY <1>1 DEF Finished, Errors
    <2> QED
      BY <1>2, <2>1, <2>2, <2>3, FileFail
  <1>9. CASE Readable(subs)
    <2>1. /\ file' = [file EXCEPT ![f] = Concat(subs)]
          /\ path' = [path EXCEPT ![n] = f]
          /\ st' = [st EXCEPT ![n] = "ok"]
          /\ info' = info /\ cache' = cache
          /\ firstErr' = firstErr /\ cancelled' = cancelled /\ clientGone' = clientGone
          /\ job' = job /\ out' = out
      BY <1>9 DEF ConcatSubs
    <2>2. Concat(subs) = PagesOf(n)
      <3>1. \A i \in DOMAIN subs : Content(subs[i]) = PagesOf(subs[i])
        <4> HIDE DEF l, r, subs
        <4>1. DOMAIN subs = {1, 2} /\ subs[1] = l /\ subs[2] = r
          BY <1>4
        <4> QED
          BY <1>6, <1>7, <1>9, <4>1
      <3>2. [i \in DOMAIN subs |-> Content(subs[i])] = [i \in DOMAIN subs |-> PagesOf(subs[i])]
        <4> HIDE DEF subs
        <4> QED
          BY <3>1
      <3>3. FlattenSeq([i \in DOMAIN subs |-> PagesOf(subs[i])]) = PagesOf(n)
        BY <1>3, HalvesFlatten
      <3> HIDE DEF subs
      <3> QED
        BY <3>2, <3>3 DEF Concat
    <2>3. f \in Files /\ PagesOf(n) \in Seq(Nat)
      BY <1>2, FilesFacts, RangePages
    <2>4. \A m \in Ranges : m # n => path[m] # f
      BY <1>2, MergedFileOwned
    <2>5. /\ path \in [Ranges -> Files \cup {InCache, NoPath}] /\ st \in [Ranges -> States]
          /\ file \in [Files -> Seq(Nat)]
      BY DEF FileInv, TreeInv
    <2> HIDE DEF f, subs, l, r
    <2>6. /\ \A m \in Ranges : m # n => st'[m] = st[m] /\ path'[m] = path[m]
          /\ st'[n] = "ok" /\ path'[n] = f /\ file'[f] = PagesOf(n)
      BY <2>1, <2>2, <2>3, <2>5
    <2>7. /\ path' \in [Ranges -> Files \cup {InCache, NoPath}]
          /\ file' \in [Files -> Seq(Nat)]
      BY <2>1, <2>2, <2>3, <2>5
    <2>8. ASSUME NEW m \in Ranges, m # n, path[m] # NoPath PROVE file'[path[m]] = file[path[m]]
      BY <2>1, <2>4, <2>5, <2>8
    <2>9. ASSUME NEW m \in Ranges, Live(m), m \notin TopLevel
          PROVE  path'[info[m].group] # ChunkFile(info'[info[m].group].i2)
      <3>1. info[m].group \in Ranges
        BY <2>9, IndexFacts
      <3>2. path'[info[m].group] \in {path[info[m].group], f}
        BY <2>6, <3>1
      <3>3. path[info[m].group] # ChunkFile(info[info[m].group].i2)
        BY <2>9, GroupPath
      <3> QED
        BY <2>1, <3>2, <3>3, NamesDiffer DEF f
    <2>10. ASSUME NEW m \in Ranges PROVE (PathSound(m))'
      <3>1. CASE m # n
        BY <2>1, <2>6, <2>8, <2>9, <3>1, PathFrame
      <3>2. CASE m = n
        <4>1. path'[n] = MergedFile(info'[n].i2) /\ file'[path'[n]] = PagesOf(n)
          BY <2>1, <2>6 DEF f
        <4> QED
          BY <1>2, <2>6, <3>2, <4>1, NamesDiffer DEF PathSound
      <3> QED
        BY <3>1, <3>2
    <2>11. ASSUME NEW m \in Ranges PROVE (ErrorSound(m))'
      <3>1. CASE m # n
        BY <2>1, <2>6, <3>1, ErrorFrame
      <3>2. CASE m = n
        BY <2>6, <3>2 DEF ErrorSound
      <3> QED
        BY <3>1, <3>2
    <2>12. GroupSound'
      BY <2>1 DEF FileInv, GroupSound
    <2> QED
      BY <2>1, <2>7, <2>10, <2>11, <2>12
      DEF FileInv, CacheSound, OutputIsDocument, MergeFailsOnlyIfAbandoned
  <1> QED
    BY <1>8, <1>9

\* While the last merge runs, every chunk of the plan has finished, none with an
\* error on record.
MergeSound ==
    job = "merging" => firstErr[Root] = "none" /\ \A n \in TopLevel : st[n] \in Finished

\* When the chunks of the plan have finished, so have all parts of halved ones.
LEMMA AllQuiet ==
  ASSUME TreeInv, OneHalving, \A n \in TopLevel : st[n] \in Finished,
         NEW n \in Ranges, ChunkStep(n)
  PROVE  FALSE
  <1>1. st[n] \in {"wait", "render", "put", "subs", "concat"}
    BY DEF ChunkStep, Skip, Start, RenderOk, PutChunk, RenderOom, RenderFails, SubsDone,
           ConcatSubs
  <1>2. Live(n) /\ n \notin TopLevel /\ st[n] \notin Finished
    BY <1>1 DEF Live, Finished
  <1> DEFINE g == info[n].group
  <1>3. /\ g \in Ranges /\ st[g] = "subs"
        /\ info[n].depth = info[g].depth + 1 /\ info[n].depth <= OomDepth
    BY <1>2 DEF TreeInv, ChildSound
  <1>4. Live(g) /\ st[g] \notin Finished
    BY <1>3 DEF Live, Finished
  <1> HIDE DEF g
  <1>5. info[g].depth \in 0..OomDepth /\ (info[g].depth = 0 <=> g \in TopLevel)
    BY <1>3, <1>4, DepthFacts
  <1>6. info[g].depth = 0
    BY <1>3, <1>5, SubdivisionAssumption DEF OneHalving
  <1> QED
    BY <1>4, <1>5, <1>6

\* Every step keeps MergeSound.
LEMMA MergeStep ==
  ASSUME OneHalving
  PROVE  TreeInv /\ FileInv /\ MergeSound /\ [OneShotNext]_oneShotVars => MergeSound'
  <1> SUFFICES ASSUME TreeInv, FileInv, MergeSound, [OneShotNext]_oneShotVars PROVE MergeSound'
    OBVIOUS
  <1>1. CASE \E n \in Ranges : ChunkStep(n)
    <2>1. PICK n \in Ranges : ChunkStep(n)
      BY <1>1
    <2>2. job' = job
      BY <2>1 DEF ChunkStep, Skip, Start, RenderOk, PutChunk, RenderOom, RenderFails, SubsDone,
                  ConcatSubs
    <2>3. job # "merging"
      BY <2>1, AllQuiet DEF MergeSound
    <2> QED
      BY <2>2, <2>3 DEF MergeSound
  <1>2. CASE BeginMerge
    <2>1. firstErr[Root] \in Errors
      BY DEF FileInv, Groups
    <2>2. firstErr[Root] # "merging"
      BY <2>1 DEF Errors
    <2> QED
      BY <1>2, <2>2 DEF BeginMerge, MergeSound
  <1>3. CASE MergeEnds
    BY <1>3 DEF MergeEnds, MergeSound
  <1>4. CASE ClientGone \/ JobOver \/ UNCHANGED oneShotVars
    BY <1>4 DEF ClientGone, JobOver, oneShotVars, MergeSound
  <1> QED
    BY <1>1, <1>2, <1>3, <1>4 DEF OneShotNext

\* The end of the rendering leaves the files alone.
LEMMA FileBeginMerge ==
  ASSUME TreeInv, FileInv, BeginMerge
  PROVE  FileInv'
  <1>1. /\ st' = st /\ info' = info /\ path' = path /\ file' = file /\ cache' = cache
        /\ firstErr' = firstErr /\ cancelled' = cancelled /\ clientGone' = clientGone
        /\ job' = (IF firstErr[Root] # "none" THEN firstErr[Root] ELSE "merging")
    BY DEF BeginMerge
  <1>2. firstErr[Root] \in Errors /\ (firstErr[Root] = "merge" => clientGone)
    BY DEF FileInv, GroupSound, Groups
  <1>3. job' # "ok" /\ (job' = "merge" => clientGone)
    BY <1>1, <1>2 DEF Errors
  <1>4. OutputIsDocument' /\ MergeFailsOnlyIfAbandoned'
    BY <1>1, <1>3 DEF OutputIsDocument, MergeFailsOnlyIfAbandoned
  <1>5. ASSUME NEW m \in Ranges PROVE (PathSound(m))' /\ (ErrorSound(m))'
    BY <1>1, GroupPath, PathFrame, ErrorFrame
  <1>6. GroupSound'
    BY <1>1 DEF FileInv, GroupSound
  <1> QED
    BY <1>1, <1>4, <1>5, <1>6 DEF FileInv, CacheSound

\* The last merge: every chunk of the plan was rendered, or the client left.
LEMMA FileMergeEnds ==
  ASSUME TreeInv, FileInv, OneHalving, MergeSound, MergeEnds
  PROVE  FileInv'
  <1>1. /\ st' = st /\ info' = info /\ path' = path /\ file' = file /\ cache' = cache
        /\ firstErr' = firstErr /\ cancelled' = cancelled /\ clientGone' = clientGone
    BY DEF MergeEnds
  <1>2. ASSUME NEW i \in DOMAIN Plan
        PROVE  /\ Plan[i] \in Ranges /\ st[Plan[i]] \in Finished
               /\ info[Plan[i]].group = Root
    <2>1. i \in 1..Len(Plan)
      BY PagesFacts
    <2>2. Plan[i] \in Ranges /\ Plan[i] \in TopLevel
      BY <2>1, PlanFacts
    <2>3. Live(Plan[i])
      BY <2>1 DEF TreeInv, TopSound
    <2> QED
      BY <2>2, <2>3, DepthFacts DEF MergeEnds, MergeSound
  <1>3. OutputIsDocument' /\ MergeFailsOnlyIfAbandoned'
    <2>1. job = "merging" /\ firstErr[Root] = "none"
      BY DEF MergeEnds, MergeSound
    <2>2. CASE Readable(Plan) /\ job' = "ok" /\ out' = Concat(Plan)
      <3>1. job' = "ok" /\ out' = Concat(Plan)
        BY <2>2
      <3>2. ASSUME NEW i \in DOMAIN Plan PROVE Content(Plan[i]) = PagesOf(Plan[i])
        <4>1. Content(Plan[i]) # <<>>
          BY <2>2 DEF Readable
        <4> QED
          BY <1>2, <4>1, ContentFacts
      <3>3. [i \in DOMAIN Plan |-> Content(Plan[i])] = [i \in DOMAIN Plan |-> PagesOf(Plan[i])]
        BY <3>2
      <3>4. Concat(Plan) = Document
        BY <3>3, PlanFlattens DEF Concat
      <3> QED
        BY <3>1, <3>4 DEF OutputIsDocument, MergeFailsOnlyIfAbandoned, Document
    <2>3. CASE ~Readable(Plan) /\ job' = "merge"
      <3>1. job' = "merge"
        BY <2>3
      <3>2. PICK i \in DOMAIN Plan : Content(Plan[i]) = <<>>
        BY <2>3 DEF Readable
      <3>3. st[Plan[i]] \in {"err", "skipped"}
        BY <1>2, <3>2, ContentFacts DEF Finished
      <3>4. ErrorSound(Plan[i])
        BY <1>2 DEF FileInv
      <3>5. clientGone
        BY <1>2, <2>1, <3>3, <3>4 DEF ErrorSound
      <3> QED
        BY <1>1, <3>1, <3>5 DEF OutputIsDocument, MergeFailsOnlyIfAbandoned
    <2>4. CASE clientGone /\ job' = "merge"
      BY <1>1, <2>4 DEF OutputIsDocument, MergeFailsOnlyIfAbandoned
    <2> QED
      BY <2>2, <2>3, <2>4 DEF MergeEnds
  <1>4. ASSUME NEW m \in Ranges PROVE (PathSound(m))' /\ (ErrorSound(m))'
    BY <1>1, GroupPath, PathFrame, ErrorFrame
  <1>5. GroupSound'
    BY <1>1 DEF FileInv, GroupSound
  <1> QED
    BY <1>1, <1>3, <1>4, <1>5 DEF FileInv, CacheSound

\* The client's departure excuses more, and changes nothing else.
LEMMA FileClientGone ==
  ASSUME TreeInv, FileInv, ClientGone
  PROVE  FileInv'
  <1>1. /\ st' = st /\ info' = info /\ path' = path /\ file' = file /\ cache' = cache
        /\ firstErr' = firstErr /\ cancelled' = cancelled /\ clientGone' = TRUE
        /\ job' = job /\ out' = out
    BY DEF ClientGone
  <1>2. ASSUME NEW m \in Ranges PROVE (PathSound(m))' /\ (ErrorSound(m))'
    BY <1>1, GroupPath, PathFrame, ErrorFrame
  <1>3. GroupSound'
    BY <1>1 DEF FileInv, GroupSound
  <1> QED
    BY <1>1, <1>2, <1>3
    DEF FileInv, CacheSound, OutputIsDocument, MergeFailsOnlyIfAbandoned

\* A worker that fails, or runs out of memory on one page.
LEMMA FileRenderFails ==
  ASSUME TreeInv, FileInv, OneHalving, NEW n \in Ranges,
         RenderFails(n) \/ (RenderOom(n) /\ Subdivide(n) = <<>>)
  PROVE  FileInv'
  <1>1. st[n] = "render"
    BY DEF RenderFails, RenderOom
  <1>2. PICK e \in {"floor", "fails", "killed"} : Fail(n, e)
    BY DEF RenderFails, RenderOom
  <1>3. UNCHANGED <<info, path, file, cache, clientGone, job, out>>
    BY DEF RenderFails, RenderOom
  <1>4. st[n] \notin Finished \cup {"none", "put"} /\ e \in Errors /\ e # "none" /\ e # "merge"
    BY <1>1 DEF Finished, Errors
  <1> QED
    BY <1>2, <1>3, <1>4, FileFail

\* Every step keeps FileInv, with TreeInv's help.
LEMMA FileStep ==
  ASSUME OneHalving
  PROVE  TreeInv /\ FileInv /\ MergeSound /\ [OneShotNext]_oneShotVars => FileInv'
  <1> SUFFICES ASSUME TreeInv, FileInv, MergeSound, [OneShotNext]_oneShotVars PROVE FileInv'
    OBVIOUS
  <1>1. CASE \E n \in Ranges : ChunkStep(n)
    <2>1. PICK n \in Ranges : ChunkStep(n)
      BY <1>1
    <2>2. CASE Skip(n)
      BY <2>2, FileSkip
    <2>3. CASE Start(n)
      BY <2>3, FileStart
    <2>4. CASE RenderOk(n)
      BY <2>4, FileRenderOk
    <2>5. CASE PutChunk(n)
      BY <2>5, FilePutChunk
    <2>6. CASE RenderOom(n)
      BY <2>6, FileHalving, FileRenderFails
    <2>7. CASE RenderFails(n)
      BY <2>7, FileRenderFails
    <2>8. CASE SubsDone(n)
      BY <2>8, FileSubsDone
    <2>9. CASE ConcatSubs(n)
      BY <2>9, FileConcatSubs
    <2> QED
      BY <2>1, <2>2, <2>3, <2>4, <2>5, <2>6, <2>7, <2>8, <2>9 DEF ChunkStep
  <1>2. CASE BeginMerge \/ MergeEnds
    BY <1>2, FileBeginMerge, FileMergeEnds
  <1>3. CASE ClientGone
    BY <1>3, FileClientGone
  <1>4. CASE JobOver \/ UNCHANGED oneShotVars
    <2>1. /\ st' = st /\ info' = info /\ path' = path /\ file' = file /\ cache' = cache
          /\ firstErr' = firstErr /\ cancelled' = cancelled /\ clientGone' = clientGone
          /\ job' = job /\ out' = out
      BY <1>4 DEF JobOver, oneShotVars
    <2>2. ASSUME NEW m \in Ranges PROVE (PathSound(m))' /\ (ErrorSound(m))'
      BY <2>1, GroupPath, PathFrame, ErrorFrame
    <2>3. GroupSound'
      BY <2>1 DEF FileInv, GroupSound
    <2> QED
      BY <2>1, <2>2, <2>3
      DEF FileInv, CacheSound, OutputIsDocument, MergeFailsOnlyIfAbandoned
  <1> QED
    BY <1>1, <1>2, <1>3, <1>4 DEF OneShotNext

\* The tree and the files together.
LEMMA FilesAlwaysSound == OneHalving => (OneShotSpec => [](TreeInv /\ FileInv))
  <1> SUFFICES ASSUME OneHalving PROVE OneShotSpec => [](TreeInv /\ FileInv)
    OBVIOUS
  <1>1. OneShotInit => TreeInv /\ FileInv /\ MergeSound
    BY TreeInit, FileInit DEF OneShotInit, MergeSound
  <1>2. TreeInv /\ FileInv /\ MergeSound /\ [OneShotNext]_oneShotVars
            => TreeInv' /\ FileInv' /\ MergeSound'
    BY TreeStep, FileStep, MergeStep
  <1> QED
    BY <1>1, <1>2, PTL DEF OneShotSpec

\* OutputIsDocument for every plan, when no chunk is halved twice: a conversion
\* that succeeds has delivered every page, once and in order.  With two halvings
\* it is false: two parts may then share the name of a file.
THEOREM OutputAlwaysDocument == OneHalving => (OneShotSpec => []OutputIsDocument)
  <1> SUFFICES ASSUME OneHalving PROVE OneShotSpec => []OutputIsDocument
    OBVIOUS
  <1>1. OneShotSpec => [](TreeInv /\ FileInv)
    BY FilesAlwaysSound
  <1>2. TreeInv /\ FileInv => OutputIsDocument
    BY DEF FileInv
  <1> QED
    BY <1>1, <1>2, PTL

\* CacheSound likewise: the chunk cache holds the pages its key names.
THEOREM CacheAlwaysSound == OneHalving => (OneShotSpec => []CacheSound)
  <1> SUFFICES ASSUME OneHalving PROVE OneShotSpec => []CacheSound
    OBVIOUS
  <1>1. OneShotSpec => [](TreeInv /\ FileInv)
    BY FilesAlwaysSound
  <1>2. TreeInv /\ FileInv => CacheSound
    BY DEF FileInv
  <1> QED
    BY <1>1, <1>2, PTL

\* MergeFailsOnlyIfAbandoned likewise: renderAll skips a chunk without an error
\* only if the client has left or an error is on record elsewhere.
THEOREM MergesAlwaysFed == OneHalving => (OneShotSpec => []MergeFailsOnlyIfAbandoned)
  <1> SUFFICES ASSUME OneHalving PROVE OneShotSpec => []MergeFailsOnlyIfAbandoned
    OBVIOUS
  <1>1. OneShotSpec => [](TreeInv /\ FileInv)
    BY FilesAlwaysSound
  <1>2. TreeInv /\ FileInv => MergeFailsOnlyIfAbandoned
    BY DEF FileInv
  <1> QED
    BY <1>1, <1>2, PTL
=============================================================================
