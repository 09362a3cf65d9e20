----------------------------- MODULE MCPlanner -----------------------------
(* All documents of up to MaxPages pages, with and without seams. *)
EXTENDS Planner
CONSTANTS MaxPages, Costs

\* The tilings of 1..n: one for each set of places to cut.
Ends(S, i) == CHOOSE e \in S : Cardinality({x \in S : x <= e}) = i
Tiling(S) == [i \in 1..Cardinality(S) |->
                [from |-> IF i = 1 THEN 1 ELSE Ends(S, i - 1) + 1, to |-> Ends(S, i)]]
Tilings(n) == {Tiling(S \cup {n}) : S \in SUBSET (1..(n - 1))}

AllProbes ==
    UNION {[pages : {n}, cost : Costs,
            seams : {<<>>} \cup (IF n = 0 THEN {} ELSE Tilings(n))] : n \in 0..MaxPages}
AllLimits == [parallel : {1, 3}, budget : {2, 6}, ceiling : {1, 4}, maxPages : {3, 9},
              maxMB : {1, 3}, least : {0, 3}]
=============================================================================
