--------------------------- MODULE MCApplyEngine ---------------------------
(* Instances of ApplyEngine for TLC: a few runs of a few jobs. *)
EXTENDS ApplyEngine, TLC

CONSTANTS r1, r2, r3, r4, j1, j2, j3, j4, w1, w2

OneTitle == [j \in Jobs |-> "acme|engineer"]
OnGreenhouse == [j \in Jobs |-> "greenhouse"]
OnGeneric == [j \in Jobs |-> "generic"]

\* Two runs of one job of a company career page.
OneJob == {j1}
BothForOneJob == [r \in Runs |-> j1]
WorkersAlike == Permutations(Workers)
AllAlike == Permutations(Workers) \cup Permutations(Runs)

\* Runs of four unrelated jobs, the fourth on LinkedIn: more approvals than
\* the cap allows, beside a Fast apply.
FourJobs == {j1, j2, j3, j4}
OneRunEach == (r1 :> j1) @@ (r2 :> j2) @@ (r3 :> j3) @@ (r4 :> j4)
JobsUnrelated == [j \in Jobs |-> j]
LastOnLinkedIn == [j \in Jobs |-> IF j = j4 THEN "linkedin" ELSE "greenhouse"]

\* The first three runs may be exchanged, each together with its job.
RunsWithJobs ==
    {(r1 :> p[r1]) @@ (r2 :> p[r2]) @@ (r3 :> p[r3])
       @@ (j1 :> OneRunEach[p[r1]]) @@ (j2 :> OneRunEach[p[r2]]) @@ (j3 :> OneRunEach[p[r3]]) :
     p \in Permutations({r1, r2, r3})} \cup Permutations(Workers)
=============================================================================
