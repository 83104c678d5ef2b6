---------------------------- MODULE MCSearchFeed ----------------------------
(* Instances of SearchFeed for TLC: two or three titles that find copies of *)
(* the same one or two jobs.                                                *)
EXTENDS SearchFeed, TLC

CONSTANTS j1, j2, t1, t2, t3

TwoTitles == <<t1, t2>>
ThreeTitles == <<t1, t2, t3>>

New == [state |-> "none", known |-> "none"]
Copy(j, c) == <<[job |-> j, copy |-> c]>>

\* Two titles find the same job, each in a copy of its own; the third
\* title finds nothing.
OneJob == (t1 :> {Copy(j1, 1)}) @@ (t2 :> {Copy(j1, 2)}) @@ (t3 :> {<< >>})
JobIsNew == [j \in {j1} |-> New]
OneNotStored == [j \in {j1} |-> 0]

\* The first title finds two jobs, the second one or two of them in better
\* copies; the second job was filtered out before, and the minimum is lower now.
TwoJobs == (t1 :> {Copy(j1, 1) \o Copy(j2, 1)}) @@ (t2 :> {Copy(j1, 2), Copy(j2, 2), Copy(j2, 2) \o Copy(j1, 2)})
SecondMet == (j1 :> New) @@ (j2 :> [state |-> "filtered", known |-> "good"])
SecondStored == (j1 :> 0) @@ (j2 :> 1)
=============================================================================
