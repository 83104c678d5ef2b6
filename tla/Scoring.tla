------------------------------- MODULE Scoring -------------------------------
(* Scoring a set of jobs (services/scorer.py): a search scores its batch in  *)
(* one AI call and asks again for each job the reply left out; a request to  *)
(* score a list ranks what one call says of it.  The router tries one model  *)
(* after the other until a reply scores at least one job (AiRouter).         *)
EXTENDS Integers, FiniteSets

CONSTANTS
    Postings,        \* the jobs
    Tries,           \* models the router can ask
    TopScore,        \* bound: scores are 0..TopScore
    ScoringScenes    \* how the jobs come, and which of their keywords match

VARIABLES
    gscene,    \* mode, the jobs, how well their words match, and the limits set
    scoring,   \* the call under way: what it is about and the models left
    marks,     \* llm_score (-1 when missing) and llm_failed of each job
    ranked     \* the jobs handed back

gvars == <<gscene, scoring, marks, ranked>>

Missing == -1
Scores == 0..TopScore
Unmarked == [score |-> Missing, failed |-> FALSE]

ScoringInit ==
    /\ gscene \in ScoringScenes
    /\ scoring = [pc |-> "start", about |-> {}, left |-> Tries]
    /\ marks = [j \in Postings |-> Unmarked]
    /\ ranked = {}

Calls(pc, jobs) == scoring' = [pc |-> pc, about |-> jobs, left |-> Tries]
Ends(pc) == Calls(pc, {})

\* prefilter: the best matches at or above the least percentage, at most `top` of them.
Survivors == {j \in gscene.jobs : gscene.match[j] >= gscene.least}
Kept(s) ==
    /\ s \subseteq Survivors
    /\ Cardinality(s) = IF Cardinality(Survivors) < gscene.top THEN Cardinality(Survivors) ELSE gscene.top
    /\ \A j \in s, o \in Survivors \ s : gscene.match[j] >= gscene.match[o]

Begin ==
    /\ scoring.pc = "start"
    /\ \/ /\ gscene.mode = "live"
          /\ IF gscene.jobs = {} THEN Ends("done")
             ELSE Calls(IF Cardinality(gscene.jobs) = 1 THEN "one" ELSE "batch", gscene.jobs)
       \/ /\ gscene.mode = "list"
          /\ \E s \in SUBSET gscene.jobs : Kept(s) /\ IF s = {} THEN Ends("done") ELSE Calls("rank", s)
    /\ UNCHANGED <<gscene, marks, ranked>>

\* A model that fails, or whose reply scores no job: the next one is asked.
NoUse ==
    /\ scoring.pc \in {"batch", "one", "rank"} /\ scoring.left > 0
    /\ scoring' = [scoring EXCEPT !.left = @ - 1]
    /\ UNCHANGED <<gscene, marks, ranked>>

\* _parse_and_apply_scores: the entries of jobs that were asked about.
Applied(entries) ==
    [j \in Postings |-> IF j \in DOMAIN entries THEN [marks[j] EXCEPT !.score = entries[j]] ELSE marks[j]]
Unanswered(jobs) ==   \* no model answered: a score of 0 unless there is one
    [j \in Postings |-> IF j \in jobs /\ marks[j].score = Missing THEN [marks[j] EXCEPT !.score = 0] ELSE marks[j]]
Failed(jobs) == [j \in Postings |-> IF j \in jobs THEN [Unanswered(jobs)[j] EXCEPT !.failed = TRUE] ELSE marks[j]]

\* Fault: the jobs the reply left out are not asked about again.
NoneLeft(m) == {}
LeftOut(m) == {j \in gscene.jobs : m[j].score = Missing}

\* The jobs still without a score are scored one by one.
NextOne == IF LeftOut(marks') = {} THEN Ends("done") ELSE \E j \in LeftOut(marks') : Calls("one", {j})

Reply ==
    /\ scoring.pc \in {"batch", "one", "rank"} /\ scoring.left > 0
    /\ \E jobs \in SUBSET scoring.about \ {{}} : \E entries \in [jobs -> Scores] : marks' = Applied(entries)
    /\ UNCHANGED gscene
    /\ IF scoring.pc # "rank" THEN NextOne /\ UNCHANGED ranked
       ELSE LET kept == {j \in scoring.about :
                            (IF marks'[j].score = Missing THEN 0 ELSE marks'[j].score) >= gscene.minimum}
            IN  IF \E j \in kept : marks'[j].score = Missing   \* the sort reads the score
                THEN Ends("crashed") /\ UNCHANGED ranked
                ELSE Ends("done") /\ ranked' = kept

NoModel ==
    /\ scoring.pc \in {"batch", "one", "rank"} /\ scoring.left = 0
    /\ marks' = IF scoring.pc = "rank" THEN Unanswered(scoring.about) ELSE Failed(scoring.about)
    /\ IF scoring.pc = "one" THEN NextOne ELSE Ends("done")
    /\ UNCHANGED <<gscene, ranked>>

ScoringNext == Begin \/ NoUse \/ Reply \/ NoModel
ScoringSpec == ScoringInit /\ [][ScoringNext]_gvars

----------------------------------------------------------------------------
ScoringTypeOK ==
    /\ scoring.about \subseteq Postings /\ scoring.left \in 0..Tries
    /\ \A j \in Postings : marks[j].score \in Scores \cup {Missing} /\ marks[j].failed \in BOOLEAN
    /\ ranked \subseteq Postings

\* When a batch is done each of its jobs has a score, and it counts as failed
\* only when no model scored it, in the batch's call or in its own: a reply that
\* leaves jobs out fails none and forgets none (scorer.py:216-269).
EachJudged ==
    gscene.mode = "live" /\ scoring.pc = "done" =>
        \A j \in gscene.jobs : marks[j].score # Missing /\ (marks[j].failed => marks[j].score = 0)

\* A list that a model answered for is ranked.  Not with a minimum of 0, which
\* ScoreRequest allows: a job the reply left out passes it and has no score to
\* sort by, so the task fails (scorer.py:210-211, schemas.py:174).
ListRanked == scoring.pc # "crashed"
=============================================================================
